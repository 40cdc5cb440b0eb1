-------------------------- MODULE TokenSalesProofs --------------------------
(***************************************************************************)
(* Proofs about the two ways to come by a token: Marketplace, where its    *)
(* holders sell and swap, and SalesDesk, where the fund sells.  They share *)
(* no state here; the desk's specification has names of its own.           *)
(*                                                                         *)
(* Marketplace, for any number of users, tokens, listings and swap         *)
(* requests: every sale has its listing, and an account changes hands only *)
(* as its owner agreed.  The types need one more fact: an active account   *)
(* has an owner, or else a sale or a swap request would name nobody.  The  *)
(* count of sales needs that no two active listings offer the same token:  *)
(* a sale closes every active listing of its token, and that has to be     *)
(* one.                                                                    *)
(*                                                                         *)
(* SalesDesk, for every number of customers, messages and faults, every    *)
(* supply and every result of the recent trades: a customer never has two  *)
(* accounts, no more tokens are minted than there are, and the three       *)
(* tables of the negotiation agree on every offer, not only on the         *)
(* percentages the runs try.                                               *)
(***************************************************************************)
EXTENDS Marketplace, SalesDesk, FiniteSetTheorems, SequenceTheorems, TLAPS

ActiveHasOwner == \A t \in Token : active[t] => owner[t] # NoUser

Sold(t) == {l \in DOMAIN listings : listings[l].token = t /\ listings[l].status = "sold"}
Booked(t) == {k \in DOMAIN sales : sales[k].token = t}

OneOffer == \A l, m \in ActiveListings : listings[l].token = listings[m].token => l = m

SoldIsBooked == \A t \in Token : Cardinality(Sold(t)) = Cardinality(Booked(t))

Owned == TypeOK /\ ActiveHasOwner

MarketInv == Owned /\ OneOffer /\ SoldIsBooked

-----------------------------------------------------------------------------
(* Marketplace: types and owners *)

\* The rows of the tables have the types of rows.
LEMMA Rows ==
  ASSUME TypeOK
  PROVE  /\ Len(listings) \in Nat /\ DOMAIN listings = 1 .. Len(listings)
         /\ \A l \in DOMAIN listings : listings[l] \in Listing
         /\ Len(swaps) \in Nat /\ DOMAIN swaps = 1 .. Len(swaps)
         /\ \A s \in DOMAIN swaps : swaps[s] \in Swap
         /\ Len(sales) \in Nat /\ DOMAIN sales = 1 .. Len(sales)
<1>1. listings \in [1 .. Len(listings) -> Listing] /\ Len(listings) \in Nat
  BY LenProperties DEF TypeOK
<1>2. swaps \in [1 .. Len(swaps) -> Swap] /\ Len(swaps) \in Nat
  BY LenProperties DEF TypeOK
<1>3. sales \in [1 .. Len(sales) -> Sale] /\ Len(sales) \in Nat
  BY LenProperties DEF TypeOK
<1>. QED  BY <1>1, <1>2, <1>3

\* Nobody owns anything at the start.
LEMMA InitOwned == Init => Owned
<1>. SUFFICES ASSUME Init PROVE Owned
  OBVIOUS
<1>1. listings \in Seq(Listing) /\ swaps \in Seq(Swap) /\ sales \in Seq(Sale)
  BY EmptySeq DEF Init
<1>2. owner \in [Token -> User \cup {NoUser}] /\ active \in [Token -> BOOLEAN] /\ paused \in BOOLEAN
  BY DEF Init
<1>3. now \in 0 .. MaxTime
  BY TimeAssumption DEF Init
<1>4. ActiveHasOwner
  BY DEF Init, ActiveHasOwner
<1>. QED  BY <1>1, <1>2, <1>3, <1>4 DEF Owned, TypeOK

\* A new account belongs to its user.
LEMMA CreateAccountOwned ==
  ASSUME NEW t \in Token, NEW u \in User, Owned, CreateAccount(t, u)
  PROVE  Owned'
  BY UserAssumption DEF CreateAccount, Owned, TypeOK, ActiveHasOwner, market

\* A withdrawn account keeps its owner and is not active.
LEMMA WithdrawOwned ==
  ASSUME NEW t \in Token, Owned, Withdraw(t)
  PROVE  Owned'
  BY DEF Withdraw, Owned, TypeOK, ActiveHasOwner, market

\* A new listing names a token and its owner.
LEMMA CreateListingOwned ==
  ASSUME NEW u \in User, NEW t \in Token, Owned, CreateListing(u, t)
  PROVE  Owned'
<1>1. [token |-> t, seller |-> u, status |-> "active"] \in Listing
  BY DEF Listing
<1>2. listings' \in Seq(Listing)
  BY <1>1 DEF CreateListing, Owned, TypeOK
<1>. QED  BY <1>2 DEF CreateListing, Owned, TypeOK, ActiveHasOwner

\* A listing that is cancelled keeps its token and its seller.
LEMMA CancelListingOwned ==
  ASSUME NEW u \in User, NEW l \in DOMAIN listings, Owned, CancelListing(u, l)
  PROVE  Owned'
<1>1. [listings[l] EXCEPT !.status = "cancelled"] \in Listing
  BY Rows DEF Owned, Listing
<1>2. listings' = [listings EXCEPT ![l] = [listings[l] EXCEPT !.status = "cancelled"]]
  BY DEF CancelListing
<1>3. listings' \in Seq(Listing)
  BY <1>1, <1>2, Rows, ExceptSeq DEF Owned, TypeOK
<1>. QED  BY <1>3 DEF CancelListing, Owned, TypeOK, ActiveHasOwner

\* A sale is booked between two users: the account was active, so it had an owner.
LEMMA ExecutePurchaseOwned ==
  ASSUME NEW u \in User, NEW l \in DOMAIN listings, Owned, ExecutePurchase(u, l)
  PROVE  Owned'
<1>. DEFINE t == listings[l].token
<1>1. t \in Token /\ active[t] /\ owner[t] \in User
  BY Rows DEF ExecutePurchase, RecordP2PSale, Owned, TypeOK, ActiveHasOwner, Listing
<1>2. [token |-> t, seller |-> owner[t], buyer |-> u] \in Sale
  BY <1>1 DEF Sale
<1>3. sales' \in Seq(Sale)
  BY <1>2 DEF ExecutePurchase, RecordP2PSale, Owned, TypeOK
<1>4. owner' = [owner EXCEPT ![t] = u]
  BY DEF ExecutePurchase, RecordP2PSale
<1>5. \A k \in DOMAIN listings : listings'[k] \in Listing
  BY Rows DEF ExecutePurchase, RecordP2PSale, Owned, Listing
<1>6. listings' \in Seq(Listing)
  <2>1. DOMAIN listings' = 1 .. Len(listings) /\ Len(listings) \in Nat
    BY Rows DEF ExecutePurchase, RecordP2PSale, Owned
  <2>2. listings' = [k \in 1 .. Len(listings) |-> listings'[k]]
    BY <2>1 DEF ExecutePurchase, RecordP2PSale
  <2>3. listings' \in [1 .. Len(listings) -> Listing]
    BY <1>5, <2>1, <2>2
  <2>. QED  BY <2>1, <2>3, SeqDef
<1>. QED  BY <1>1, <1>3, <1>4, <1>6, UserAssumption DEF ExecutePurchase, Owned, TypeOK, ActiveHasOwner

-----------------------------------------------------------------------------
(* Marketplace: swap requests *)

\* The target of a request owns an active account, so it is a user.
LEMMA ProposeSwapOwned ==
  ASSUME NEW u \in User, NEW t1 \in Token, NEW t2 \in Token, Owned, ProposeSwap(u, t1, t2)
  PROVE  Owned'
<1>. DEFINE new == [from |-> t1, proposer |-> u, to |-> t2, target |-> owner[t2],
                    expiresAt |-> now + SwapLifetime, status |-> "pending"]
<1>1. owner[t2] \in User /\ now + SwapLifetime \in Nat
  BY TimeAssumption DEF ProposeSwap, CreateSwapRequest, Owned, TypeOK, ActiveHasOwner
<1>2. new \in Swap
  BY <1>1 DEF Swap
<1>3. swaps' = Append(swaps, new)
  BY DEF ProposeSwap, CreateSwapRequest
<1>4. swaps' \in Seq(Swap)
  BY <1>2, <1>3 DEF Owned, TypeOK
<1>. QED  BY <1>4 DEF ProposeSwap, Owned, TypeOK, ActiveHasOwner

\* Requests whose status alone changes stay requests.
LEMMA StatusChange ==
  ASSUME TypeOK, DOMAIN swaps' = DOMAIN swaps, swaps' = [s \in DOMAIN swaps |-> swaps'[s]],
         \A s \in DOMAIN swaps : \E status \in {"pending", "accepted", "rejected", "cancelled", "expired"} :
             swaps'[s] = [swaps[s] EXCEPT !.status = status]
  PROVE  swaps' \in Seq(Swap)
<1>1. \A s \in DOMAIN swaps : swaps[s] \in Swap
  BY Rows
<1>2. \A s \in DOMAIN swaps : swaps'[s] \in Swap
  BY <1>1 DEF Swap
<1>3. DOMAIN swaps = 1 .. Len(swaps) /\ Len(swaps) \in Nat
  BY Rows
<1>4. swaps' \in [1 .. Len(swaps) -> Swap]
  BY <1>2, <1>3
<1>. QED  BY <1>3, <1>4, SeqDef

\* An unchanged request has a status of the list.
LEMMA StatusKept ==
  ASSUME TypeOK, NEW s \in DOMAIN swaps
  PROVE  /\ swaps[s].status \in {"pending", "accepted", "rejected", "cancelled", "expired"}
         /\ swaps[s] = [swaps[s] EXCEPT !.status = swaps[s].status]
<1>1. swaps[s] \in Swap
  BY Rows
<1>. QED  BY <1>1 DEF Swap

\* The two parties of a swap are users, so both accounts keep an owner.
LEMMA AcceptSwapOwned ==
  ASSUME NEW u \in User, NEW s \in DOMAIN swaps, Owned, AcceptSwap(u, s)
  PROVE  Owned'
<1>1. /\ swaps[s].from \in Token /\ swaps[s].to \in Token
      /\ swaps[s].proposer \in User /\ swaps[s].target \in User
  BY Rows DEF Owned, Swap
<1>2. owner' \in [Token -> User \cup {NoUser}] /\ ActiveHasOwner'
  BY <1>1, UserAssumption DEF AcceptSwap, Exchange, Owned, TypeOK, ActiveHasOwner
<1>3. DOMAIN swaps' = DOMAIN swaps /\ swaps' = [r \in DOMAIN swaps |-> swaps'[r]]
  BY DEF AcceptSwap, Exchange
<1>4. \A r \in DOMAIN swaps : \E status \in {"pending", "accepted", "rejected", "cancelled", "expired"} :
          swaps'[r] = [swaps[r] EXCEPT !.status = status]
  BY StatusKept DEF AcceptSwap, Exchange, Owned
<1>5. swaps' \in Seq(Swap)
  BY <1>3, <1>4, StatusChange DEF Owned
<1>. QED  BY <1>2, <1>5 DEF AcceptSwap, Owned, TypeOK

\* Closing a request changes its status only.
LEMMA CloseSwapOwned ==
  ASSUME NEW s \in DOMAIN swaps, NEW status \in {"rejected", "cancelled"}, Owned, CloseSwap(s, status)
  PROVE  Owned'
<1>1. DOMAIN swaps' = DOMAIN swaps /\ swaps' = [r \in DOMAIN swaps |-> swaps'[r]]
  BY DEF CloseSwap
<1>2. \A r \in DOMAIN swaps : \E st \in {"pending", "accepted", "rejected", "cancelled", "expired"} :
          swaps'[r] = [swaps[r] EXCEPT !.status = st]
  BY StatusKept DEF CloseSwap, Owned
<1>3. swaps' \in Seq(Swap)
  BY <1>1, <1>2, StatusChange DEF Owned
<1>. QED  BY <1>3 DEF CloseSwap, Owned, TypeOK, ActiveHasOwner

\* So does expiry.
LEMMA ViewSwapRequestsOwned ==
  ASSUME Owned, ViewSwapRequests
  PROVE  Owned'
<1>1. DOMAIN swaps' = DOMAIN swaps /\ swaps' = [r \in DOMAIN swaps |-> swaps'[r]]
  BY DEF ViewSwapRequests, ExpireOldSwapRequests
<1>2. \A r \in DOMAIN swaps : \E st \in {"pending", "accepted", "rejected", "cancelled", "expired"} :
          swaps'[r] = [swaps[r] EXCEPT !.status = st]
  BY StatusKept DEF ViewSwapRequests, ExpireOldSwapRequests, Owned
<1>3. swaps' \in Seq(Swap)
  BY <1>1, <1>2, StatusChange DEF Owned
<1>. QED  BY <1>3 DEF ViewSwapRequests, Owned, TypeOK, ActiveHasOwner

\* Every step keeps the types, and active accounts their owners.
LEMMA NextOwned == Owned /\ [Next]_vars => Owned'
<1>. SUFFICES ASSUME Owned, [Next]_vars PROVE Owned'
  OBVIOUS
<1>1. CASE UNCHANGED vars
  BY <1>1 DEF vars, market, Owned, TypeOK, ActiveHasOwner
<1>2. CASE \E u \in User, t \in Token : CreateAccount(t, u)
  BY <1>2, CreateAccountOwned
<1>3. CASE \E t \in Token : Withdraw(t)
  BY <1>3, WithdrawOwned
<1>4. CASE ListingTools
  BY <1>4, CreateListingOwned, CancelListingOwned, ExecutePurchaseOwned DEF ListingTools
<1>5. CASE SwapTools
  <2>1. CASE \E u \in User, t1, t2 \in Token : ProposeSwap(u, t1, t2)
    BY <2>1, ProposeSwapOwned
  <2>2. CASE \E u \in User, s \in DOMAIN swaps : AcceptSwap(u, s)
    BY <2>2, AcceptSwapOwned
  <2>3. CASE \E u \in User, s \in DOMAIN swaps : RejectSwap(u, s) \/ CancelSwap(u, s)
    BY <2>3, CloseSwapOwned DEF RejectSwap, CancelSwap
  <2>4. CASE ViewSwapRequests
    BY <2>4, ViewSwapRequestsOwned
  <2>. QED  BY <1>5, <2>1, <2>2, <2>3, <2>4 DEF SwapTools
<1>6. CASE TogglePause
  BY <1>6 DEF TogglePause, market, Owned, TypeOK, ActiveHasOwner
<1>7. CASE Tick
  BY <1>7, TimeAssumption DEF Tick, market, Owned, TypeOK, ActiveHasOwner
<1>. QED  BY <1>1, <1>2, <1>3, <1>4, <1>5, <1>6, <1>7 DEF Next

\* The tables always hold rows of their types, and every active account has an owner.
THEOREM MarketTypes == Spec => [](TypeOK /\ ActiveHasOwner)
<1>1. Spec => []Owned
  BY InitOwned, NextOwned, PTL DEF Spec
<1>. QED  BY <1>1, PTL DEF Owned

-----------------------------------------------------------------------------
(* Marketplace: what a step may do *)

\* The step formulas of OwnershipMovesByConsent and SwapsGiveBothSides.
MovesByConsent ==
    \A t \in Token : owner'[t] # owner[t] /\ owner[t] # NoUser =>
        /\ ~paused /\ active[t]
        /\ \/ \E l \in ActiveListings : listings[l].token = t /\ listings'[l].status = "sold"
           \/ \E s \in PendingSwaps :
                  /\ swaps'[s].status = "accepted" /\ now <= swaps[s].expiresAt
                  /\ \/ swaps[s].from = t /\ swaps[s].proposer = owner[t] /\ swaps[s].target = owner'[t]
                     \/ swaps[s].to = t /\ swaps[s].target = owner[t] /\ swaps[s].proposer = owner'[t]

GivesBothSides ==
    \A s \in PendingSwaps : swaps'[s].status = "accepted" =>
        /\ owner[swaps[s].from] = swaps[s].proposer
        /\ owner'[swaps[s].to] = swaps[s].proposer
        /\ owner[swaps[s].to] = swaps[s].target
        /\ owner'[swaps[s].from] = swaps[s].target

\* A purchase moves the account of one active listing, which it marks as sold.
LEMMA ExecutePurchaseMoves ==
  ASSUME NEW u \in User, NEW l \in DOMAIN listings, Owned, ExecutePurchase(u, l)
  PROVE  MovesByConsent /\ GivesBothSides
<1>1. listings[l].token \in Token /\ active[listings[l].token] /\ ~paused /\ l \in ActiveListings
  BY Rows DEF ExecutePurchase, RecordP2PSale, Owned, Listing
<1>2. owner' = [owner EXCEPT ![listings[l].token] = u] /\ listings'[l].status = "sold"
  <2>1. listings'[l] = [listings[l] EXCEPT !.status = "sold"]
    BY <1>1 DEF ExecutePurchase, RecordP2PSale
  <2>2. listings[l] \in Listing
    BY Rows DEF Owned
  <2>. QED  BY <2>1, <2>2 DEF ExecutePurchase, RecordP2PSale, Listing
<1>3. MovesByConsent
  BY <1>1, <1>2 DEF MovesByConsent, Owned, TypeOK
<1>4. GivesBothSides
  BY DEF ExecutePurchase, GivesBothSides, PendingSwaps
<1>. QED  BY <1>3, <1>4

\* A swap moves two accounts, between the two parties it names; every other
\* request keeps its status or is cancelled.
LEMMA AcceptSwapMoves ==
  ASSUME NEW u \in User, NEW s \in DOMAIN swaps, Owned, AcceptSwap(u, s)
  PROVE  MovesByConsent /\ GivesBothSides
<1>. DEFINE from == swaps[s].from
            to   == swaps[s].to
<1>1. from \in Token /\ to \in Token /\ swaps[s] \in Swap
  BY Rows DEF Owned, Swap
<1>2. /\ ~paused /\ s \in PendingSwaps /\ now <= swaps[s].expiresAt
      /\ active[from] /\ active[to] /\ owner[from] = swaps[s].proposer /\ owner[to] = swaps[s].target
  BY DEF AcceptSwap, Executable
<1>3. owner' = [owner EXCEPT ![from] = swaps[s].target, ![to] = swaps[s].proposer]
  BY DEF AcceptSwap, Exchange
<1>4. swaps'[s].status = "accepted"
  <2>1. swaps'[s] = [swaps[s] EXCEPT !.status = "accepted"]
    BY DEF AcceptSwap, Exchange
  <2>. QED  BY <1>1, <2>1 DEF Swap
<1>5. owner'[to] = swaps[s].proposer /\ owner'[from] = swaps[s].target
  BY <1>1, <1>2, <1>3 DEF Owned, TypeOK
<1>6. MovesByConsent
  <2>1. \A t \in Token : owner'[t] # owner[t] => t \in {from, to}
    BY <1>1, <1>3 DEF Owned, TypeOK
  <2>. QED  BY <1>2, <1>4, <1>5, <2>1 DEF MovesByConsent
<1>7. \A r \in PendingSwaps : swaps'[r].status = "accepted" => r = s
  <2>1. \A r \in PendingSwaps : r # s => swaps'[r] = [swaps[r] EXCEPT !.status = "cancelled"] \/ swaps'[r] = swaps[r]
    BY DEF AcceptSwap, Exchange, PendingSwaps
  <2>2. \A r \in PendingSwaps : swaps[r] \in Swap /\ swaps[r].status = "pending"
    BY Rows DEF Owned, PendingSwaps
  <2>. QED  BY <2>1, <2>2 DEF Swap
<1>8. GivesBothSides
  BY <1>2, <1>5, <1>7 DEF GivesBothSides
<1>. QED  BY <1>6, <1>8

\* No other step takes an account from its owner or accepts a swap.
LEMMA NextMoves == Owned /\ [Next]_vars => MovesByConsent /\ GivesBothSides
<1>. SUFFICES ASSUME Owned, [Next]_vars PROVE MovesByConsent /\ GivesBothSides
  OBVIOUS
<1>. USE DEF MovesByConsent, GivesBothSides, PendingSwaps
<1>0. ASSUME UNCHANGED owner,
             \A s \in PendingSwaps : swaps'[s].status = "accepted" => swaps[s].status = "accepted"
      PROVE  MovesByConsent /\ GivesBothSides
  BY <1>0
<1>1. CASE UNCHANGED vars
  BY <1>0, <1>1 DEF vars, market
<1>2. ASSUME NEW u \in User, NEW t \in Token, CreateAccount(t, u) PROVE MovesByConsent /\ GivesBothSides
  BY <1>2 DEF CreateAccount, market, Owned, TypeOK
<1>3. CASE \E t \in Token : Withdraw(t)
  BY <1>0, <1>3 DEF Withdraw, market
<1>4. CASE ListingTools
  <2>1. CASE \E u \in User, t \in Token : CreateListing(u, t)
    BY <1>0, <2>1 DEF CreateListing
  <2>2. CASE \E u \in User, l \in DOMAIN listings : CancelListing(u, l)
    BY <1>0, <2>2 DEF CancelListing
  <2>3. CASE \E u \in User, l \in DOMAIN listings : ExecutePurchase(u, l)
    BY <2>3, ExecutePurchaseMoves
  <2>. QED  BY <1>4, <2>1, <2>2, <2>3 DEF ListingTools
<1>5. CASE SwapTools
  <2>1. ASSUME NEW u \in User, NEW t1 \in Token, NEW t2 \in Token, ProposeSwap(u, t1, t2)
        PROVE  MovesByConsent /\ GivesBothSides
    <3>1. swaps \in Seq(Swap) /\ DOMAIN swaps = 1 .. Len(swaps) /\ Len(swaps) \in Nat
      BY Rows DEF Owned, TypeOK
    <3>2. \A s \in DOMAIN swaps : swaps'[s] = swaps[s]
      BY <2>1, <3>1 DEF ProposeSwap, CreateSwapRequest
    <3>. QED  BY <1>0, <2>1, <3>2 DEF ProposeSwap
  <2>2. CASE \E u \in User, s \in DOMAIN swaps : AcceptSwap(u, s)
    BY <2>2, AcceptSwapMoves
  <2>3. ASSUME NEW s \in DOMAIN swaps, NEW status \in {"rejected", "cancelled"}, CloseSwap(s, status)
        PROVE  MovesByConsent /\ GivesBothSides
    <3>1. \A r \in DOMAIN swaps : swaps'[r] = swaps[r] \/ swaps'[r] = [swaps[r] EXCEPT !.status = status]
      BY <2>3 DEF CloseSwap
    <3>2. \A r \in DOMAIN swaps : swaps[r] \in Swap
      BY Rows DEF Owned
    <3>3. \A r \in DOMAIN swaps : swaps'[r].status \in {swaps[r].status, status}
      BY <3>1, <3>2 DEF Swap
    <3>. QED  BY <1>0, <2>3, <3>3 DEF CloseSwap
  <2>4. CASE ViewSwapRequests
    <3>1. \A r \in DOMAIN swaps : swaps'[r] = swaps[r] \/ swaps'[r] = [swaps[r] EXCEPT !.status = "expired"]
      BY <2>4 DEF ViewSwapRequests, ExpireOldSwapRequests
    <3>2. \A r \in DOMAIN swaps : swaps[r] \in Swap
      BY Rows DEF Owned
    <3>3. \A r \in DOMAIN swaps : swaps'[r].status \in {swaps[r].status, "expired"}
      BY <3>1, <3>2 DEF Swap
    <3>. QED  BY <1>0, <2>4, <3>3 DEF ViewSwapRequests
  <2>. QED  BY <1>5, <2>1, <2>2, <2>3, <2>4 DEF SwapTools, RejectSwap, CancelSwap
<1>6. CASE TogglePause
  BY <1>0, <1>6 DEF TogglePause, market
<1>7. CASE Tick
  BY <1>0, <1>7 DEF Tick, market
<1>. QED  BY <1>1, <1>2, <1>3, <1>4, <1>5, <1>6, <1>7 DEF Next

\* An account changes hands only by a sale or a swap its owner agreed to.
THEOREM MovesOnlyByConsent == Spec => OwnershipMovesByConsent
<1>1. Owned /\ [Next]_vars => [MovesByConsent]_vars
  BY NextMoves
<1>. QED  BY <1>1, InitOwned, NextOwned, PTL DEF Spec, OwnershipMovesByConsent, MovesByConsent

\* A swap gives both parties the other's account.
THEOREM SwapsAreExchanges == Spec => SwapsGiveBothSides
<1>1. Owned /\ [Next]_vars => [GivesBothSides]_vars
  BY NextMoves
<1>. QED  BY <1>1, InitOwned, NextOwned, PTL DEF Spec, SwapsGiveBothSides, GivesBothSides

-----------------------------------------------------------------------------
(* Marketplace: sales and listings *)

\* Nothing is listed and nothing is sold at the start.
LEMMA InitBooked == Init => OneOffer /\ SoldIsBooked
<1>. SUFFICES ASSUME Init PROVE OneOffer /\ SoldIsBooked
  OBVIOUS
<1>1. DOMAIN listings = {} /\ DOMAIN sales = {}
  BY DEF Init
<1>2. \A t \in Token : Sold(t) = {} /\ Booked(t) = {}
  BY <1>1 DEF Sold, Booked
<1>. QED  BY <1>1, <1>2 DEF OneOffer, SoldIsBooked, ActiveListings

\* A step that sells nothing and adds no offer keeps the count.
LEMMA NothingSold ==
  ASSUME OneOffer, SoldIsBooked, UNCHANGED sales,
         \A t \in Token : Sold(t)' = Sold(t),
         \A l \in ActiveListings' : l \in ActiveListings /\ listings'[l].token = listings[l].token
  PROVE  OneOffer' /\ SoldIsBooked'
<1>1. OneOffer'
  BY DEF OneOffer
<1>2. \A t \in Token : Booked(t)' = Booked(t)
  BY DEF Booked
<1>. QED  BY <1>1, <1>2 DEF SoldIsBooked

\* A new listing is not sold, and its token had no active one.
LEMMA CreateListingBooked ==
  ASSUME NEW u \in User, NEW t \in Token, Owned, OneOffer, SoldIsBooked, CreateListing(u, t)
  PROVE  OneOffer' /\ SoldIsBooked'
<1>. DEFINE new == [token |-> t, seller |-> u, status |-> "active"]
<1>1. Len(listings) \in Nat /\ DOMAIN listings = 1 .. Len(listings) /\ listings \in Seq(Listing)
  BY Rows DEF Owned, TypeOK
<1>2. /\ DOMAIN listings' = DOMAIN listings \cup {Len(listings) + 1}
      /\ \A l \in DOMAIN listings : listings'[l] = listings[l]
      /\ listings'[Len(listings) + 1] = new
  BY <1>1 DEF CreateListing
<1>3. \A x \in Token : Sold(x)' = Sold(x)
  BY <1>2 DEF Sold
<1>4. ActiveListings' \subseteq ActiveListings \cup {Len(listings) + 1}
  BY <1>2 DEF ActiveListings
<1>5. \A l \in ActiveListings : listings'[l].token = listings[l].token /\ listings[l].token # t
  BY <1>2 DEF ActiveListings, CreateListing
<1>6. OneOffer'
  BY <1>2, <1>4, <1>5 DEF OneOffer
<1>7. \A x \in Token : Booked(x)' = Booked(x)
  BY DEF CreateListing, Booked
<1>. QED  BY <1>3, <1>6, <1>7 DEF SoldIsBooked

\* A cancelled listing was not sold before and is not sold now.
LEMMA CancelListingBooked ==
  ASSUME NEW u \in User, NEW l \in DOMAIN listings, Owned, OneOffer, SoldIsBooked, CancelListing(u, l)
  PROVE  OneOffer' /\ SoldIsBooked'
<1>1. \A k \in DOMAIN listings : listings[k] \in Listing
  BY Rows DEF Owned
<1>2. /\ DOMAIN listings' = DOMAIN listings
      /\ \A k \in DOMAIN listings : k # l => listings'[k] = listings[k]
      /\ listings'[l].status = "cancelled" /\ listings'[l].token = listings[l].token
  BY <1>1 DEF CancelListing, Listing
<1>3. listings[l].status = "active"
  BY DEF CancelListing, ActiveListings
<1>4. \A t \in Token : Sold(t)' = Sold(t)
  BY <1>2, <1>3 DEF Sold
<1>5. \A k \in ActiveListings' : k \in ActiveListings /\ listings'[k].token = listings[k].token
  BY <1>2 DEF ActiveListings
<1>. QED  BY <1>4, <1>5, NothingSold DEF CancelListing

\* A purchase sells the one active listing of its token and books one sale.
LEMMA ExecutePurchaseBooked ==
  ASSUME NEW u \in User, NEW l \in DOMAIN listings, Owned, OneOffer, SoldIsBooked, ExecutePurchase(u, l)
  PROVE  OneOffer' /\ SoldIsBooked'
<1>1. \A k \in DOMAIN listings : listings[k] \in Listing
  BY Rows DEF Owned
<1>0. PICK tok \in Token : tok = listings[l].token
  BY <1>1 DEF Listing
<1>2. /\ DOMAIN listings' = DOMAIN listings
      /\ \A k \in DOMAIN listings : listings'[k].token = listings[k].token
      /\ \A k \in DOMAIN listings :
             listings'[k].status = IF k \in ActiveListings /\ listings[k].token = tok
                                   THEN "sold" ELSE listings[k].status
  BY <1>0, <1>1 DEF ExecutePurchase, RecordP2PSale, Listing
<1>3. l \in ActiveListings /\ listings[l].status = "active"
  BY DEF ExecutePurchase, ActiveListings
<1>4. \A k \in ActiveListings : listings[k].token = tok => k = l
  BY <1>0, <1>3 DEF OneOffer
<1>5. OneOffer'
  BY <1>2 DEF OneOffer, ActiveListings
<1>6. Sold(tok)' = Sold(tok) \cup {l} /\ l \notin Sold(tok)
  BY <1>0, <1>2, <1>3, <1>4 DEF Sold
<1>7. \A t \in Token : t # tok => Sold(t)' = Sold(t)
  BY <1>2 DEF Sold
<1>8. /\ DOMAIN sales = 1 .. Len(sales) /\ Len(sales) \in Nat /\ sales \in Seq(Sale)
      /\ DOMAIN listings = 1 .. Len(listings) /\ Len(listings) \in Nat
  BY Rows DEF Owned, TypeOK
<1>9. /\ DOMAIN sales' = DOMAIN sales \cup {Len(sales) + 1}
      /\ Len(sales) + 1 \notin DOMAIN sales
      /\ \A k \in DOMAIN sales : sales'[k] = sales[k]
      /\ sales'[Len(sales) + 1].token = tok
  BY <1>0, <1>8 DEF ExecutePurchase, RecordP2PSale
<1>10. Booked(tok)' = Booked(tok) \cup {Len(sales) + 1} /\ Len(sales) + 1 \notin Booked(tok)
  BY <1>9 DEF Booked
<1>11. \A t \in Token : t # tok => Booked(t)' = Booked(t)
  BY <1>9 DEF Booked
<1>12. IsFiniteSet(Sold(tok)) /\ IsFiniteSet(Booked(tok))
  <2>1. Sold(tok) \in SUBSET (1 .. Len(listings)) /\ Booked(tok) \in SUBSET (1 .. Len(sales))
    BY <1>8 DEF Sold, Booked
  <2>2. IsFiniteSet(1 .. Len(listings)) /\ IsFiniteSet(1 .. Len(sales))
    BY <1>8, FS_Interval
  <2>. QED  BY <2>1, <2>2, FS_Subset
<1>13. Cardinality(Sold(tok)') = Cardinality(Sold(tok)) + 1
  BY <1>6, <1>12, FS_AddElement
<1>14. Cardinality(Booked(tok)') = Cardinality(Booked(tok)) + 1
  BY <1>10, <1>12, FS_AddElement
<1>15. \A t \in Token : Cardinality(Sold(t)') = Cardinality(Booked(t)')
  BY <1>7, <1>11, <1>13, <1>14 DEF SoldIsBooked
<1>. QED  BY <1>5, <1>15 DEF SoldIsBooked

\* Only the listing tools touch listings and sales.
LEMMA NextBooked == Owned /\ OneOffer /\ SoldIsBooked /\ [Next]_vars => OneOffer' /\ SoldIsBooked'
<1>. SUFFICES ASSUME Owned, OneOffer, SoldIsBooked, [Next]_vars PROVE OneOffer' /\ SoldIsBooked'
  OBVIOUS
<1>1. CASE ListingTools
  BY <1>1, CreateListingBooked, CancelListingBooked, ExecutePurchaseBooked DEF ListingTools
<1>2. CASE UNCHANGED <<listings, sales>>
  <2>1. \A t \in Token : Sold(t)' = Sold(t)
    BY <1>2 DEF Sold
  <2>. QED  BY <1>2, <2>1, NothingSold DEF ActiveListings
<1>3. CASE SwapTools
  BY <1>2, <1>3 DEF SwapTools, ProposeSwap, AcceptSwap, RejectSwap, CancelSwap, CloseSwap, ViewSwapRequests
<1>. QED
  BY <1>1, <1>2, <1>3 DEF Next, vars, market, CreateAccount, Withdraw, TogglePause, Tick

\* The inductive invariant of the marketplace.
THEOREM MarketInvariant == Spec => []MarketInv
<1>1. Init => MarketInv
  BY InitOwned, InitBooked DEF MarketInv
<1>2. MarketInv /\ [Next]_vars => MarketInv'
  BY NextOwned, NextBooked DEF MarketInv
<1>. QED  BY <1>1, <1>2, PTL DEF Spec

\* Every sale closed one listing, and no token is offered twice.
THEOREM SalesHaveListings == Spec => []EverySaleHasItsListing
<1>1. MarketInv => EverySaleHasItsListing
  <2>. SUFFICES ASSUME MarketInv, NEW t \in Token
                PROVE  /\ Cardinality(Sold(t)) = Cardinality(Booked(t))
                       /\ Cardinality({l \in ActiveListings : listings[l].token = t}) <= 1
    BY DEF EverySaleHasItsListing, Sold, Booked
  <2>. DEFINE Offers == {l \in ActiveListings : listings[l].token = t}
  <2>1. Cardinality(Sold(t)) = Cardinality(Booked(t))
    BY DEF MarketInv, SoldIsBooked
  <2>2. CASE Offers = {}
    <3>1. Cardinality(Offers) = 0
      BY <2>2, FS_EmptySet
    <3>. QED  BY <2>1, <3>1
  <2>3. ASSUME NEW l \in Offers PROVE Cardinality(Offers) = 1
    <3>1. Offers = {l}
      BY <2>3 DEF MarketInv, OneOffer
    <3>. QED  BY <3>1, FS_Singleton
  <2>. QED  BY <2>1, <2>2, <2>3
<1>. QED  BY <1>1, MarketInvariant, PTL

-----------------------------------------------------------------------------
(* SalesDesk: negotiation *)

\* The accounts counted are those of everybody else and active ones of the customers.
LEMMA ActiveCountType ==
  ASSUME SalesTypeOK
  PROVE  ActiveCount \in Nat
<1>1. crowd.active \in Nat
  BY CrowdAssumption DEF SalesTypeOK
<1>2. Mine = 1 .. Len(accounts) /\ Len(accounts) \in Nat
  BY LenProperties DEF SalesTypeOK, Mine
<1>3. IsFiniteSet({i \in Mine : accounts[i].active})
  <2>1. IsFiniteSet(Mine)
    BY <1>2, FS_Interval
  <2>2. {i \in Mine : accounts[i].active} \in SUBSET Mine
    OBVIOUS
  <2>. QED  BY <2>1, <2>2, FS_Subset
<1>. QED  BY <1>1, <1>3, FS_CardinalityType DEF ActiveCount

\* The listed price is a number of cents, and never below $1.
LEMMA ListedPriceType ==
  ASSUME SalesTypeOK
  PROVE  ListedPrice \in Nat /\ ListedPrice >= 100
<1>. DEFINE numerator == (20 + trend.sentiment) * (10 + trend.performance)
                 * (10 * MaxNFTs + 3 * ActiveCount) * (500 + Smaller(ActiveCount, 100))
<1>1. trend.sentiment \in Int /\ trend.performance \in Int
  <2>1. trend \in [sentiment: -10..10, performance: -5..5]
    BY MarketAssumption DEF SalesTypeOK
  <2>. QED  BY <2>1
<1>2. ActiveCount \in Int /\ Smaller(ActiveCount, 100) \in Int
  BY ActiveCountType DEF Smaller
<1>3. MaxNFTs \in Nat \ {0}
  BY CountAssumption
<1>4. numerator \in Int
  BY <1>1, <1>2, <1>3
<1>5. 500 * MaxNFTs \in Nat /\ 500 * MaxNFTs > 0
  BY <1>3
<1>6. numerator \div (500 * MaxNFTs) \in Int
  <2>. HIDE DEF numerator
  <2>. QED  BY <1>4, <1>5
<1>7. ListedPrice = Larger(100, numerator \div (500 * MaxNFTs))
  BY DEF ListedPrice
<1>. QED
  <2>. HIDE DEF numerator
  <2>. QED  BY <1>6, <1>7 DEF Larger

\* The tier is one of the four rows of the tables.
LEMMA ScarcityTierType == ScarcityTier \in {"abundant", "moderate", "scarce", "final_few"}
  BY DEF ScarcityTier

\* The rows of the tables, in percent: accepted, countered, and the floor.
Row(accept, counter, floor) ==
    <<accept, counter, floor>> \in {<<85, 70, 75>>, <<88, 75, 80>>, <<92, 82, 85>>, <<95, 88, 92>>}

\* An accepted offer is not below the floor; a counter offer c lies between the
\* offer and the price, and would be accepted itself.
Agree(price, offer, leeway, accept, counter, floor, c) ==
    /\ offer * 100 >= (accept - leeway) * price => offer >= (price * (floor - leeway)) \div 100
    /\ ~ (offer * 100 >= (accept - leeway) * price) /\ offer * 100 >= (counter - leeway) * price
         => offer <= c /\ c <= price /\ c * 100 >= (accept - leeway) * price

\* What the tables have to satisfy for a price and a leeway of a returning
\* customer, with the percentages of one tier.
LEMMA TablesAgree ==
  ASSUME NEW price \in Nat, price >= 100, NEW offer \in Int, NEW leeway \in {0, 3},
         NEW accept \in Nat, NEW counter \in Nat, NEW floor \in Nat, NEW c \in Int,
         c = (offer + 2 * price) \div 3,
         Row(accept, counter, floor)
  PROVE  Agree(price, offer, leeway, accept, counter, floor, c)
<1>2. CASE accept = 85 /\ counter = 70 /\ floor = 75
  BY <1>2 DEF Agree
<1>3. CASE accept = 88 /\ counter = 75 /\ floor = 80
  BY <1>3 DEF Agree
<1>4. CASE accept = 92 /\ counter = 82 /\ floor = 85
  BY <1>4 DEF Agree
<1>5. CASE accept = 95 /\ counter = 88 /\ floor = 92
  BY <1>5 DEF Agree
<1>. QED  BY <1>2, <1>3, <1>4, <1>5 DEF Row

\* The price an agreed offer is measured against and the tables agree in every
\* state, for every offer in percent of the price.
LEMMA TablesAreCoherent ==
  ASSUME SalesTypeOK
  PROVE  NegotiationIsCoherent
<1>. SUFFICES ASSUME NEW c \in Customer, NEW p \in OfferPercents
              PROVE  LET offer   == (ListedPrice * p) \div 100
                         result  == EvaluateOffer(c, offer)
                         counter == CounterOffer(offer)
                     IN /\ result.floor = SuggestedFloor(c)
                        /\ result.verdict = "accept" => offer >= result.floor
                        /\ result.verdict = "counter" =>
                             /\ offer <= counter /\ counter <= ListedPrice
                             /\ EvaluateOffer(c, counter).verdict = "accept"
  BY DEF NegotiationIsCoherent
<1>. DEFINE offer   == (ListedPrice * p) \div 100
            counter == CounterOffer(offer)
            t       == Threshold[ScarcityTier]
            floor   == 100 - t.maxDiscount
<1>1. PICK price \in Nat : price = ListedPrice /\ price >= 100
  BY ListedPriceType
<1>2. PICK leeway \in {0, 3} : leeway = Leeway(c)
  BY DEF Leeway
<1>3. PICK o \in Int : o = offer
  <2>1. price * p \in Int
    BY <1>1, OfferAssumption
  <2>2. (price * p) \div 100 \in Int
    BY <2>1
  <2>. QED  BY <1>1, <2>2
<1>4. PICK k \in Int : k = CounterOffer(o)
  <2>1. (o + 2 * price) \div 3 \in Int
    BY <1>1, <1>3
  <2>. QED  BY <1>1, <2>1 DEF CounterOffer
<1>5. /\ <<t.accept, t.counter, floor>> \in {<<85, 70, 75>>, <<88, 75, 80>>, <<92, 82, 85>>, <<95, 88, 92>>}
      /\ t.accept \in Nat /\ t.counter \in Nat /\ floor \in Nat /\ t.maxDiscount \in Nat
  BY ScarcityTierType DEF Threshold
<1>6. SuggestedFloor(c) = (price * (floor - leeway)) \div 100
  BY <1>1, <1>2, ScarcityTierType DEF SuggestedFloor, Threshold
<1>7. PICK a \in Nat, d \in Nat, f \in Nat : a = t.accept /\ d = t.counter /\ f = floor
  BY <1>5
<1>8. /\ EvaluateOffer(c, o).verdict = IF o * 100 >= (a - leeway) * price THEN "accept"
                                        ELSE IF o * 100 >= (d - leeway) * price THEN "counter"
                                        ELSE "reject"
      /\ EvaluateOffer(c, k).verdict = IF k * 100 >= (a - leeway) * price THEN "accept"
                                        ELSE IF k * 100 >= (d - leeway) * price THEN "counter"
                                        ELSE "reject"
      /\ EvaluateOffer(c, o).floor = (price * (f - leeway)) \div 100
  <2>1. 100 - (t.maxDiscount + leeway) = floor - leeway
    BY <1>2, <1>5
  <2>. QED  BY <1>1, <1>2, <1>7, <2>1 DEF EvaluateOffer
<1>9. /\ o * 100 >= (a - leeway) * price => o >= (price * (f - leeway)) \div 100
      /\ ~ (o * 100 >= (a - leeway) * price) /\ o * 100 >= (d - leeway) * price
                => o <= k /\ k <= price /\ k * 100 >= (a - leeway) * price
  <2>0. Agree(price, o, leeway, a, d, f, k)
    <3>1. Row(a, d, f)
      BY <1>5, <1>7 DEF Row
    <3>2. k = (o + 2 * price) \div 3
      BY <1>1, <1>4 DEF CounterOffer
    <3>3. price >= 100
      BY <1>1
    <3>. QED  BY <3>1, <3>2, <3>3, TablesAgree
  <2>. QED  BY <2>0 DEF Agree
<1>. HIDE DEF t, floor
<1>. QED  BY <1>1, <1>3, <1>4, <1>6, <1>7, <1>8, <1>9
-----------------------------------------------------------------------------
(* SalesDesk: types *)

\* The table of accounts is a sequence of accounts.
LEMMA AccountTable ==
  ASSUME SalesTypeOK
  PROVE  /\ Len(accounts) \in Nat /\ Mine = 1 .. Len(accounts)
         /\ \A i \in Mine : accounts[i] \in Account
  BY LenProperties, ElementOfSeq DEF SalesTypeOK, Mine

\* Replacing one account leaves a table of accounts of the same length.
LEMMA ReplaceAccount ==
  ASSUME SalesTypeOK, NEW i \in Mine, NEW a \in Account,
         accounts' = [accounts EXCEPT ![i] = a]
  PROVE  /\ accounts' \in Seq(Account) /\ Len(accounts') = Len(accounts) /\ Mine' = Mine
         /\ \A j \in Mine : accounts'[j] = IF j = i THEN a ELSE accounts[j]
<1>1. i \in 1 .. Len(accounts) /\ accounts \in Seq(Account)
  BY AccountTable DEF SalesTypeOK
<1>2. accounts' \in Seq(Account) /\ Len(accounts') = Len(accounts)
  BY <1>1, ExceptSeq
<1>3. DOMAIN accounts' = DOMAIN accounts
  OBVIOUS
<1>4. \A j \in Mine : accounts'[j] = IF j = i THEN a ELSE accounts[j]
  BY DEF Mine
<1>. QED  BY <1>2, <1>3, <1>4 DEF Mine

\* The messages, and the one at the desk.
LEMMA MessageTable ==
  ASSUME SalesTypeOK
  PROVE  /\ Len(sent) \in Nat /\ confirmed \in Nat /\ handled \in Nat /\ fetched \in Nat
         /\ desk.step # "idle" => Current \in Message
<1>1. Len(sent) \in Nat /\ confirmed \in Nat /\ handled \in Nat /\ fetched \in Nat
  BY LenProperties DEF SalesTypeOK
<1>2. ASSUME desk.step # "idle" PROVE Current \in Message
  <2>1. handled + 1 \in 1 .. Len(sent)
    BY <1>1, <1>2 DEF SalesTypeOK
  <2>. QED  BY <2>1, ElementOfSeq DEF SalesTypeOK, Current
<1>. QED  BY <1>1, <1>2

\* A tool call leaves a state the desk can be in.
LEMMA CallTypes ==
  ASSUME SalesTypeOK, NEW tool, NEW s \in {"asking", "minting", "burning", "recording"}, NEW i \in Nat,
         Calls(tool, s, i)
  PROVE  /\ desk' \in Desk /\ desk'.step = s /\ desk'.target = i
         /\ desk.step = "asking" /\ desk.step # "idle"
<1>1. desk \in Desk /\ desk.step = "asking"
  BY DEF SalesTypeOK, Calls
<1>2. Current.kind \in Kind
  BY <1>1, MessageTable DEF Message
<1>3. desk.ran \cup {tool} \in SUBSET UNION {Intended[k] : k \in Kind}
  BY <1>1, <1>2 DEF Calls, Desk
<1>4. desk.turn + 1 \in 0 .. MaxToolIterations
  BY <1>1, CountAssumption DEF Calls, Desk
<1>. QED  BY <1>1, <1>3, <1>4 DEF Calls, Desk
-----------------------------------------------------------------------------
(* SalesDesk: the invariant *)

\* No two open accounts of one customer, by position instead of by counting.
OneOpen ==
    \A i, j \in Mine : accounts[i].active /\ accounts[j].active
                         /\ accounts[i].owner = accounts[j].owner => i = j

DeskInv == SalesTypeOK /\ OneOpen

LEMMA IdleType ==
  ASSUME NEW n \in 0 .. MaxRetries
  PROVE  /\ Idle \in Desk /\ Idle.step = "idle" /\ Idle.target = 0
         /\ Asking(n) \in Desk /\ Asking(n).step = "asking" /\ Asking(n).target = 0
<1>1. {} \in SUBSET UNION {Intended[k] : k \in Kind}
  OBVIOUS
<1>2. Idle \in Desk
  BY <1>1, CountAssumption DEF Idle, Desk
<1>3. \A d \in Desk : /\ [d EXCEPT !.step = "asking", !.attempt = n] \in Desk
                       /\ [d EXCEPT !.step = "asking", !.attempt = n].step = "asking"
                       /\ [d EXCEPT !.step = "asking", !.attempt = n].target = d.target
  BY DEF Desk
<1>. QED  BY <1>2, <1>3 DEF Idle, Asking

LEMMA DeskInitInv == SalesInit => DeskInv
<1>. SUFFICES ASSUME SalesInit PROVE DeskInv
  OBVIOUS
<1>1. accounts = <<>> /\ Len(accounts) = 0 /\ Mine = {} /\ accounts \in Seq(Account)
  BY EmptySeq DEF SalesInit, Mine
<1>2. sent = <<>> /\ Len(sent) = 0 /\ sent \in Seq(Message)
  BY EmptySeq DEF SalesInit
<1>3. TotalMinted <= MaxNFTs
  BY <1>1, CrowdAssumption DEF SalesInit, TotalMinted
<1>4. desk \in Desk /\ desk.step = "idle" /\ desk.target = 0
  BY IdleType, CountAssumption DEF SalesInit
<1>5. circuit \in [failures: 0..CircuitThreshold, cooling: BOOLEAN] /\ ~circuit.cooling
  BY CountAssumption DEF SalesInit
<1>6. {confirmed, handled, fetched} \subseteq Nat /\ confirmed = 0 /\ handled = 0 /\ fetched = 0
  BY DEF SalesInit
<1>7. /\ credited \in [1..MaxMessages -> Nat] /\ faults \in 0..MaxFaults
      /\ crowd \in Crowds /\ trend \in Markets /\ fundPaused \in BOOLEAN
  <2>1. credited \in [1..MaxMessages -> Nat]
    BY DEF SalesInit
  <2>2. faults \in 0..MaxFaults
    BY CountAssumption DEF SalesInit
  <2>. QED  BY <2>1, <2>2 DEF SalesInit
<1>8. SalesTypeOK
  <2>1. desk.step \in {"minting", "burning", "recording"} <=> desk.target \in Mine
    BY <1>1, <1>4
  <2>2. confirmed <= handled /\ handled <= fetched /\ fetched <= Len(sent)
    BY <1>2, <1>6
  <2>. QED  BY <1>1, <1>2, <1>3, <1>4, <1>5, <1>6, <1>7, <2>1, <2>2 DEF SalesTypeOK
<1>. QED  BY <1>1, <1>8 DEF DeskInv, OneOpen

\* Steps that leave the accounts alone.
LEMMA SameAccounts ==
  ASSUME DeskInv, accounts' = accounts
  PROVE  /\ OneOpen' /\ Mine' = Mine /\ Len(accounts') = Len(accounts)
         /\ accounts' \in Seq(Account)
         /\ crowd' = crowd => TotalMinted' <= MaxNFTs
<1>1. OneOpen' /\ Mine' = Mine /\ Len(accounts') = Len(accounts) /\ accounts' \in Seq(Account)
  BY DEF DeskInv, SalesTypeOK, OneOpen, Mine
<1>2. crowd' = crowd => TotalMinted' = TotalMinted
  BY DEF TotalMinted
<1>. QED  BY <1>1, <1>2 DEF DeskInv, SalesTypeOK

\* Steps of the tool loop that change nothing else but the desk.
LEMMA OnlyDesk ==
  ASSUME DeskInv, UNCHANGED <<ledger, inbox, circuit, faults>>, desk' \in Desk,
         desk.step # "idle",
         desk'.step \in {"minting", "burning", "recording"} <=> desk'.target \in Mine
  PROVE  DeskInv'
<1>1. UNCHANGED <<accounts, crowd, trend, fundPaused, credited, sent, confirmed, fetched, handled,
                  circuit, faults>>
  BY DEF ledger, inbox
<1>2. desk'.step # "idle" => handled < fetched
  BY DEF DeskInv, SalesTypeOK
<1>. QED  BY <1>1, <1>2, SameAccounts DEF DeskInv, SalesTypeOK

LEMMA SendInv ==
  ASSUME DeskInv, NEW c \in Customer, NEW k \in Kind, Send(c, k)
  PROVE  DeskInv'
<1>1. [from |-> c, kind |-> k] \in Message
  BY DEF Message
<1>2. sent' \in Seq(Message) /\ Len(sent') = Len(sent) + 1 /\ Len(sent) \in Nat
  BY <1>1, AppendProperties, LenProperties DEF Send, DeskInv, SalesTypeOK
<1>3. UNCHANGED <<accounts, crowd, trend, fundPaused, credited, confirmed, fetched, handled,
                  desk, circuit, faults>>
  BY DEF Send, ledger
<1>. QED  BY <1>2, <1>3, SameAccounts DEF DeskInv, SalesTypeOK

LEMMA StartMessageInv ==
  ASSUME DeskInv, StartMessage
  PROVE  DeskInv'
<1>1. UNCHANGED <<accounts, crowd, trend, fundPaused, credited, sent, circuit, faults>>
  BY DEF StartMessage, ledger
<1>2. /\ Len(sent) \in Nat /\ confirmed \in Nat /\ handled \in Nat /\ fetched \in Nat
      /\ confirmed <= handled /\ handled <= fetched /\ fetched <= Len(sent) /\ handled < Len(sent)
  BY MessageTable DEF DeskInv, SalesTypeOK, StartMessage
<1>3. /\ confirmed' \in Nat /\ fetched' \in Nat
      /\ confirmed' <= handled /\ handled < fetched' /\ fetched' <= Len(sent)
  BY <1>2 DEF StartMessage, Fetch
<1>4. CASE CircuitOpen
  <2>1. handled' = handled + 1 /\ desk' = desk
    BY <1>4 DEF StartMessage
  <2>2. desk.step = "idle"
    BY DEF StartMessage
  <2>3. handled' <= fetched' /\ confirmed' <= handled' /\ handled' \in Nat
    BY <1>2, <1>3, <2>1
  <2>4. desk'.step = "idle" /\ (desk'.step \in {"minting", "burning", "recording"} <=> desk'.target \in Mine')
    BY <1>1, <2>1, <2>2, SameAccounts DEF DeskInv, SalesTypeOK
  <2>5. OneOpen' /\ TotalMinted' <= MaxNFTs /\ accounts' \in Seq(Account)
    BY <1>1, SameAccounts
  <2>6. {confirmed', handled', fetched'} \subseteq Nat
    BY <1>3, <2>3
  <2>7. desk' \in Desk /\ desk'.step = "idle"
    BY <2>1, <2>2 DEF DeskInv, SalesTypeOK
  <2>8. /\ crowd' \in Crowds /\ trend' \in Markets /\ fundPaused' \in BOOLEAN /\ sent' \in Seq(Message)
        /\ credited' \in [1..MaxMessages -> Nat] /\ faults' \in 0..MaxFaults
        /\ circuit' \in [failures: 0..CircuitThreshold, cooling: BOOLEAN]
        /\ circuit'.cooling => circuit'.failures = CircuitThreshold
    BY <1>1 DEF DeskInv, SalesTypeOK
  <2>9. fetched' <= Len(sent')
    BY <1>1, <1>3
  <2>. QED  BY <1>3, <2>3, <2>4, <2>5, <2>6, <2>7, <2>8, <2>9 DEF DeskInv, SalesTypeOK
<1>5. CASE ~CircuitOpen
  <2>1. handled' = handled /\ desk' = Asking(1)
    BY <1>5 DEF StartMessage
  <2>2. desk' \in Desk /\ desk'.step = "asking" /\ desk'.target = 0
    BY <2>1, IdleType, CountAssumption
  <2>3. 0 \notin Mine
    BY AccountTable DEF DeskInv
  <2>. QED  BY <1>1, <1>2, <1>3, <2>1, <2>2, <2>3, SameAccounts DEF DeskInv, SalesTypeOK
<1>. QED  BY <1>4, <1>5
\* The run of the tool loop ends and its message is handled.
LEMMA RunEnds ==
  ASSUME DeskInv, desk.step # "idle", desk' = Idle, handled' = handled + 1,
         UNCHANGED <<ledger, sent, confirmed, fetched, faults>>,
         circuit' \in [failures: 0..CircuitThreshold, cooling: BOOLEAN],
         circuit'.cooling => circuit'.failures = CircuitThreshold
  PROVE  DeskInv'
<1>1. UNCHANGED <<accounts, crowd, trend, fundPaused, credited>>
  BY DEF ledger
<1>2. /\ confirmed \in Nat /\ handled \in Nat /\ fetched \in Nat
      /\ confirmed <= handled /\ handled < fetched /\ fetched <= Len(sent)
  BY MessageTable DEF DeskInv, SalesTypeOK
<1>3. {confirmed', handled', fetched'} \subseteq Nat
  BY <1>2
<1>4. confirmed' <= handled' /\ handled' <= fetched' /\ fetched' <= Len(sent')
  BY <1>2
<1>5. desk' \in Desk /\ desk'.step = "idle" /\ desk'.target = 0
  BY IdleType, CountAssumption
<1>6. 0 \notin Mine'
  BY <1>1, SameAccounts, AccountTable DEF DeskInv
<1>7. OneOpen' /\ TotalMinted' <= MaxNFTs /\ accounts' \in Seq(Account)
  BY <1>1, SameAccounts
<1>8. /\ crowd' \in Crowds /\ trend' \in Markets /\ fundPaused' \in BOOLEAN /\ sent' \in Seq(Message)
      /\ credited' \in [1..MaxMessages -> Nat] /\ faults' \in 0..MaxFaults
  BY <1>1 DEF DeskInv, SalesTypeOK
<1>. QED  BY <1>3, <1>4, <1>5, <1>6, <1>7, <1>8 DEF DeskInv, SalesTypeOK

LEMMA CompletionFailsInv ==
  ASSUME DeskInv, CompletionFails
  PROVE  DeskInv'
<1>1. desk.step = "asking" /\ UNCHANGED <<ledger, sent, confirmed, fetched, faults>>
  BY DEF CompletionFails
<1>2. CASE desk.attempt < MaxRetries
  <2>1. desk.attempt + 1 \in 0 .. MaxRetries
    BY <1>2, CountAssumption DEF DeskInv, SalesTypeOK, Desk
  <2>2. desk' = Asking(desk.attempt + 1) /\ UNCHANGED <<handled, circuit>>
    BY <1>2 DEF CompletionFails
  <2>3. desk' \in Desk /\ desk'.step = "asking" /\ desk'.target = 0 /\ 0 \notin Mine
    BY <2>1, <2>2, IdleType, AccountTable DEF DeskInv
  <2>. QED  BY <1>1, <2>2, <2>3, OnlyDesk DEF inbox
<1>3. CASE ~(desk.attempt < MaxRetries)
  <2>1. PICK n : /\ n = Smaller(circuit.failures + 1, CircuitThreshold)
                 /\ circuit' = [failures |-> n, cooling |-> n = CircuitThreshold]
    BY <1>3 DEF CompletionFails
  <2>2. n \in 0 .. CircuitThreshold
    <3>1. circuit.failures \in 0 .. CircuitThreshold /\ CircuitThreshold \in Nat
      BY CountAssumption DEF DeskInv, SalesTypeOK
    <3>. QED  BY <2>1, <3>1 DEF Smaller
  <2>3. (n = CircuitThreshold) \in BOOLEAN
    OBVIOUS
  <2>4. circuit' \in [failures: 0..CircuitThreshold, cooling: BOOLEAN]
    BY <2>1, <2>2, <2>3
  <2>5. circuit'.cooling => circuit'.failures = CircuitThreshold
    BY <2>1
  <2>6. desk' = Idle /\ handled' = handled + 1
    BY <1>3 DEF CompletionFails
  <2>. QED  BY <1>1, <2>4, <2>5, <2>6, RunEnds
<1>. QED  BY <1>2, <1>3

LEMMA AnswerInv ==
  ASSUME DeskInv, Answer
  PROVE  DeskInv'
<1>1. /\ circuit' \in [failures: 0..CircuitThreshold, cooling: BOOLEAN]
      /\ circuit'.cooling => circuit'.failures = CircuitThreshold
  BY CountAssumption DEF Answer
<1>. QED  BY <1>1, RunEnds DEF Answer

LEMMA LookUpInv ==
  ASSUME DeskInv, LookUp
  PROVE  DeskInv'
<1>1. desk \in Desk /\ desk.step = "asking" /\ desk' = [desk EXCEPT !.turn = @ + 1]
  BY DEF DeskInv, SalesTypeOK, LookUp
<1>2. desk.turn + 1 \in 0 .. MaxToolIterations
  BY <1>1, CountAssumption DEF LookUp, Desk
<1>3. desk' \in Desk /\ desk'.step = desk.step /\ desk'.target = desk.target
  BY <1>1, <1>2 DEF Desk
<1>. QED  BY <1>1, <1>3, OnlyDesk DEF LookUp, DeskInv, SalesTypeOK

\* The deposit of the message at the desk is in the books once more.
LEMMA CreditType ==
  ASSUME SalesTypeOK, Credit
  PROVE  credited' \in [1..MaxMessages -> Nat]
<1>1. credited \in [1..MaxMessages -> Nat]
  BY DEF SalesTypeOK
<1>2. credited' = [credited EXCEPT ![handled + 1] = credited[handled + 1] + 1]
  BY DEF Credit
<1>3. handled + 1 \in 1..MaxMessages => credited[handled + 1] + 1 \in Nat
  BY <1>1
<1>. QED  BY <1>1, <1>2, <1>3

\* A tool that opens an account: the table grows by one open account of a
\* customer who had none.
LEMMA PurchaseNFTInv ==
  ASSUME DeskInv, PurchaseNFT
  PROVE  DeskInv'
<1>1. UNCHANGED <<crowd, trend, fundPaused, inbox, circuit, faults>> /\ SalesTypeOK
  BY DEF PurchaseNFT, DeskInv
<1>2. CASE Calls("purchase_nft", "asking", 0) /\ UNCHANGED <<accounts, credited>>
  <2>1. desk' \in Desk /\ desk'.step = "asking" /\ desk'.target = 0 /\ desk.step # "idle"
    BY <1>1, <1>2, CallTypes
  <2>2. 0 \notin Mine
    BY <1>1, AccountTable
  <2>. QED  BY <1>1, <1>2, <2>1, <2>2, OnlyDesk DEF ledger
<1>3. CASE /\ Calls("purchase_nft", "minting", Len(accounts) + 1)
           /\ MayBuy(Current.from)
           /\ accounts' = Append(accounts, [owner |-> Current.from, active |-> TRUE,
                                            minted |-> FALSE, assets |-> 0])
           /\ Credit
  <2>. DEFINE new == [owner |-> Current.from, active |-> TRUE, minted |-> FALSE, assets |-> 0]
  <2>1. Len(accounts) \in Nat /\ Mine = 1 .. Len(accounts) /\ accounts \in Seq(Account)
    BY <1>1, AccountTable DEF SalesTypeOK
  <2>2. /\ desk' \in Desk /\ desk'.step = "minting" /\ desk'.target = Len(accounts) + 1
        /\ desk.step # "idle"
    BY <1>1, <1>3, <2>1, CallTypes
  <2>3. new \in Account
    BY <1>1, <2>2, MessageTable DEF Account, Message
  <2>4. /\ accounts' \in Seq(Account) /\ Len(accounts') = Len(accounts) + 1
        /\ accounts'[Len(accounts) + 1] = new
        /\ \A j \in 1 .. Len(accounts) : accounts'[j] = accounts[j]
    BY <1>3, <2>1, <2>3, AppendProperties
  <2>5. Mine' = 1 .. (Len(accounts) + 1)
    BY <2>1, <2>4, LenProperties DEF Mine
  <2>6. \A j \in Mine : accounts[j].active => accounts[j].owner # Current.from
    BY <1>3 DEF MayBuy, ActiveOf
  <2>7. OneOpen'
    <3>. SUFFICES ASSUME NEW i \in Mine', NEW j \in Mine', accounts'[i].active, accounts'[j].active,
                         accounts'[i].owner = accounts'[j].owner
                  PROVE  i = j
      BY DEF OneOpen
    <3>1. CASE i = Len(accounts) + 1 /\ j \in Mine
      <4>1. accounts'[j] = accounts[j] /\ accounts'[i].owner = Current.from
        BY <3>1, <2>1, <2>4
      <4>. QED  BY <4>1, <2>6, <3>1
    <3>2. CASE j = Len(accounts) + 1 /\ i \in Mine
      <4>1. accounts'[i] = accounts[i] /\ accounts'[j].owner = Current.from
        BY <3>2, <2>1, <2>4
      <4>. QED  BY <4>1, <2>6, <3>2
    <3>3. CASE i \in Mine /\ j \in Mine
      BY <3>3, <2>1, <2>4 DEF DeskInv, OneOpen
    <3>. QED  BY <2>1, <2>5, <3>1, <3>2, <3>3
  <2>8. TotalMinted' <= MaxNFTs
    <3>1. Remaining > 0 /\ crowd' = crowd
      BY <1>1, <1>3 DEF MayBuy
    <3>2. crowd.active \in Nat /\ crowd.gone \in Nat /\ MaxNFTs \in Nat
      BY <1>1, CrowdAssumption, CountAssumption DEF SalesTypeOK
    <3>. QED  BY <2>1, <2>4, <3>1, <3>2 DEF TotalMinted, Remaining
  <2>9. credited' \in [1..MaxMessages -> Nat]
    BY <1>1, <1>3, CreditType
  <2>10. desk'.target \in Mine'
    BY <2>1, <2>2, <2>5
  <2>. QED  BY <1>1, <2>2, <2>4, <2>7, <2>8, <2>9, <2>10 DEF DeskInv, SalesTypeOK, inbox
<1>. QED  BY <1>2, <1>3 DEF PurchaseNFT
LEMMA RetryMintInv ==
  ASSUME DeskInv, RetryMint
  PROVE  DeskInv'
<1>1. UNCHANGED <<ledger, inbox, circuit, faults>> /\ SalesTypeOK
  BY DEF RetryMint, DeskInv
<1>2. ASSUME NEW i \in Mine, Calls("retry_mint", "minting", i) PROVE DeskInv'
  <2>1. i \in Nat
    BY <1>1, AccountTable
  <2>. QED  BY <1>1, <1>2, <2>1, CallTypes, OnlyDesk
<1>3. CASE Calls("retry_mint", "asking", 0)
  BY <1>1, <1>3, CallTypes, OnlyDesk, AccountTable
<1>. QED  BY <1>2, <1>3 DEF RetryMint

LEMMA ExecuteWithdrawalInv ==
  ASSUME DeskInv, ExecuteWithdrawal
  PROVE  DeskInv'
<1>1. UNCHANGED <<ledger, inbox, circuit, faults>> /\ SalesTypeOK
  BY DEF ExecuteWithdrawal, DeskInv
<1>2. ASSUME NEW i \in Mine,
             Calls("execute_withdrawal", IF accounts[i].minted THEN "burning" ELSE "recording", i)
      PROVE  DeskInv'
  <2>1. i \in Nat
    BY <1>1, AccountTable
  <2>2. CASE accounts[i].minted
    BY <1>1, <1>2, <2>1, <2>2, CallTypes, OnlyDesk
  <2>3. CASE ~accounts[i].minted
    BY <1>1, <1>2, <2>1, <2>3, CallTypes, OnlyDesk
  <2>. QED  BY <2>2, <2>3
<1>3. CASE Calls("execute_withdrawal", "asking", 0)
  BY <1>1, <1>3, CallTypes, OnlyDesk, AccountTable
<1>. QED  BY <1>2, <1>3 DEF ExecuteWithdrawal

LEMMA BurnEndsInv ==
  ASSUME DeskInv, BurnEnds
  PROVE  DeskInv'
<1>1. desk' \in Desk /\ desk'.step = "recording" /\ desk'.target = desk.target
  BY DEF BurnEnds, DeskInv, SalesTypeOK, Desk
<1>. QED  BY <1>1, OnlyDesk DEF BurnEnds, DeskInv, SalesTypeOK

LEMMA AddFundsInv ==
  ASSUME DeskInv, AddFunds
  PROVE  DeskInv'
<1>1. UNCHANGED <<accounts, crowd, trend, fundPaused, sent, confirmed, fetched, handled, circuit, faults>>
  BY DEF AddFunds, inbox
<1>2. desk' \in Desk /\ desk'.step = "asking" /\ desk'.target = 0 /\ desk.step # "idle"
  BY CallTypes DEF AddFunds, DeskInv
<1>3. 0 \notin Mine
  BY AccountTable DEF DeskInv
<1>4. credited' \in [1..MaxMessages -> Nat]
  <2>1. Credit \/ credited' = credited
    BY DEF AddFunds
  <2>. QED  BY <2>1, CreditType DEF DeskInv, SalesTypeOK
<1>. QED  BY <1>1, <1>2, <1>3, <1>4, SameAccounts DEF DeskInv, SalesTypeOK

\* A tool returns that leaves every account with its owner and opens none.
LEMMA ToolReturns ==
  ASSUME DeskInv, desk.step \in {"minting", "burning", "recording"}, Returns,
         UNCHANGED <<crowd, trend, fundPaused, credited, inbox, circuit, faults>>,
         NEW a \in Account, accounts' = [accounts EXCEPT ![desk.target] = a],
         a.owner = accounts[desk.target].owner, a.active => accounts[desk.target].active
  PROVE  DeskInv'
<1>1. desk.target \in Mine /\ desk \in Desk
  BY DEF DeskInv, SalesTypeOK
<1>2. /\ accounts' \in Seq(Account) /\ Len(accounts') = Len(accounts) /\ Mine' = Mine
      /\ \A j \in Mine : accounts'[j] = IF j = desk.target THEN a ELSE accounts[j]
  BY <1>1, ReplaceAccount DEF DeskInv
<1>3. desk' \in Desk /\ desk'.step = "asking" /\ desk'.target = 0
  BY <1>1 DEF Returns, Desk
<1>4. 0 \notin Mine
  BY AccountTable DEF DeskInv
<1>5. OneOpen'
  BY <1>2 DEF DeskInv, OneOpen
<1>6. TotalMinted' = TotalMinted
  BY <1>2 DEF TotalMinted
<1>7. UNCHANGED <<sent, confirmed, fetched, handled>>
  BY DEF inbox
<1>. QED  BY <1>2, <1>3, <1>4, <1>5, <1>6, <1>7 DEF DeskInv, SalesTypeOK

LEMMA MintEndsInv ==
  ASSUME DeskInv, MintEnds
  PROVE  DeskInv'
<1>1. PICK landed \in BOOLEAN, ok \in BOOLEAN :
        accounts' = [accounts EXCEPT ![desk.target].minted = @ \/ ok,
                                     ![desk.target].assets = IF landed THEN @ + 1 ELSE @]
  BY DEF MintEnds
<1>2. desk.target \in Mine /\ accounts[desk.target] \in Account
  BY AccountTable DEF DeskInv, SalesTypeOK, MintEnds
<1>. DEFINE a == [accounts[desk.target] EXCEPT !.minted = @ \/ ok,
                                               !.assets = IF landed THEN @ + 1 ELSE @]
<1>3. a \in Account /\ a.owner = accounts[desk.target].owner /\ a.active = accounts[desk.target].active
  <2>2. (accounts[desk.target].minted \/ ok) \in BOOLEAN
    BY <1>2 DEF Account
  <2>3. (IF landed THEN accounts[desk.target].assets + 1 ELSE accounts[desk.target].assets) \in Nat
    BY <1>2 DEF Account
  <2>4. a = [accounts[desk.target] EXCEPT
               !.minted = accounts[desk.target].minted \/ ok,
               !.assets = IF landed THEN accounts[desk.target].assets + 1 ELSE accounts[desk.target].assets]
    OBVIOUS
  <2>. HIDE DEF a
  <2>5. PICK m \in BOOLEAN, n \in Nat : a = [accounts[desk.target] EXCEPT !.minted = m, !.assets = n]
    BY <2>2, <2>3, <2>4
  <2>6. PICK x \in Account : x = accounts[desk.target]
    BY <1>2
  <2>7. PICK y : y = [x EXCEPT !.minted = m, !.assets = n]
    OBVIOUS
  <2>8. y \in Account /\ y.owner = x.owner /\ y.active = x.active
    BY <2>7 DEF Account
  <2>9. a = y
    BY <2>5, <2>6, <2>7
  <2>. QED  BY <2>6, <2>8, <2>9
<1>4. accounts' = [accounts EXCEPT ![desk.target] = a]
  BY <1>1, <1>2 DEF Mine
<1>. QED  BY <1>3, <1>4, ToolReturns DEF MintEnds

LEMMA RecordWithdrawalInv ==
  ASSUME DeskInv, RecordWithdrawal
  PROVE  DeskInv'
<1>1. desk.target \in Mine /\ accounts[desk.target] \in Account /\ fundPaused \in BOOLEAN
  BY AccountTable DEF DeskInv, SalesTypeOK, RecordWithdrawal
<1>. DEFINE a == [accounts[desk.target] EXCEPT !.active = @ /\ fundPaused]
<1>2. /\ a \in Account /\ a.owner = accounts[desk.target].owner
      /\ a.active => accounts[desk.target].active
  BY <1>1 DEF Account
<1>3. accounts' = [accounts EXCEPT ![desk.target] = a]
  BY <1>1 DEF RecordWithdrawal, Mine
<1>. QED  BY <1>2, <1>3, ToolReturns DEF RecordWithdrawal
LEMMA SurroundingsInv ==
  ASSUME DeskInv, CooldownEnds \/ Trade \/ PauseOrResume \/ OthersTrade \/ Crash
  PROVE  DeskInv'
<1>1. CASE CooldownEnds
  <2>1. circuit' \in [failures: 0..CircuitThreshold, cooling: BOOLEAN] /\ ~circuit'.cooling
    BY <1>1 DEF CooldownEnds, DeskInv, SalesTypeOK
  <2>2. UNCHANGED <<accounts, crowd, trend, fundPaused, credited, sent, confirmed, fetched, handled, desk, faults>>
    BY <1>1 DEF CooldownEnds, ledger, inbox
  <2>. QED  BY <2>1, <2>2, SameAccounts DEF DeskInv, SalesTypeOK
<1>2. CASE Trade
  BY <1>2, SameAccounts DEF Trade, inbox, DeskInv, SalesTypeOK
<1>3. CASE PauseOrResume
  <2>1. fundPaused' \in BOOLEAN
    BY <1>3 DEF PauseOrResume
  <2>. QED  BY <1>3, <2>1, SameAccounts DEF PauseOrResume, inbox, DeskInv, SalesTypeOK
<1>4. CASE OthersTrade
  <2>1. TotalMinted' <= MaxNFTs
    BY <1>4 DEF OthersTrade, TotalMinted
  <2>. QED  BY <1>4, <2>1, SameAccounts DEF OthersTrade, inbox, DeskInv, SalesTypeOK
<1>5. CASE Crash
  <2>1. UNCHANGED <<accounts, crowd, trend, fundPaused, credited, sent, confirmed>>
    BY <1>5 DEF Crash, ledger
  <2>2. /\ {confirmed', handled', fetched'} \subseteq Nat
        /\ confirmed' <= handled' /\ handled' <= fetched' /\ fetched' <= Len(sent')
    BY <1>5, <2>1, MessageTable DEF Crash, DeskInv, SalesTypeOK
  <2>3. desk' \in Desk /\ desk'.step = "idle" /\ desk'.target = 0
    BY <1>5, IdleType, CountAssumption DEF Crash
  <2>4. circuit' \in [failures: 0..CircuitThreshold, cooling: BOOLEAN] /\ ~circuit'.cooling
    BY <1>5, CountAssumption DEF Crash
  <2>5. faults' \in 0 .. MaxFaults
    BY <1>5, CountAssumption DEF Crash, DeskInv, SalesTypeOK
  <2>6. 0 \notin Mine'
    BY <2>1, SameAccounts, AccountTable DEF DeskInv
  <2>7. OneOpen' /\ TotalMinted' <= MaxNFTs /\ accounts' \in Seq(Account)
    BY <2>1, SameAccounts
  <2>. QED  BY <2>1, <2>2, <2>3, <2>4, <2>5, <2>6, <2>7 DEF DeskInv, SalesTypeOK
<1>. QED  BY <1>1, <1>2, <1>3, <1>4, <1>5

\* Every step of the desk, and everything that happens around it, keeps the
\* books of tables, inbox and desk together, and one open account per customer.
THEOREM DeskInvariant == SalesSpec => []DeskInv
<1>1. DeskInv /\ [SalesNext]_salesVars => DeskInv'
  <2>. SUFFICES ASSUME DeskInv, [SalesNext]_salesVars PROVE DeskInv'
    OBVIOUS
  <2>1. CASE \E c \in Customer, k \in Kind : Send(c, k)
    BY <2>1, SendInv
  <2>2. CASE StartMessage
    BY <2>2, StartMessageInv
  <2>3. CASE Completion
    BY <2>3, CompletionFailsInv, AnswerInv, LookUpInv, PurchaseNFTInv, RetryMintInv, AddFundsInv,
       ExecuteWithdrawalInv DEF Completion
  <2>4. CASE MintEnds
    BY <2>4, MintEndsInv
  <2>5. CASE BurnEnds
    BY <2>5, BurnEndsInv
  <2>6. CASE RecordWithdrawal
    BY <2>6, RecordWithdrawalInv
  <2>7. CASE CooldownEnds \/ Trade \/ PauseOrResume \/ OthersTrade \/ Crash
    BY <2>7, SurroundingsInv
  <2>8. CASE UNCHANGED salesVars
    <3>1. UNCHANGED <<accounts, crowd, trend, fundPaused, credited, sent, confirmed, fetched, handled,
                      desk, circuit, faults>>
      BY <2>8 DEF salesVars, ledger, inbox
    <3>. QED  BY <3>1, SameAccounts DEF DeskInv, SalesTypeOK
  <2>. QED  BY <2>1, <2>2, <2>3, <2>4, <2>5, <2>6, <2>7, <2>8 DEF SalesNext
<1>. QED  BY <1>1, DeskInitInv, PTL DEF SalesSpec

\* The desk's types: no more tokens than MAX_NFTS, and nothing confirmed that is not handled.
THEOREM DeskTypes == SalesSpec => []SalesTypeOK
<1>1. DeskInv => SalesTypeOK
  BY DEF DeskInv
<1>. QED  BY <1>1, DeskInvariant, PTL

\* A customer never has two open accounts, whatever tool loops are run again and
\* whatever messages are delivered again.
THEOREM OneAccountEach == SalesSpec => []OneAccountPerCustomer
<1>1. DeskInv => OneAccountPerCustomer
  <2>. SUFFICES ASSUME DeskInv, NEW c \in Customer PROVE Cardinality(ActiveOf(c)) <= 1
    BY DEF OneAccountPerCustomer
  <2>1. CASE ActiveOf(c) = {}
    BY <2>1, FS_EmptySet
  <2>2. CASE ActiveOf(c) # {}
    <3>1. PICK i \in ActiveOf(c) : TRUE
      BY <2>2
    <3>2. ActiveOf(c) = {i}
      BY <3>1 DEF DeskInv, OneOpen, ActiveOf
    <3>3. Cardinality({i}) = 1
      BY FS_Singleton
    <3>. QED  BY <3>2, <3>3
  <2>. QED  BY <2>1, <2>2
<1>. QED  BY <1>1, DeskInvariant, PTL

\* In every reachable state the tables of the negotiation agree on every offer.
THEOREM NegotiationAgrees == SalesSpec => []NegotiationIsCoherent
<1>1. DeskInv => NegotiationIsCoherent
  BY TablesAreCoherent DEF DeskInv
<1>. QED  BY <1>1, DeskInvariant, PTL
=============================================================================
