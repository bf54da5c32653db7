------------------------------ MODULE MarketBot ------------------------------
(***************************************************************************)
(* The market bot (src/scripts/admin_market.py).  A tick of its loop tops  *)
(* the bot's own listings up to max_listings and then buys some of the     *)
(* players' cheap orders.  The panel posts, clears and buys on demand, in  *)
(* processes of its own.  Each call to admin-publish.sh is one database    *)
(* transaction, or a query; between two of them anybody may act.           *)
(*                                                                         *)
(* Prices are left out: an order is one that the purchase gate lets        *)
(* through or one it does not, and the die may fall either way.            *)
(***************************************************************************)
EXTENDS Integers, FiniteSetsExt

CONSTANTS
  Orders,       \* orders that players place
  Bargains,     \* those priced at or under our price * buy_threshold
  MaxListings,  \* max_listings
  CatalogSize,  \* how many listings build_listings makes of the catalogue
  MaxBuys,      \* max_buys_per_tick
  MarketFaults, \* bound: failed calls, crashes
  MarketOps     \* bound: what the operator does

ASSUME MarketAssumption ==
  /\ IsFiniteSet(Orders) /\ Bargains \subseteq Orders
  /\ {MaxListings, CatalogSize, MaxBuys} \subseteq Nat \ {0}
  /\ {MarketFaults, MarketOps} \subseteq Nat

Buyers == {"loop", "panel"}

VARIABLES
  botOn,       \* market-bot.json: enabled
  listings,    \* exchange: how many orders of the bot there are
  openOrders,  \* exchange: the players' orders
  placed,      \* the players: orders placed so far
  payments,    \* exchange: how often the seller of an order was paid
  buyer,       \* what the loop and the panel's buy-tick are doing
  marketFaults, marketOps,
  handPosted,  \* history: listings the operator posted
  blindPosted  \* history: listings posted by a tick whose status query had
               \* failed, or that others' posts had overtaken

marketDb == <<listings, openOrders, payments>>
marketVars == <<botOn, marketDb, placed, buyer, marketFaults, marketOps, handPosted,
                blindPosted>>

NotBuying == [at |-> "idle"]

MarketInit ==
  /\ botOn = TRUE
  /\ listings = 0
  /\ openOrders = {} /\ placed = {}
  /\ payments = [o \in Orders |-> 0]
  /\ buyer = [b \in Buyers |-> NotBuying]
  /\ marketFaults = 0 /\ marketOps = 0
  /\ handPosted = 0 /\ blindPosted = 0

-----------------------------------------------------------------------------
(* The loop and the buy-tick                                               *)

MarketFault == marketFaults < MarketFaults /\ marketFaults' = marketFaults + 1
NoMarketFault == UNCHANGED marketFaults
Move(b, step) == buyer' = [buyer EXCEPT ![b] = step]

Deficit(seen) == Max({0, MaxListings - seen})

\* run_tick: the bot's listings are counted; a query that fails counts as none.
BeginPostTick ==
  /\ buyer["loop"] = NotBuying /\ botOn
  /\ \E seen \in {listings, 0} :
       /\ IF seen = listings THEN NoMarketFault ELSE MarketFault
       /\ Move("loop", IF Deficit(seen) > 0 THEN [at |-> "post", seen |-> seen] ELSE [at |-> "list"])
  /\ UNCHANGED <<botOn, marketDb, placed, marketOps, handPosted, blindPosted>>

\* market-bot-post with the deficit: the first so many of the catalogue, in one
\* transaction.
PostListings ==
  LET seen == buyer["loop"].seen
      n == Min({Deficit(seen), CatalogSize})
  IN
  /\ buyer["loop"].at = "post"
  /\ Move("loop", [at |-> "list"])
  /\ \/ /\ listings' = listings + n
        /\ blindPosted' = blindPosted + (IF listings > seen THEN Min({n, listings - seen}) ELSE 0)
        /\ NoMarketFault
     \/ /\ MarketFault
        /\ UNCHANGED <<listings, blindPosted>>
  /\ UNCHANGED <<botOn, openOrders, payments, placed, marketOps, handPosted>>

\* POST /api/market/buy: one buy pass, whether or not the bot is enabled.
BeginBuyTick ==
  /\ buyer["panel"] = NotBuying
  /\ marketOps < MarketOps /\ marketOps' = marketOps + 1
  /\ Move("panel", [at |-> "list"])
  /\ UNCHANGED <<botOn, marketDb, placed, marketFaults, handPosted, blindPosted>>

\* select_buys over what market-bot-buy-list returned: up to max_buys of the
\* orders the gate and the die let through.
SelectBuys(b) ==
  /\ buyer[b].at = "list"
  /\ \/ \E chosen \in SUBSET (openOrders \cap Bargains) :
          /\ Cardinality(chosen) <= MaxBuys
          /\ Move(b, [at |-> "buy", chosen |-> chosen])
          /\ NoMarketFault
     \/ /\ MarketFault
        /\ Move(b, [at |-> "buy", chosen |-> {}])
  /\ UNCHANGED <<botOn, marketDb, placed, marketOps, handPosted, blindPosted>>

\* Broken form for MarketSafe: the seller is paid for the order as it was listed.
BuyAsListed(b) ==
  /\ buyer[b].at = "buy"
  /\ \E o \in buyer[b].chosen :
       /\ Move(b, [buyer[b] EXCEPT !.chosen = @ \ {o}])
       /\ payments' = [payments EXCEPT ![o] = @ + 1]
       /\ openOrders' = openOrders \ {o}
  /\ UNCHANGED <<botOn, listings, placed, marketFaults, marketOps, handPosted, blindPosted>>

\* market-bot-buy of the next order: seller paid and order removed in one
\* transaction, or an error, as when the order is gone by now.
Buy(b) ==
  /\ buyer[b].at = "buy"
  /\ \E o \in buyer[b].chosen :
       /\ Move(b, [buyer[b] EXCEPT !.chosen = @ \ {o}])
       /\ \/ /\ o \in openOrders
             /\ openOrders' = openOrders \ {o}
             /\ payments' = [payments EXCEPT ![o] = @ + 1]
             /\ NoMarketFault
          \/ /\ o \notin openOrders
             /\ UNCHANGED <<openOrders, payments, marketFaults>>
          \/ /\ o \in openOrders /\ MarketFault
             /\ UNCHANGED <<openOrders, payments>>
  /\ UNCHANGED <<botOn, listings, placed, marketOps, handPosted, blindPosted>>

EndTick(b) ==
  /\ buyer[b].at = "buy" /\ buyer[b].chosen = {}
  /\ Move(b, NotBuying)
  /\ UNCHANGED <<botOn, marketDb, placed, marketFaults, marketOps, handPosted, blindPosted>>

\* A call outlives its timeout, or the process dies: the tick is over.
TickDies(b) ==
  /\ buyer[b] # NotBuying /\ MarketFault
  /\ Move(b, NotBuying)
  /\ UNCHANGED <<botOn, marketDb, placed, marketOps, handPosted, blindPosted>>

-----------------------------------------------------------------------------
(* The operator and the players                                            *)

MarketOp == marketOps < MarketOps /\ marketOps' = marketOps + 1

SwitchBot ==
  /\ MarketOp /\ botOn' = ~botOn
  /\ UNCHANGED <<marketDb, placed, buyer, marketFaults, handPosted, blindPosted>>

\* POST /api/market/post.
PostByHand ==
  /\ MarketOp
  /\ listings' = listings + 1 /\ handPosted' = handPosted + 1
  /\ UNCHANGED <<botOn, openOrders, payments, placed, buyer, marketFaults, blindPosted>>

\* POST /api/market/clear: every listing of the bot is removed.
ClearListings ==
  /\ MarketOp /\ listings > 0
  /\ listings' = 0
  /\ UNCHANGED <<botOn, openOrders, payments, placed, buyer, marketFaults, handPosted,
                 blindPosted>>

PlaceOrder(o) ==
  /\ o \notin placed
  /\ placed' = placed \cup {o} /\ openOrders' = openOrders \cup {o}
  /\ UNCHANGED <<botOn, listings, payments, buyer, marketFaults, marketOps, handPosted,
                 blindPosted>>

\* A player buys one of the bot's listings.
BuyListing ==
  /\ listings > 0 /\ listings' = listings - 1
  /\ UNCHANGED <<botOn, openOrders, payments, placed, buyer, marketFaults, marketOps,
                 handPosted, blindPosted>>

\* A player takes an order back, or another player buys it.
OrderGoes(o) ==
  /\ o \in openOrders /\ openOrders' = openOrders \ {o}
  /\ UNCHANGED <<botOn, listings, payments, placed, buyer, marketFaults, marketOps,
                 handPosted, blindPosted>>

MarketNext ==
  \/ BeginPostTick \/ PostListings \/ BeginBuyTick
  \/ \E b \in Buyers : SelectBuys(b) \/ Buy(b) \/ EndTick(b) \/ TickDies(b)
  \/ SwitchBot \/ PostByHand \/ ClearListings \/ BuyListing
  \/ \E o \in Orders : PlaceOrder(o) \/ OrderGoes(o)

MarketSpec == MarketInit /\ [][MarketNext]_marketVars

-----------------------------------------------------------------------------
(* Properties                                                              *)

\* Type invariant of the market bot.
MarketTypeOK ==
  /\ botOn \in BOOLEAN /\ listings \in Nat
  /\ openOrders \subseteq placed /\ placed \subseteq Orders
  /\ payments \in [Orders -> Nat]
  /\ \A b \in Buyers : buyer[b].at \in {"idle", "post", "list", "buy"}

\* A seller is paid for an order once, by one buyer, although the loop and the
\* panel's pass may both have chosen it; and never for an order the gate refused.
SoldOnce ==
  \A o \in Orders :
    /\ payments[o] <= 1
    /\ payments[o] = 1 => o \in Bargains /\ o \notin openOrders

\* The bot keeps to max_listings, but for what the operator posted himself and
\* what a tick posted blindly: when the count failed it is taken for zero, and
\* a count that others' posts have overtaken is not taken again.
TopsUp == listings <= MaxListings + handPosted + blindPosted

\* Both, of the loop and the panel's buyer together.
MarketSafe == SoldOnce /\ TopsUp
=============================================================================
