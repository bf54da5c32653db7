----------------------------- MODULE HandoutProofs -----------------------------
(***************************************************************************)
(* What the panel's loops hand out, to each what it is owed and once, for  *)
(* any number of players, items, faults and stops: the market bot's        *)
(* purchases (MarketBot), the welcome kits (Welcome), the answers to chat  *)
(* commands (ChatCommands), the intel of the battle pass (BattlePass) and  *)
(* the rewards of events (EventEngine).                                    *)
(***************************************************************************)
EXTENDS MarketBot, Welcome, ChatCommands, BattlePass, EventEngine,
        NumberLemmas, SequenceTheorems, TLAPS

-----------------------------------------------------------------------------
(* The market bot                                                          *)

\* The shape of the loop's tick and of the panel's pass: only the loop posts, and
\* whoever buys has chosen among the orders that the gate lets through.
BuyersOK ==
  /\ buyer \in [Buyers -> [at : {"idle", "list"}] \cup [at : {"post"}, seen : Nat]
                            \cup [at : {"buy"}, chosen : SUBSET Bargains]]
  /\ buyer["panel"].at # "post"

\* An order whose seller was paid is gone, and will not be placed again.
PaidIsGone ==
  /\ payments \in [Orders -> {0, 1}] /\ openOrders \subseteq placed
  /\ \A o \in Orders : payments[o] = 1 => o \in Bargains /\ o \in placed /\ o \notin openOrders

MarketCounts == {listings, handPosted, blindPosted} \subseteq Nat

MarketInv == BuyersOK /\ PaidIsGone /\ MarketCounts /\ TopsUp

\* The invariant holds at first.
LEMMA MarketInvInit == ASSUME MarketInit PROVE MarketInv
  BY MarketAssumption
  DEF MarketInit, MarketInv, BuyersOK, PaidIsGone, MarketCounts, TopsUp, NotBuying, Buyers,
      MarketAssumption

\* A tick never asks for more than max_listings lacks of the count it read.
LEMMA PostedIsLacking ==
  ASSUME NEW s \in Nat
  PROVE  /\ Deficit(s) \in Nat /\ Min({Deficit(s), CatalogSize}) \in Nat
         /\ \/ Min({Deficit(s), CatalogSize}) = 0
            \/ Min({Deficit(s), CatalogSize}) <= MaxListings - s
  <1>1. MaxListings \in Nat /\ CatalogSize \in Nat
    BY MarketAssumption DEF MarketAssumption
  <1>2. Deficit(s) = IF 0 >= MaxListings - s THEN 0 ELSE MaxListings - s
    BY <1>1, MaxOfTwo DEF Deficit
  <1>3. Deficit(s) \in Nat /\ (Deficit(s) = 0 \/ Deficit(s) = MaxListings - s)
    BY <1>1, <1>2
  <1>4. Min({Deficit(s), CatalogSize}) =
          IF Deficit(s) <= CatalogSize THEN Deficit(s) ELSE CatalogSize
    BY <1>1, <1>3, MinOfTwo
  <1> QED
    BY <1>1, <1>3, <1>4

\* The count, and the post that follows it whatever happened in between.
LEMMA PostSteps ==
  ASSUME MarketInv, BeginPostTick \/ PostListings
  PROVE  MarketInv'
  <1>1. CASE BeginPostTick
    BY <1>1 DEF BeginPostTick, MarketInv, BuyersOK, PaidIsGone, MarketCounts, TopsUp, NotBuying,
                Buyers, Move, marketDb
  <1>2. CASE PostListings
    <2> DEFINE snapshot == buyer["loop"].seen
               n == Min({Deficit(snapshot), CatalogSize})
               over == IF listings > snapshot THEN Min({n, listings - snapshot}) ELSE 0
    <2>1. buyer["loop"].at = "post" /\ snapshot \in Nat /\ listings \in Nat
      BY <1>2 DEF PostListings, MarketInv, BuyersOK, Buyers, MarketCounts
    <2>2. n \in Nat /\ (n = 0 \/ n <= MaxListings - snapshot)
      BY <2>1, PostedIsLacking
    <2>3. over = IF listings > snapshot THEN IF n <= listings - snapshot THEN n ELSE listings - snapshot ELSE 0
      <3> HIDE DEF n, snapshot
      <3>1. n \in Int /\ listings - snapshot \in Int
        BY <2>1, <2>2
      <3>2. Min({n, listings - snapshot}) = IF n <= listings - snapshot THEN n ELSE listings - snapshot
        BY <3>1, MinOfTwo
      <3> QED
        BY <3>2
    <2>4. /\ \/ listings' = listings + n /\ blindPosted' = blindPosted + over
             \/ UNCHANGED <<listings, blindPosted>>
          /\ buyer' = [buyer EXCEPT !["loop"] = [at |-> "list"]]
          /\ UNCHANGED <<openOrders, payments, placed, handPosted>>
      BY <1>2 DEF PostListings, Move
    <2> HIDE DEF n, snapshot, over
    <2>5. over \in Nat /\ MaxListings \in Nat /\ {listings, handPosted, blindPosted} \subseteq Nat
      BY <2>1, <2>2, <2>3, MarketAssumption DEF MarketInv, MarketCounts, MarketAssumption
    <2>6. MarketCounts'
      BY <2>2, <2>4, <2>5 DEF MarketCounts
    <2>7. TopsUp'
      <3>1. CASE listings' = listings + n /\ blindPosted' = blindPosted + over
        BY <2>1, <2>2, <2>3, <2>4, <2>5, <3>1 DEF MarketInv, TopsUp
      <3>2. CASE UNCHANGED <<listings, blindPosted>>
        BY <2>4, <3>2 DEF MarketInv, TopsUp
      <3> QED
        BY <2>4, <3>1, <3>2
    <2>8. BuyersOK' /\ PaidIsGone'
      BY <2>4 DEF MarketInv, BuyersOK, Buyers, PaidIsGone
    <2> QED
      BY <2>6, <2>7, <2>8 DEF MarketInv
  <1> QED
    BY <1>1, <1>2

\* The pass that buys: the choice, the purchases, the end, or a sudden one.
LEMMA BuySteps ==
  ASSUME MarketInv, NEW b \in Buyers,
         BeginBuyTick \/ SelectBuys(b) \/ Buy(b) \/ EndTick(b) \/ TickDies(b)
  PROVE  MarketInv'
  <1> USE DEF MarketInv, BuyersOK, PaidIsGone, MarketCounts, TopsUp, NotBuying, Buyers, Move,
              marketDb
  <1>1. CASE BeginBuyTick
    BY <1>1 DEF BeginBuyTick
  <1>2. CASE SelectBuys(b)
    BY <1>2 DEF SelectBuys
  <1>3. CASE Buy(b)
    BY <1>3, MarketAssumption DEF Buy, MarketAssumption
  <1>4. CASE EndTick(b)
    BY <1>4 DEF EndTick
  <1>5. CASE TickDies(b)
    BY <1>5 DEF TickDies
  <1> QED
    BY <1>1, <1>2, <1>3, <1>4, <1>5

\* The operator and the players.
LEMMA ExchangeSteps ==
  ASSUME MarketInv,
         \/ SwitchBot \/ PostByHand \/ ClearListings \/ BuyListing
         \/ \E o \in Orders : PlaceOrder(o) \/ OrderGoes(o)
  PROVE  MarketInv'
  <1> USE MarketAssumption
      DEF MarketInv, BuyersOK, PaidIsGone, MarketCounts, TopsUp, marketDb, MarketAssumption
  <1>1. CASE SwitchBot
    BY <1>1 DEF SwitchBot
  <1>2. CASE PostByHand
    BY <1>2 DEF PostByHand
  <1>3. CASE ClearListings
    BY <1>3 DEF ClearListings
  <1>4. CASE BuyListing
    BY <1>4 DEF BuyListing
  <1>5. CASE \E o \in Orders : PlaceOrder(o) \/ OrderGoes(o)
    BY <1>5 DEF PlaceOrder, OrderGoes
  <1> QED
    BY <1>1, <1>2, <1>3, <1>4, <1>5

\* Every reachable state of the market bot has it.
LEMMA MarketInvariant == MarketSpec => []MarketInv
  <1>1. MarketInit => MarketInv
    BY MarketInvInit
  <1>2. MarketInv /\ [MarketNext]_marketVars => MarketInv'
    <2>1. ASSUME MarketInv, MarketNext PROVE MarketInv'
      <3>1. "loop" \in Buyers
        BY DEF Buyers
      <3> QED
        BY <2>1, <3>1, PostSteps, BuySteps, ExchangeSteps DEF MarketNext
    <2>2. ASSUME MarketInv, UNCHANGED marketVars PROVE MarketInv'
      BY <2>2 DEF marketVars, marketDb, MarketInv, BuyersOK, PaidIsGone, MarketCounts, TopsUp
    <2> QED
      BY <2>1, <2>2
  <1> QED
    BY <1>1, <1>2, PTL DEF MarketSpec

\* A seller is paid once, whoever buys and whatever fails, and the bot keeps to
\* max_listings but for what it posted on a count that no longer held.
THEOREM MarketAlwaysSafe == MarketSpec => []MarketSafe
  <1>1. MarketInv => MarketSafe
    BY DEF MarketInv, PaidIsGone, MarketSafe, SoldOnce
  <1> QED
    BY <1>1, MarketInvariant, PTL

-----------------------------------------------------------------------------
(* The welcome kit                                                         *)

\* The shape of a scan.
Grants == [at : {"grant"}, version : Kits, todo : SUBSET Newcomers, account : Newcomers,
           items : SUBSET KitItems, refused : SUBSET KitItems]
ScansOK ==
  scanner \in [Scanners -> [at : {"asleep"}] \cup Grants
                            \cup [at : {"next"}, version : Kits, todo : SUBSET Newcomers]]

KitStoreOK ==
  /\ kitActive \in Kits /\ present \subseteq Newcomers
  /\ kitRow \in [Cases -> {"none", "granted", "failed"}]
  /\ received \in [Cases -> [KitItems -> Nat]] /\ repeats \in [Cases -> Nat]

\* The scanners that still have the item to give for the case.
Owing(c, i) == {s \in Scanners : Working(s, c) /\ i \in scanner[s].items}

\* What an account has and what it is about to be given is what the first grant
\* and the repeats account for.
GivenAndOwed ==
  \A c \in Cases, i \in KitItems : received[c][i] + Cardinality(Owing(c, i)) <= 1 + repeats[c]

\* A case that a scan would start on has one grant to come.
OneToCome ==
  \A c \in Cases : kitRow[c] = "none" /\ (\A s \in Scanners : ~Working(s, c)) =>
    \A i \in KitItems : received[c][i] <= repeats[c]

\* What a scan has ticked off, and was not refused, has arrived.
TickedArrived ==
  \A c \in Cases, s \in Scanners : Working(s, c) =>
    \A i \in KitItems \ (scanner[s].items \cup scanner[s].refused) : received[c][i] > 0

KitInv ==
  ScansOK /\ KitStoreOK /\ GivenAndOwed /\ OneToCome /\ TickedArrived /\ GrantedKitArrived

\* The scanners that owe an item are finitely many.
LEMMA OwingFinite ==
  ASSUME NEW c, NEW i
  PROVE  IsFiniteSet(Owing(c, i)) /\ Cardinality(Owing(c, i)) \in Nat
  BY WelcomeAssumption, FS_Subset, FS_CardinalityType DEF WelcomeAssumption, Owing

\* The step of one scanner changes what is owed by that scanner's part.
LEMMA OwingMoves ==
  ASSUME NEW s \in Scanners, \A t \in Scanners \ {s} : scanner'[t] = scanner[t],
         NEW c \in Cases, NEW i \in KitItems
  PROVE  Cardinality(Owing(c, i)') =
           IF s \in Owing(c, i)
           THEN IF s \in Owing(c, i)' THEN Cardinality(Owing(c, i)) ELSE Cardinality(Owing(c, i)) - 1
           ELSE IF s \in Owing(c, i)' THEN Cardinality(Owing(c, i)) + 1 ELSE Cardinality(Owing(c, i))
  <1>1. \A t \in Scanners \ {s} : t \in Owing(c, i)' <=> t \in Owing(c, i)
    BY DEF Owing, Working
  <1>2. Owing(c, i) \subseteq Scanners /\ Owing(c, i)' \subseteq Scanners
    BY DEF Owing
  <1>3. IsFiniteSet(Owing(c, i))
    BY OwingFinite
  <1>4. CASE s \in Owing(c, i)' <=> s \in Owing(c, i)
    <2>1. Owing(c, i)' = Owing(c, i)
      BY <1>1, <1>2, <1>4
    <2> QED
      BY <2>1, <1>4
  <1>5. CASE s \in Owing(c, i) /\ s \notin Owing(c, i)'
    <2>1. Owing(c, i)' = Owing(c, i) \ {s}
      BY <1>1, <1>2, <1>5
    <2> QED
      BY <2>1, <1>3, <1>5, FS_RemoveElement
  <1>6. CASE s \notin Owing(c, i) /\ s \in Owing(c, i)'
    <2>1. Owing(c, i)' = Owing(c, i) \cup {s}
      BY <1>1, <1>2, <1>6
    <2> QED
      BY <2>1, <1>3, <1>6, FS_AddElement
  <1> QED
    BY <1>4, <1>5, <1>6

\* Nobody owes an item of a case that nobody is working on.
LEMMA IdleOwesNothing ==
  ASSUME NEW c, NEW i, \A s \in Scanners : ~Working(s, c)
  PROVE  Cardinality(Owing(c, i)) = 0
  <1>1. Owing(c, i) = {}
    BY DEF Owing
  <1> QED
    BY <1>1, FS_EmptySet

\* The invariant holds at first.
LEMMA KitInvInit == ASSUME WelcomeInit PROVE KitInv
  <1>1. ScansOK /\ KitStoreOK
    BY DEF WelcomeInit, ScansOK, KitStoreOK, ScanRests
  <1>2. \A s \in Scanners, c \in Cases : ~Working(s, c)
    BY DEF WelcomeInit, Working, ScanRests
  <1>3. GivenAndOwed
    BY <1>2, IdleOwesNothing DEF WelcomeInit, GivenAndOwed
  <1>4. OneToCome /\ TickedArrived /\ GrantedKitArrived
    BY <1>2 DEF WelcomeInit, OneToCome, TickedArrived, GrantedKitArrived
  <1> QED
    BY <1>1, <1>3, <1>4 DEF KitInv

\* A step of a scanner that is on no case before and after it, and touches nothing else.
LEMMA UncommittedStep ==
  ASSUME KitInv, NEW s \in Scanners, ScansOK',
         \A t \in Scanners \ {s} : scanner'[t] = scanner[t],
         scanner[s].at # "grant", scanner'[s].at # "grant",
         UNCHANGED <<kitConfig, kitRow, present, received, repeats>>
  PROVE  KitInv'
  <1>1. KitStoreOK'
    BY DEF KitInv, KitStoreOK, kitConfig
  <1>2. \A c \in Cases, t \in Scanners : Working(t, c)' <=> Working(t, c)
    BY DEF Working
  <1>3. \A c \in Cases, t \in Scanners : Working(t, c) => scanner'[t] = scanner[t]
    BY DEF Working
  <1>4. \A c \in Cases, i \in KitItems : Owing(c, i)' = Owing(c, i)
    BY <1>2, <1>3 DEF Owing
  <1>5. GivenAndOwed'
    BY <1>4 DEF KitInv, GivenAndOwed
  <1>6. OneToCome' /\ TickedArrived' /\ GrantedKitArrived'
    BY <1>2, <1>3 DEF KitInv, OneToCome, TickedArrived, GrantedKitArrived
  <1> QED
    BY <1>1, <1>5, <1>6 DEF KitInv

\* A scan begins, or starts on an account, which may be another scanner's.
LEMMA ScanSteps ==
  ASSUME KitInv, NEW s \in Scanners, BeginScan(s) \/ NextAccount(s)
  PROVE  KitInv'
  <1>1. CASE BeginScan(s)
    <2>1. ScansOK' /\ scanner[s].at # "grant" /\ scanner'[s].at # "grant"
      BY <1>1 DEF BeginScan, KitInv, ScansOK, KitStoreOK, ScanRests, Scan
    <2> QED
      BY <1>1, <2>1, UncommittedStep DEF BeginScan, Scan, KitInv, ScansOK
  <1> DEFINE Started(a) ==
        [at |-> "grant", version |-> scanner[s].version, todo |-> scanner[s].todo \ {a},
         account |-> a, items |-> KitItems, refused |-> {}]
  <1>2. ASSUME NextAccount(s)
        PROVE  /\ scanner[s].at = "next"
               /\ UNCHANGED <<kitConfig, kitRow, present, received>>
               /\ \/ scanner' = [scanner EXCEPT ![s] = ScanRests] /\ UNCHANGED repeats
                  \/ \E a \in scanner[s].todo :
                       /\ scanner' = [scanner EXCEPT ![s] =
                                        [scanner[s] EXCEPT !.todo = scanner[s].todo \ {a}]]
                       /\ UNCHANGED repeats
                  \/ \E a \in scanner[s].todo :
                       /\ kitRow[<<a, scanner[s].version>>] = "none"
                       /\ scanner' = [scanner EXCEPT ![s] = Started(a)]
                       /\ repeats' = IF \E t \in Scanners : Working(t, <<a, scanner[s].version>>)
                                     THEN [repeats EXCEPT ![<<a, scanner[s].version>>] = @ + 1]
                                     ELSE repeats
    BY <1>2 DEF NextAccount, Scan, RowExists
  <1>3. CASE /\ NextAccount(s)
             /\ \/ scanner' = [scanner EXCEPT ![s] = ScanRests]
                \/ \E a \in scanner[s].todo :
                     scanner' = [scanner EXCEPT ![s] =
                                   [scanner[s] EXCEPT !.todo = scanner[s].todo \ {a}]]
             /\ UNCHANGED repeats
    <2>1. scanner[s].at = "next" /\ UNCHANGED <<kitConfig, kitRow, present, received, repeats>>
      BY <1>2, <1>3
    <2>2. ScansOK' /\ scanner'[s].at # "grant"
      BY <1>3, <2>1 DEF KitInv, ScansOK, Grants, ScanRests
    <2>3. \A t \in Scanners \ {s} : scanner'[t] = scanner[t]
      BY <1>3 DEF KitInv, ScansOK
    <2> QED
      BY <2>1, <2>2, <2>3, UncommittedStep
  <1>4. ASSUME NextAccount(s), NEW a \in scanner[s].todo,
               kitRow[<<a, scanner[s].version>>] = "none",
               scanner' = [scanner EXCEPT ![s] = Started(a)],
               repeats' = IF \E t \in Scanners : Working(t, <<a, scanner[s].version>>)
                          THEN [repeats EXCEPT ![<<a, scanner[s].version>>] = @ + 1]
                          ELSE repeats
        PROVE  KitInv'
    <2>1. scanner[s].at = "next" /\ UNCHANGED <<kitConfig, kitRow, present, received>>
      BY <1>2, <1>4
    <2>2. scanner[s].todo \subseteq Newcomers /\ scanner[s].version \in Kits
      BY <2>1 DEF KitInv, ScansOK, Grants
    <2>3. /\ kitRow[<<a, scanner[s].version>>] = "none"
          /\ scanner' = [scanner EXCEPT ![s] = Started(a)]
          /\ repeats' = IF \E t \in Scanners : Working(t, <<a, scanner[s].version>>)
                        THEN [repeats EXCEPT ![<<a, scanner[s].version>>] = @ + 1] ELSE repeats
      BY <1>4
    <2> DEFINE d == <<a, scanner[s].version>>
    <2>4. /\ d \in Cases /\ kitRow[d] = "none"
          /\ \A t \in Scanners \ {s} : scanner'[t] = scanner[t]
          /\ scanner'[s] = Started(a)
          /\ scanner'[s] \in Grants
          /\ UNCHANGED <<kitConfig, kitRow, present, received>>
      BY <2>1, <2>2, <2>3 DEF Cases, KitInv, ScansOK, Grants
    <2>5. \A c \in Cases : ~Working(s, c) /\ (Working(s, c)' <=> c = d)
      BY <2>1, <2>4 DEF Working
    <2>6. \A t \in Scanners \ {s}, c \in Cases : Working(t, c)' <=> Working(t, c)
      BY <2>4 DEF Working
    <2>7. ScansOK'
      BY <2>3, <2>4 DEF KitInv, ScansOK
    <2>8. /\ repeats' \in [Cases -> Nat]
          /\ \A c \in Cases \ {d} : repeats'[c] = repeats[c]
          /\ repeats'[d] = IF \E t \in Scanners : Working(t, d) THEN repeats[d] + 1 ELSE repeats[d]
      BY <2>3, <2>4 DEF KitInv, KitStoreOK
    <2> HIDE DEF d
    <2>9. KitStoreOK'
      BY <2>4, <2>8 DEF KitInv, KitStoreOK, kitConfig
    <2>10. GivenAndOwed'
      <3> SUFFICES ASSUME NEW c \in Cases, NEW i \in KitItems
                   PROVE  received'[c][i] + Cardinality(Owing(c, i)') <= 1 + repeats'[c]
        BY DEF GivenAndOwed
      <3>1. s \notin Owing(c, i) /\ (s \in Owing(c, i)' <=> c = d)
        BY <2>4, <2>5 DEF Owing
      <3>2. Cardinality(Owing(c, i)') =
              IF c = d THEN Cardinality(Owing(c, i)) + 1 ELSE Cardinality(Owing(c, i))
        BY <2>4, <3>1, OwingMoves
      <3>3. /\ Cardinality(Owing(c, i)) \in Nat /\ received[c][i] \in Nat /\ repeats[c] \in Nat
            /\ received[c][i] + Cardinality(Owing(c, i)) <= 1 + repeats[c]
        BY OwingFinite DEF KitInv, KitStoreOK, GivenAndOwed
      <3>4. CASE c # d
        BY <2>4, <2>8, <3>2, <3>3, <3>4
      <3>5. CASE c = d /\ \E t \in Scanners : Working(t, d)
        BY <2>4, <2>8, <3>2, <3>3, <3>5
      <3>6. CASE c = d /\ ~(\E t \in Scanners : Working(t, d))
        <4>1. received[c][i] <= repeats[c] /\ Cardinality(Owing(c, i)) = 0
          BY <2>4, <3>6, IdleOwesNothing DEF KitInv, OneToCome
        <4> QED
          BY <2>4, <2>8, <3>2, <3>3, <3>6, <4>1
      <3> QED
        BY <3>4, <3>5, <3>6
    <2>11. OneToCome'
      BY <2>4, <2>5, <2>6, <2>8 DEF KitInv, KitStoreOK, OneToCome
    <2>12. TickedArrived'
      BY <2>4, <2>5, <2>6 DEF KitInv, TickedArrived
    <2>13. GrantedKitArrived'
      BY <2>4 DEF KitInv, GrantedKitArrived
    <2> QED
      BY <2>7, <2>9, <2>10, <2>11, <2>12, <2>13 DEF KitInv
  <1> QED
    BY <1>1, <1>2, <1>3, <1>4

\* An item is given, or refused.
LEMMA GiveStep ==
  ASSUME KitInv, NEW s \in Scanners, GiveItem(s)
  PROVE  KitInv'
  <1> DEFINE d == <<scanner[s].account, scanner[s].version>>
  <1>1. PICK j \in scanner[s].items :
          \/ /\ received' = [received EXCEPT ![d][j] = @ + 1]
             /\ scanner' = [scanner EXCEPT ![s] = [scanner[s] EXCEPT !.items = scanner[s].items \ {j}]]
          \/ /\ UNCHANGED received
             /\ scanner' = [scanner EXCEPT ![s] =
                  [scanner[s] EXCEPT !.items = scanner[s].items \ {j},
                                     !.refused = scanner[s].refused \cup {j}]]
    BY DEF GiveItem, Deliver, Scan
  <1>2. scanner[s].at = "grant" /\ UNCHANGED <<kitConfig, kitRow, present, repeats>>
    BY DEF GiveItem
  <1>3. scanner[s] \in Grants /\ d \in Cases /\ j \in KitItems
    BY <1>1, <1>2 DEF KitInv, ScansOK, Grants, Cases
  <1> HIDE DEF d
  <1>4. /\ scanner'[s] \in Grants /\ scanner'[s].at = "grant"
        /\ scanner'[s].account = scanner[s].account /\ scanner'[s].version = scanner[s].version
        /\ scanner'[s].items = scanner[s].items \ {j}
        /\ scanner'[s].refused \in {scanner[s].refused, scanner[s].refused \cup {j}}
        /\ UNCHANGED received => scanner'[s].refused = scanner[s].refused \cup {j}
        /\ \A t \in Scanners \ {s} : scanner'[t] = scanner[t]
        /\ ScansOK'
    <2>1. \A r \in SUBSET KitItems :
            LET step == [scanner[s] EXCEPT !.items = scanner[s].items \ {j}, !.refused = r]
            IN  /\ step \in Grants /\ step.at = "grant" /\ step.items = scanner[s].items \ {j}
                /\ step.account = scanner[s].account /\ step.version = scanner[s].version
                /\ step.refused = r
      BY <1>3 DEF Grants
    <2>2. LET step == [scanner[s] EXCEPT !.items = scanner[s].items \ {j}]
          IN  /\ step \in Grants /\ step.at = "grant" /\ step.items = scanner[s].items \ {j}
              /\ step.account = scanner[s].account /\ step.version = scanner[s].version
              /\ step.refused = scanner[s].refused
      BY <1>3 DEF Grants
    <2>3. /\ scanner[s].refused \cup {j} \in SUBSET KitItems
          /\ received[d] \in [KitItems -> Nat] /\ received \in [Cases -> [KitItems -> Nat]]
      BY <1>3 DEF KitInv, KitStoreOK, Grants
    <2>4. received' = [received EXCEPT ![d][j] = @ + 1] => received' # received
      BY <1>3, <2>3
    <2>5. \A step \in Grants : scanner' = [scanner EXCEPT ![s] = step] =>
            /\ scanner'[s] = step /\ ScansOK'
            /\ \A t \in Scanners \ {s} : scanner'[t] = scanner[t]
      BY DEF KitInv, ScansOK
    <2>6. CASE /\ received' = [received EXCEPT ![d][j] = @ + 1]
               /\ scanner' = [scanner EXCEPT ![s] =
                                [scanner[s] EXCEPT !.items = scanner[s].items \ {j}]]
      BY <2>2, <2>4, <2>5, <2>6
    <2>7. CASE scanner' = [scanner EXCEPT ![s] =
                 [scanner[s] EXCEPT !.items = scanner[s].items \ {j},
                                    !.refused = scanner[s].refused \cup {j}]]
      <3> DEFINE step == [scanner[s] EXCEPT !.items = scanner[s].items \ {j},
                                            !.refused = scanner[s].refused \cup {j}]
      <3>1. /\ step \in Grants /\ step.at = "grant" /\ step.items = scanner[s].items \ {j}
            /\ step.account = scanner[s].account /\ step.version = scanner[s].version
            /\ step.refused = scanner[s].refused \cup {j}
        BY <2>1, <2>3
      <3>2. scanner'[s] = step /\ ScansOK' /\ \A t \in Scanners \ {s} : scanner'[t] = scanner[t]
        BY <2>5, <2>7, <3>1
      <3> QED
        BY <3>1, <3>2
    <2> QED
      BY <1>1, <2>6, <2>7
  <1>5. /\ received' \in [Cases -> [KitItems -> Nat]]
        /\ \A c \in Cases, i \in KitItems :
             /\ \/ received'[c][i] = received[c][i]
                \/ c = d /\ i = j /\ received'[c][i] = received[c][i] + 1
             /\ received'[c][i] \in Nat /\ received[c][i] \in Nat
    <2>1. received' = received \/ received' = [received EXCEPT ![d][j] = @ + 1]
      BY <1>1
    <2>2. received \in [Cases -> [KitItems -> Nat]]
      BY DEF KitInv, KitStoreOK
    <2>3. CASE received' = received
      BY <2>2, <2>3
    <2>4. CASE received' = [received EXCEPT ![d][j] = @ + 1]
      <3>1. received' \in [Cases -> [KitItems -> Nat]]
        BY <1>3, <2>2, <2>4
      <3>2. \A c \in Cases : c # d => received'[c] = received[c]
        BY <2>2, <2>4
      <3>3. \A i \in KitItems : i # j => received'[d][i] = received[d][i]
        BY <1>3, <2>2, <2>4
      <3>4. received'[d][j] = received[d][j] + 1
        BY <1>3, <2>2, <2>4
      <3> QED
        BY <2>2, <3>1, <3>2, <3>3, <3>4
    <2> QED
      BY <2>1, <2>3, <2>4
  <1>6. received' = received \/ received'[d][j] = received[d][j] + 1
    BY <1>1, <1>3 DEF KitInv, KitStoreOK
  <1>7. \A c \in Cases, t \in Scanners : Working(t, c)' <=> Working(t, c)
    BY <1>2, <1>4 DEF Working
  <1>8. \A c \in Cases : Working(s, c) <=> c = d
    BY <1>2, <1>3 DEF Working, d
  <1>9. KitStoreOK'
    BY <1>2, <1>5 DEF KitInv, KitStoreOK, kitConfig
  <1>10. GivenAndOwed'
    <2> SUFFICES ASSUME NEW c \in Cases, NEW i \in KitItems
                 PROVE  received'[c][i] + Cardinality(Owing(c, i)') <= 1 + repeats'[c]
      BY DEF GivenAndOwed
    <2>1. /\ Cardinality(Owing(c, i)) \in Nat /\ repeats[c] \in Nat
          /\ received[c][i] + Cardinality(Owing(c, i)) <= 1 + repeats[c]
      BY OwingFinite DEF KitInv, KitStoreOK, GivenAndOwed
    <2>2. CASE c = d /\ i = j
      <3>1. s \in Owing(c, i) /\ s \notin Owing(c, i)'
        BY <1>4, <1>8, <1>1, <2>2 DEF Owing
      <3>2. Cardinality(Owing(c, i)') = Cardinality(Owing(c, i)) - 1
        BY <1>4, <3>1, OwingMoves
      <3> QED
        BY <1>2, <1>5, <2>1, <3>2
    <2>3. CASE ~(c = d /\ i = j)
      <3>1. s \in Owing(c, i) <=> s \in Owing(c, i)'
        BY <1>4, <1>7, <1>8, <2>3 DEF Owing
      <3>2. Cardinality(Owing(c, i)') = Cardinality(Owing(c, i))
        BY <1>4, <3>1, OwingMoves
      <3> QED
        BY <1>2, <1>5, <2>1, <2>3, <3>2
    <2> QED
      BY <2>2, <2>3
  <1>11. OneToCome'
    <2>1. \A c \in Cases : (\A t \in Scanners : ~Working(t, c)) => c # d
      BY <1>8
    <2> QED
      BY <1>2, <1>5, <1>7, <2>1 DEF KitInv, OneToCome
  <1>12. TickedArrived'
    <2> SUFFICES ASSUME NEW c \in Cases, NEW t \in Scanners, Working(t, c)',
                        NEW i \in KitItems, i \notin scanner'[t].items, i \notin scanner'[t].refused
                 PROVE  received'[c][i] > 0
      BY DEF TickedArrived
    <2>1. CASE t # s
      BY <1>4, <1>5, <1>7, <2>1 DEF KitInv, TickedArrived
    <2>2. CASE t = s /\ i # j
      BY <1>4, <1>5, <1>7, <2>2 DEF KitInv, TickedArrived
    <2>3. CASE t = s /\ i = j
      BY <1>4, <1>5, <1>6, <1>7, <1>8, <2>3
    <2> QED
      BY <2>1, <2>2, <2>3
  <1>13. GrantedKitArrived'
    BY <1>2, <1>5 DEF KitInv, GrantedKitArrived
  <1> QED
    BY <1>4, <1>9, <1>10, <1>11, <1>12, <1>13 DEF KitInv

\* The row is written, or the scan ends before it.
LEMMA LeaveSteps ==
  ASSUME KitInv, NEW s \in Scanners, scanner[s].at = "grant", Record(s) \/ ScanDies(s)
  PROVE  KitInv'
  <1> DEFINE d == <<scanner[s].account, scanner[s].version>>
  <1>1. scanner[s] \in Grants /\ d \in Cases
    BY DEF KitInv, ScansOK, Grants, Cases
  <1>2. /\ ScansOK' /\ scanner'[s].at # "grant"
        /\ \A t \in Scanners \ {s} : scanner'[t] = scanner[t]
        /\ UNCHANGED <<kitConfig, present>>
    BY <1>1 DEF Record, ScanDies, Scan, ScanRests, KitInv, ScansOK, Grants
  <1>3. /\ \A c \in Cases : (Working(s, c) <=> c = d) /\ ~Working(s, c)'
        /\ \A t \in Scanners \ {s}, c \in Cases : Working(t, c)' <=> Working(t, c)
    BY <1>1, <1>2 DEF Working
  <1>4. \A c \in Cases, i \in KitItems :
          /\ received[c][i] \in Nat /\ repeats[c] \in Nat /\ Cardinality(Owing(c, i)) \in Nat
          /\ received[c][i] + Cardinality(Owing(c, i)) <= 1 + repeats[c]
    BY OwingFinite DEF KitInv, KitStoreOK, GivenAndOwed
  <1>5. \A c \in Cases, i \in KitItems :
          /\ s \notin Owing(c, i)' /\ (s \in Owing(c, i) <=> c = d /\ i \in scanner[s].items)
          /\ Cardinality(Owing(c, i)') = IF c = d /\ i \in scanner[s].items
               THEN Cardinality(Owing(c, i)) - 1 ELSE Cardinality(Owing(c, i))
    <2>1. \A c \in Cases, i \in KitItems :
            s \notin Owing(c, i)' /\ (s \in Owing(c, i) <=> c = d /\ i \in scanner[s].items)
      BY <1>3 DEF Owing
    <2> QED
      BY <1>2, <2>1, OwingMoves
  <1>6. CASE Record(s)
    <2>1. /\ scanner[s].items = {} /\ UNCHANGED <<received, repeats>>
          /\ kitRow' = [kitRow EXCEPT ![d] = IF scanner[s].refused = {} THEN "granted" ELSE "failed"]
      BY <1>6 DEF Record
    <2>2. KitStoreOK'
      BY <1>2, <2>1 DEF KitInv, KitStoreOK, kitConfig
    <2>3. kitRow'[d] # "none" /\ \A c \in Cases \ {d} : kitRow'[c] = kitRow[c]
      BY <1>1, <2>1 DEF KitInv, KitStoreOK
    <2>4. kitRow'[d] = "granted" => \A i \in KitItems : received[d][i] > 0
      BY <1>1, <1>3, <2>1 DEF KitInv, KitStoreOK, TickedArrived
    <2> HIDE DEF d
    <2>5. GivenAndOwed'
      BY <1>4, <1>5, <2>1 DEF GivenAndOwed
    <2>6. OneToCome'
      BY <1>3, <2>1, <2>3 DEF KitInv, OneToCome
    <2>7. TickedArrived'
      BY <1>2, <1>3, <2>1 DEF KitInv, TickedArrived
    <2>8. GrantedKitArrived'
      BY <2>1, <2>3, <2>4 DEF KitInv, GrantedKitArrived
    <2> QED
      BY <1>2, <2>2, <2>5, <2>6, <2>7, <2>8 DEF KitInv
  <1>7. CASE ScanDies(s)
    <2>1. /\ UNCHANGED kitRow
          /\ repeats' = [repeats EXCEPT ![d] = @ + 1]
          /\ \/ UNCHANGED received
             \/ \E j \in scanner[s].items : received' = [received EXCEPT ![d][j] = @ + 1]
      BY <1>7 DEF ScanDies, Deliver
    <2> HIDE DEF d
    <2>2. /\ repeats' \in [Cases -> Nat] /\ repeats'[d] = repeats[d] + 1
          /\ \A c \in Cases \ {d} : repeats'[c] = repeats[c]
      BY <1>1, <2>1 DEF KitInv, KitStoreOK
    <2>3. /\ received' \in [Cases -> [KitItems -> Nat]]
          /\ \A c \in Cases, i \in KitItems :
               \/ received'[c][i] = received[c][i]
               \/ c = d /\ i \in scanner[s].items /\ received'[c][i] = received[c][i] + 1
      <3>1. scanner[s].items \subseteq KitItems
        BY <1>1 DEF Grants
      <3> QED
        BY <1>1, <2>1, <3>1 DEF KitInv, KitStoreOK
    <2>4. KitStoreOK'
      BY <1>2, <2>1, <2>2, <2>3 DEF KitInv, KitStoreOK, kitConfig
    <2>5. GivenAndOwed'
      BY <1>4, <1>5, <2>2, <2>3 DEF GivenAndOwed
    <2>6. \A i \in KitItems : received'[d][i] <= repeats'[d]
      <3>1. ASSUME NEW i \in KitItems PROVE received'[d][i] <= repeats'[d]
        <4>1. CASE i \in scanner[s].items
          <5>1. Cardinality(Owing(d, i)) >= 1
            <6>1. Cardinality(Owing(d, i)) # 0
              BY <1>1, <1>5, <4>1, OwingFinite, FS_EmptySet
            <6> QED
              BY <1>1, <1>4, <6>1
          <5> QED
            BY <1>1, <1>4, <2>2, <2>3, <5>1
        <4>2. CASE i \notin scanner[s].items
          BY <1>1, <1>4, <2>2, <2>3, <4>2
        <4> QED
          BY <4>1, <4>2
      <3> QED
        BY <3>1
    <2>7. OneToCome'
      BY <1>3, <2>1, <2>2, <2>3, <2>6 DEF KitInv, OneToCome
    <2>8. \A c \in Cases, i \in KitItems : received[c][i] > 0 => received'[c][i] > 0
      BY <1>4, <2>3
    <2>9. TickedArrived' /\ GrantedKitArrived'
      BY <1>2, <1>3, <2>1, <2>8 DEF KitInv, TickedArrived, GrantedKitArrived
    <2> QED
      BY <1>2, <2>4, <2>5, <2>7, <2>9 DEF KitInv
  <1> QED
    BY <1>6, <1>7

\* The operator and the players.
LEMMA KitOpSteps ==
  ASSUME KitInv, \/ SwitchKit \/ RetryFailed
                 \/ \E v \in Kits : ActivateKit(v)
                 \/ \E a \in Newcomers : Connects(a)
  PROVE  KitInv'
  <1>1. UNCHANGED <<received, scanner>>
    BY DEF SwitchKit, RetryFailed, ActivateKit, Connects
  <1>2. /\ \A c \in Cases, s \in Scanners : Working(s, c)' <=> Working(s, c)
        /\ \A c \in Cases, i \in KitItems : Owing(c, i)' = Owing(c, i)
    BY <1>1 DEF Working, Owing
  <1>3. \A c \in Cases, i \in KitItems :
          /\ received[c][i] \in Nat /\ repeats[c] \in Nat /\ Cardinality(Owing(c, i)) \in Nat
          /\ received[c][i] + Cardinality(Owing(c, i)) <= 1 + repeats[c]
    BY OwingFinite DEF KitInv, KitStoreOK, GivenAndOwed
  <1>4. ScansOK' /\ TickedArrived'
    BY <1>1, <1>2 DEF KitInv, ScansOK, TickedArrived
  <1>5. CASE RetryFailed
    <2>1. /\ UNCHANGED <<kitConfig, present>>
          /\ kitRow' = [c \in Cases |-> IF kitRow[c] = "failed" THEN "none" ELSE kitRow[c]]
          /\ repeats' = [c \in Cases |-> IF kitRow[c] = "failed" THEN repeats[c] + 1 ELSE repeats[c]]
      BY <1>5 DEF RetryFailed
    <2>2. KitStoreOK' /\ GrantedKitArrived'
      BY <1>1, <2>1 DEF KitInv, KitStoreOK, kitConfig, GrantedKitArrived
    <2>3. GivenAndOwed'
      BY <1>1, <1>2, <1>3, <2>1 DEF GivenAndOwed
    <2>4. OneToCome'
      BY <1>1, <1>2, <1>3, <2>1 DEF KitInv, OneToCome
    <2> QED
      BY <1>4, <2>2, <2>3, <2>4 DEF KitInv
  <1>6. CASE SwitchKit \/ (\E v \in Kits : ActivateKit(v)) \/ \E a \in Newcomers : Connects(a)
    <2>1. UNCHANGED <<kitRow, repeats>> /\ kitActive' \in Kits /\ present' \subseteq Newcomers
      BY <1>6 DEF SwitchKit, ActivateKit, Connects, kitConfig, KitInv, KitStoreOK
    <2> QED
      BY <1>1, <1>2, <1>4, <2>1
      DEF KitInv, KitStoreOK, GivenAndOwed, OneToCome, GrantedKitArrived
  <1> QED
    BY <1>5, <1>6

\* Every reachable state of the welcome kits has it.
LEMMA KitInvariant == WelcomeSpec => []KitInv
  <1>1. WelcomeInit => KitInv
    BY KitInvInit
  <1>2. KitInv /\ [WelcomeNext]_welcomeVars => KitInv'
    <2>1. ASSUME KitInv, NEW s \in Scanners, Record(s) \/ ScanDies(s) PROVE KitInv'
      <3>1. CASE scanner[s].at = "grant"
        BY <2>1, <3>1, LeaveSteps
      <3>2. CASE scanner[s].at # "grant"
        <4>1. /\ UNCHANGED <<kitConfig, kitRow, present, received, repeats>>
              /\ scanner' = [scanner EXCEPT ![s] = ScanRests]
          BY <2>1, <3>2 DEF Record, ScanDies, Scan
        <4>2. ScansOK' /\ scanner'[s].at # "grant"
              /\ \A t \in Scanners \ {s} : scanner'[t] = scanner[t]
          BY <2>1, <4>1 DEF KitInv, ScansOK, ScanRests
        <4> QED
          BY <2>1, <3>2, <4>1, <4>2, UncommittedStep
      <3> QED
        BY <3>1, <3>2
    <2>2. ASSUME KitInv, WelcomeNext PROVE KitInv'
      BY <2>1, <2>2, ScanSteps, GiveStep, KitOpSteps DEF WelcomeNext
    <2>3. ASSUME KitInv, UNCHANGED welcomeVars PROVE KitInv'
      BY <2>3 DEF welcomeVars, kitConfig, KitInv, ScansOK, KitStoreOK, GivenAndOwed, OneToCome,
                  TickedArrived, GrantedKitArrived, Owing, Working
    <2> QED
      BY <2>2, <2>3
  <1> QED
    BY <1>1, <1>2, PTL DEF WelcomeSpec

\* An account is given every item of a kit once, and once more only for what the
\* repeats name; a granted row is of a kit that arrived, whoever wrote it.
THEOREM KitsAlwaysSafe == WelcomeSpec => []KitsSafe
  <1>1. KitInv => KitsSafe
    <2>1. ASSUME KitInv, NEW c \in Cases, NEW i \in KitItems
          PROVE  received[c][i] <= 1 + repeats[c]
      <3>1. /\ received[c][i] \in Nat /\ repeats[c] \in Nat /\ Cardinality(Owing(c, i)) \in Nat
            /\ received[c][i] + Cardinality(Owing(c, i)) <= 1 + repeats[c]
        BY <2>1, OwingFinite DEF KitInv, KitStoreOK, GivenAndOwed
      <3> QED
        BY <3>1
    <2> QED
      BY <2>1 DEF KitInv, KitsSafe, KitOnce
  <1> QED
    BY <1>1, KitInvariant, PTL

-----------------------------------------------------------------------------
(* The chat commands                                                       *)

\* The shape of a tick; only one that executes has a ledger of its own.
TickOK ==
  /\ chatTick \in [at : {"sleep", "drain", "execute"}, messages : Seq(Chatters),
                   stamps : [Chatters -> ChatAges]]
  /\ chatTick.at # "execute" => \A p \in Chatters : chatTick.stamps[p] = Unsaid

ChatStoreOK ==
  /\ cooldown \in Cooldowns /\ chatQueue \in [there : BOOLEAN, said : Seq(Chatters)]
  /\ stamps \in [Chatters -> ChatAges] /\ kitAge \in [Chatters -> ChatAges]
  /\ leastWait \in [Chatters -> 0..Longest] /\ forgotten \subseteq Chatters

\* The instant that a player's next command is held against.
Believed(p) == IF chatTick.at = "execute" THEN chatTick.stamps[p] ELSE stamps[p]

\* But for what a crash lost, that instant is the one of the last kit, or it has
\* been pruned and the kit is a cooldown old.
StampsTrue ==
  \A p \in Chatters \ forgotten : kitAge[p] # Unsaid =>
    \/ Believed(p) = kitAge[p]
    \/ Believed(p) = Unsaid /\ kitAge[p] >= leastWait[p]

\* The shortest cooldown since a kit is not above the one in force.
WaitsBounded == \A p \in Chatters : kitAge[p] # Unsaid => leastWait[p] <= cooldown

\* A queue is one that the file says is there, or one whose drop failed.
QueueKnown == chatQueue.there => queueReady \/ dropFailed

ChatInv ==
  TickOK /\ ChatStoreOK /\ StampsTrue /\ WaitsBounded /\ QueueKnown /\ NothingForNothing /\ KitsApart

\* The longest cooldown is one, and no other is longer.
LEMMA LongestIsLongest ==
  /\ Longest \in Nat \ {0} /\ Unsaid \notin Int
  /\ \A n \in Cooldowns : n \in Nat \ {0} /\ n <= Longest
  <1>1. Cooldowns \in SUBSET Int /\ IsFiniteSet(Cooldowns) /\ Cooldowns # {}
    BY ChatAssumption DEF ChatAssumption
  <1>2. Longest \in Cooldowns /\ \A n \in Cooldowns : n <= Longest
    BY <1>1, MaxOfSet DEF Longest
  <1> QED
    BY <1>2, ChatAssumption DEF ChatAssumption

\* An age grows by one, up to the longest cooldown.
LEMMA AgingGrows ==
  ASSUME NEW a \in ChatAges
  PROVE  /\ Aging(a) \in ChatAges /\ (Aging(a) = Unsaid <=> a = Unsaid)
         /\ a # Unsaid => Aging(a) = IF a + 1 <= Longest THEN a + 1 ELSE Longest
  <1>1. CASE a = Unsaid
    BY <1>1 DEF Aging
  <1>2. CASE a # Unsaid
    <2>1. a \in 0..Longest
      BY <1>2 DEF ChatAges
    <2>2. a + 1 \in Int /\ Longest \in Int /\ Longest \in Nat
      BY <2>1, LongestIsLongest
    <2>3. Aging(a) = IF a + 1 <= Longest THEN a + 1 ELSE Longest
      BY <1>2, <2>2, MinOfTwo DEF Aging
    <2>4. Aging(a) \in 0..Longest
      BY <2>1, <2>2, <2>3
    <2>5. Aging(a) # Unsaid
      BY <2>4, LongestIsLongest
    <2> QED
      BY <1>2, <2>3, <2>4, <2>5 DEF ChatAges
  <1> QED
    BY <1>1, <1>2

\* The invariant holds at first.
LEMMA ChatInvInit == ASSUME ChatInit PROVE ChatInv
  BY LongestIsLongest, EmptySeq
  DEF ChatInit, ChatInv, TickOK, ChatStoreOK, StampsTrue, WaitsBounded, QueueKnown,
      NothingForNothing, KitsApart, BetweenTicks, NoQueue, ChatAges

\* The queue is dropped, made or filled.
LEMMA QueueSteps ==
  ASSUME ChatInv, DropQueue \/ InitQueue \/ \E p \in Chatters : SayKit(p)
  PROVE  ChatInv'
  <1>1. UNCHANGED <<chatConfig, stamps, kitAge, leastWait, forgotten, hurried>>
    BY DEF DropQueue, InitQueue, SayKit, chatFile, chatHistory
  <1>2. /\ \/ chatTick' = chatTick
           \/ chatTick.at # "execute" /\ chatTick' = [chatTick EXCEPT !.at = "drain"]
        /\ QueueKnown' /\ chatQueue' \in [there : BOOLEAN, said : Seq(Chatters)]
    <2>1. ASSUME DropQueue \/ InitQueue
          PROVE  /\ \/ chatTick' = chatTick
                    \/ chatTick.at # "execute" /\ chatTick' = [chatTick EXCEPT !.at = "drain"]
                 /\ QueueKnown' /\ chatQueue' \in [there : BOOLEAN, said : Seq(Chatters)]
      <3>1. NoQueue \in [there : BOOLEAN, said : Seq(Chatters)] /\ ~NoQueue.there
        BY EmptySeq DEF NoQueue
      <3>2. [chatQueue EXCEPT !.there = TRUE] \in [there : BOOLEAN, said : Seq(Chatters)]
        BY DEF ChatInv, ChatStoreOK
      <3> QED
        BY <2>1, <3>1, <3>2 DEF DropQueue, InitQueue, ChatInv, ChatStoreOK, QueueKnown, chatHistory
    <2>2. ASSUME NEW p \in Chatters, SayKit(p)
          PROVE  /\ UNCHANGED <<chatTick, queueReady, dropFailed>> /\ chatQueue.there
                 /\ chatQueue' \in [there : BOOLEAN, said : Seq(Chatters)]
      <3>1. chatQueue.said \in Seq(Chatters)
        BY DEF ChatInv, ChatStoreOK
      <3>2. /\ Append(chatQueue.said, p) \in Seq(Chatters)
            /\ Append(chatQueue.said, p) # <<>>
        BY <3>1, AppendProperties
      <3>3. Tail(Append(chatQueue.said, p)) \in Seq(Chatters)
        BY <3>2, HeadTailProperties
      <3> QED
        BY <2>2, <3>2, <3>3 DEF SayKit, Queued, chatFile, chatHistory
    <2>3. ASSUME NEW p \in Chatters, SayKit(p) PROVE QueueKnown'
      BY <2>2, <2>3 DEF ChatInv, QueueKnown
    <2> QED
      BY <2>1, <2>2, <2>3
  <1>3. TickOK' /\ (chatTick.at = "execute" <=> chatTick'.at = "execute")
        /\ chatTick'.stamps = chatTick.stamps
    BY <1>2 DEF ChatInv, TickOK
  <1> QED
    BY <1>1, <1>2, <1>3
    DEF ChatInv, ChatStoreOK, StampsTrue, WaitsBounded, NothingForNothing, KitsApart, Believed,
        chatConfig

\* Messages are taken off the queue: from here the tick's own ledger counts.
LEMMA DrainStep == ASSUME ChatInv, Drain PROVE ChatInv'
  <1> DEFINE said == chatQueue.said
             taken == SubSeq(said, 1, Min({DrainMax, Len(said)}))
             left == SubSeq(said, Len(taken) + 1, Len(said))
  <1>1. /\ chatQueue' = [chatQueue EXCEPT !.said = left]
        /\ \/ chatTick' = [at |-> "execute", messages |-> taken, stamps |-> stamps]
           \/ chatTick' = BetweenTicks
        /\ UNCHANGED <<chatConfig, chatFile, chatHistory>> /\ chatTick.at # "execute"
    BY DEF Drain
  <1>2. said \in Seq(Chatters) /\ Len(said) \in Nat
    BY DEF ChatInv, ChatStoreOK
  <1>3. Min({DrainMax, Len(said)}) \in Int /\ Min({DrainMax, Len(said)}) <= Len(said)
    BY <1>2, MinOfTwo, ChatAssumption DEF ChatAssumption
  <1> HIDE DEF said
  <1>4. taken \in Seq(Chatters)
    <2> DEFINE n == Min({DrainMax, Len(said)})
    <2> HIDE DEF n
    <2>1. n \in Int /\ n <= Len(said)
      BY <1>3 DEF n
    <2>2. \A i \in 1..n : said[i] \in Chatters
      BY <1>2, <2>1, ElementOfSeq
    <2>3. SubSeq(said, 1, n) \in Seq(Chatters)
      BY <2>1, <2>2, SubSeqProperties
    <2> QED
      BY <2>3 DEF n
  <1> HIDE DEF taken
  <1>5. left \in Seq(Chatters)
    <2> DEFINE n == Len(taken) + 1
    <2> HIDE DEF n
    <2>1. n \in Int /\ n >= 1
      BY <1>4, LenProperties DEF n
    <2>2. \A i \in n .. Len(said) : said[i] \in Chatters
      BY <1>2, <2>1, ElementOfSeq
    <2>3. SubSeq(said, n, Len(said)) \in Seq(Chatters)
      BY <1>2, <2>1, <2>2, SubSeqProperties
    <2> QED
      BY <2>3 DEF n
  <1> HIDE DEF left
  <1>6. ChatStoreOK' /\ QueueKnown'
    BY <1>1, <1>5
    DEF ChatInv, ChatStoreOK, QueueKnown, chatConfig, chatFile, chatHistory
  <1>7. \/ chatTick'.at = "execute" /\ chatTick'.stamps = stamps
        \/ chatTick'.at = "sleep" /\ \A p \in Chatters : chatTick'.stamps[p] = Unsaid
    BY <1>1 DEF BetweenTicks
  <1>8. TickOK'
    <2>1. stamps \in [Chatters -> ChatAges]
      BY DEF ChatInv, ChatStoreOK
    <2>2. CASE chatTick' = [at |-> "execute", messages |-> taken, stamps |-> stamps]
      BY <1>4, <2>1, <2>2 DEF TickOK
    <2>3. CASE chatTick' = BetweenTicks
      <3>1. [p \in Chatters |-> Unsaid] \in [Chatters -> ChatAges] /\ <<>> \in Seq(Chatters)
        BY EmptySeq DEF ChatAges
      <3> QED
        BY <2>3, <3>1 DEF TickOK, BetweenTicks
    <2> QED
      BY <1>1, <2>2, <2>3
  <1>9. UNCHANGED <<stamps, kitAge, leastWait, forgotten, hurried, cooldown>>
    BY <1>1 DEF chatConfig, chatFile, chatHistory
  <1>10. \A p \in Chatters : Believed(p)' = Believed(p)
    BY <1>1, <1>7, <1>9 DEF Believed
  <1> QED
    BY <1>6, <1>7, <1>8, <1>9, <1>10
    DEF ChatInv, StampsTrue, WaitsBounded, NothingForNothing, KitsApart

\* A command is executed, or not; the kit is given with its instant in the tick's
\* ledger.
LEMMA ExecuteStep == ASSUME ChatInv, Execute PROVE ChatInv'
  <1> DEFINE p == Head(chatTick.messages)
             next == [chatTick EXCEPT !.messages = Tail(@)]
  <1>1. chatTick.at = "execute" /\ chatTick.messages # <<>> /\ chatTick.messages \in Seq(Chatters)
    BY DEF Execute, ChatInv, TickOK
  <1>2. p \in Chatters /\ Tail(chatTick.messages) \in Seq(Chatters)
    BY <1>1, HeadTailProperties
  <1>3. /\ next \in [at : {"execute"}, messages : Seq(Chatters), stamps : [Chatters -> ChatAges]]
        /\ next.stamps = chatTick.stamps
    BY <1>1, <1>2 DEF ChatInv, TickOK
  <1>4. /\ \/ chatTick' = next /\ UNCHANGED chatHistory
           \/ /\ Ready(chatTick.stamps[p]) /\ GiveKit(p)
              /\ chatTick' = [next EXCEPT !.stamps[p] = 0]
        /\ UNCHANGED <<chatConfig, chatFile, chatQueue>>
    BY DEF Execute
  <1> HIDE DEF p, next
  <1>5. CASE chatTick' = next /\ UNCHANGED chatHistory
    <2>1. TickOK' /\ \A q \in Chatters : Believed(q)' = Believed(q)
      BY <1>1, <1>3, <1>4, <1>5 DEF TickOK, Believed
    <2> QED
      BY <1>3, <1>4, <1>5, <2>1
      DEF ChatInv, ChatStoreOK, StampsTrue, WaitsBounded, QueueKnown, NothingForNothing,
          KitsApart, chatHistory, chatConfig, chatFile
  <1>6. CASE /\ Ready(chatTick.stamps[p]) /\ GiveKit(p)
             /\ chatTick' = [next EXCEPT !.stamps[p] = 0]
    <2>1. /\ 0 \in ChatAges /\ 0 # Unsaid /\ cooldown \in 0..Longest /\ cooldown \in Nat
      BY LongestIsLongest DEF ChatInv, ChatStoreOK, ChatAges
    <2>2. /\ chatTick' \in [at : {"execute"}, messages : Seq(Chatters), stamps : [Chatters -> ChatAges]]
          /\ chatTick'.stamps = [chatTick.stamps EXCEPT ![p] = 0]
      BY <1>2, <1>3, <1>6, <2>1
    <2>3. /\ kitAge' = [kitAge EXCEPT ![p] = 0] /\ leastWait' = [leastWait EXCEPT ![p] = cooldown]
          /\ forgotten' = forgotten \ {p}
      BY <1>6 DEF GiveKit
    <2>4. TickOK' /\ ChatStoreOK' /\ QueueKnown'
      <3>1. TickOK'
        BY <2>2 DEF TickOK
      <3>2. ChatStoreOK'
        BY <1>2, <1>4, <2>1, <2>3 DEF ChatInv, ChatStoreOK, chatConfig, chatFile
      <3>3. QueueKnown'
        BY <1>4, <1>6 DEF ChatInv, QueueKnown, chatFile, GiveKit
      <3> QED
        BY <3>1, <3>2, <3>3
    <2>5. WaitsBounded'
      BY <1>2, <1>4, <2>1, <2>3 DEF ChatInv, ChatStoreOK, WaitsBounded, chatConfig
    <2>6. StampsTrue'
      BY <1>1, <1>2, <1>4, <2>1, <2>2, <2>3 DEF ChatInv, TickOK, ChatStoreOK, StampsTrue, Believed
    <2>7. NothingForNothing'
      <3>1. \A q \in Chatters : stamps[q] # Unsaid => stamps[q] \in Nat
        BY DEF ChatInv, ChatStoreOK, ChatAges
      <3>2. stamps' = stamps /\ chatTick.stamps \in [Chatters -> ChatAges]
            /\ kitAge \in [Chatters -> ChatAges]
        BY <1>4 DEF chatFile, ChatInv, TickOK, ChatStoreOK
      <3> QED
        BY <1>2, <2>1, <2>2, <2>3, <3>1, <3>2 DEF ChatInv, NothingForNothing
    <2>8. kitAge[p] # Unsaid /\ p \notin forgotten => kitAge[p] >= leastWait[p]
      <3>1. /\ chatTick.stamps[p] \in ChatAges /\ kitAge[p] \in ChatAges
            /\ leastWait[p] \in Nat
        BY <1>2 DEF ChatInv, TickOK, ChatStoreOK
      <3>2. chatTick.stamps[p] = Unsaid \/ chatTick.stamps[p] >= cooldown
        BY <1>6, <2>1, <3>1, LongestIsLongest DEF Ready, ChatAges
      <3>3. kitAge[p] = Unsaid \/ kitAge[p] \in Nat
        BY <3>1 DEF ChatAges
      <3> QED
        BY <1>1, <1>2, <2>1, <3>1, <3>2, <3>3
        DEF ChatInv, StampsTrue, WaitsBounded, Believed
    <2>9. KitsApart'
      <3>1. /\ hurried = {}
            /\ hurried' = IF kitAge[p] # Unsaid /\ p \notin forgotten
                          THEN hurried \cup {q \in {p} : kitAge[q] < leastWait[q]} ELSE hurried
        BY <1>6 DEF GiveKit, ChatInv, KitsApart
      <3>2. CASE kitAge[p] # Unsaid /\ p \notin forgotten
        <4>1. kitAge[p] \in Nat /\ leastWait[p] \in Nat
          BY <1>2, <3>2 DEF ChatInv, ChatStoreOK, ChatAges
        <4> QED
          BY <2>8, <3>1, <3>2, <4>1 DEF KitsApart
      <3>3. CASE ~(kitAge[p] # Unsaid /\ p \notin forgotten)
        BY <3>1, <3>3 DEF KitsApart
      <3> QED
        BY <3>2, <3>3
    <2> QED
      BY <2>4, <2>5, <2>6, <2>7, <2>9 DEF ChatInv
  <1> QED
    BY <1>4, <1>5, <1>6

\* The ledger is pruned and goes to the file.
LEMMA SaveStep == ASSUME ChatInv, SaveCooldowns PROVE ChatInv'
  <1>1. /\ chatTick.at = "execute" /\ chatTick' = BetweenTicks
        /\ stamps' = [p \in Chatters |-> IF Ready(chatTick.stamps[p]) THEN Unsaid
                                         ELSE chatTick.stamps[p]]
        /\ UNCHANGED <<cooldown, queueReady, chatQueue, kitAge, leastWait, forgotten, hurried,
                       dropFailed>>
    BY DEF SaveCooldowns, chatConfig, chatHistory
  <1>2. chatTick.stamps \in [Chatters -> ChatAges] /\ Unsaid \in ChatAges
    BY DEF ChatInv, TickOK, ChatAges
  <1>3. stamps' \in [Chatters -> ChatAges] /\ \A p \in Chatters :
          \/ stamps'[p] = chatTick.stamps[p]
          \/ stamps'[p] = Unsaid /\ (chatTick.stamps[p] = Unsaid \/ chatTick.stamps[p] >= cooldown)
    <2>1. cooldown \in Nat
      BY LongestIsLongest DEF ChatInv, ChatStoreOK
    <2>2. \A p \in Chatters : chatTick.stamps[p] = Unsaid \/ chatTick.stamps[p] \in Nat
      BY <1>2 DEF ChatAges
    <2> QED
      BY <1>1, <1>2, <2>1, <2>2 DEF Ready
  <1>4. TickOK' /\ ChatStoreOK' /\ QueueKnown' /\ WaitsBounded' /\ KitsApart'
    BY <1>1, <1>2, <1>3, EmptySeq
    DEF ChatInv, TickOK, ChatStoreOK, QueueKnown, WaitsBounded, KitsApart, BetweenTicks
  <1>5. StampsTrue'
    <2>1. \A p \in Chatters : Believed(p) = chatTick.stamps[p] /\ Believed(p)' = stamps'[p]
      BY <1>1 DEF Believed, BetweenTicks
    <2>2. \A p \in Chatters : kitAge[p] # Unsaid =>
            kitAge[p] \in Nat /\ leastWait[p] \in Nat /\ cooldown \in Nat /\ leastWait[p] <= cooldown
      BY LongestIsLongest DEF ChatInv, ChatStoreOK, ChatAges, WaitsBounded
    <2> QED
      BY <1>1, <1>3, <2>1, <2>2 DEF ChatInv, StampsTrue
  <1>6. NothingForNothing'
    BY <1>1, <1>3 DEF ChatInv, NothingForNothing, BetweenTicks
  <1> QED
    BY <1>4, <1>5, <1>6 DEF ChatInv

\* The container stops: what the tick had not written is forgotten.
LEMMA ChatRestartStep == ASSUME ChatInv, ContainerRestart PROVE ChatInv'
  <1>1. /\ chatTick' = BetweenTicks /\ chatQueue' = NoQueue
        /\ forgotten' = forgotten \cup
             {p \in Chatters : chatTick.at = "execute" /\ chatTick.stamps[p] # stamps[p]}
        /\ UNCHANGED <<cooldown, queueReady, stamps, kitAge, leastWait, hurried, dropFailed>>
    BY DEF ContainerRestart, chatConfig, chatFile
  <1>2. TickOK' /\ ChatStoreOK' /\ QueueKnown' /\ WaitsBounded' /\ KitsApart'
    BY <1>1, EmptySeq
    DEF ChatInv, TickOK, ChatStoreOK, QueueKnown, WaitsBounded, KitsApart, BetweenTicks, NoQueue,
        ChatAges
  <1>3. \A p \in Chatters \ forgotten' : p \notin forgotten /\ Believed(p)' = Believed(p)
    BY <1>1 DEF Believed, BetweenTicks
  <1>4. StampsTrue' /\ NothingForNothing'
    BY <1>1, <1>3 DEF ChatInv, StampsTrue, NothingForNothing, BetweenTicks
  <1> QED
    BY <1>2, <1>4 DEF ChatInv

\* The operator changes the configuration, between two ticks.
LEMMA ChatOpSteps ==
  ASSUME ChatInv, SwitchChat \/ \E n \in Cooldowns : SetCooldown(n)
  PROVE  ChatInv'
  <1>1. CASE SwitchChat
    BY <1>1
    DEF SwitchChat, ChatInv, TickOK, ChatStoreOK, StampsTrue, WaitsBounded, QueueKnown,
        NothingForNothing, KitsApart, Believed, chatFile, chatHistory
  <1>2. ASSUME NEW n \in Cooldowns, SetCooldown(n) PROVE ChatInv'
    <2>1. /\ cooldown' = n /\ leastWait' = [p \in Chatters |-> Min({leastWait[p], n})]
          /\ UNCHANGED <<chatFile, chatQueue, chatTick, kitAge, forgotten, dropFailed, hurried>>
      BY <1>2 DEF SetCooldown
    <2>2. n \in Nat /\ n <= Longest /\ Longest \in Nat
      BY LongestIsLongest
    <2>3. \A p \in Chatters :
            /\ leastWait[p] \in 0..Longest
            /\ leastWait'[p] = IF leastWait[p] <= n THEN leastWait[p] ELSE n
      <3>1. \A p \in Chatters : leastWait[p] \in 0..Longest /\ leastWait[p] \in Int
        BY DEF ChatInv, ChatStoreOK
      <3>2. \A p \in Chatters : Min({leastWait[p], n}) = IF leastWait[p] <= n THEN leastWait[p] ELSE n
        BY <2>2, <3>1, MinOfTwo
      <3> QED
        BY <2>1, <3>1, <3>2
    <2>4. leastWait' \in [Chatters -> 0..Longest]
      BY <2>1, <2>2, <2>3
    <2>5. TickOK' /\ ChatStoreOK' /\ QueueKnown' /\ NothingForNothing' /\ KitsApart'
      BY <2>1, <2>4
      DEF ChatInv, TickOK, ChatStoreOK, QueueKnown, NothingForNothing, KitsApart, chatFile
    <2>6. WaitsBounded'
      BY <2>1, <2>2, <2>3 DEF WaitsBounded
    <2>7. \A p \in Chatters : kitAge[p] = Unsaid \/ kitAge[p] \in Nat
      BY DEF ChatInv, ChatStoreOK, ChatAges
    <2>8. StampsTrue'
      BY <2>1, <2>2, <2>3, <2>7 DEF ChatInv, StampsTrue, Believed, chatFile
    <2> QED
      BY <2>5, <2>6, <2>8 DEF ChatInv
  <1> QED
    BY <1>1, <1>2

\* Time passes between two ticks.
LEMMA ChatClockStep == ASSUME ChatInv, ChatClock PROVE ChatInv'
  <1>1. /\ chatTick.at = "sleep"
        /\ stamps' = [p \in Chatters |-> Aging(stamps[p])]
        /\ kitAge' = [p \in Chatters |-> Aging(kitAge[p])]
        /\ UNCHANGED <<cooldown, queueReady, chatQueue, chatTick, leastWait, forgotten, dropFailed,
                       hurried>>
    BY DEF ChatClock, chatConfig
  <1>2. \A p \in Chatters :
          /\ stamps[p] \in ChatAges /\ kitAge[p] \in ChatAges
          /\ leastWait[p] \in 0..Longest
    BY DEF ChatInv, ChatStoreOK
  <1>3. \A p \in Chatters : stamps'[p] = Aging(stamps[p]) /\ kitAge'[p] = Aging(kitAge[p])
    BY <1>1
  <1>4. stamps' \in [Chatters -> ChatAges] /\ kitAge' \in [Chatters -> ChatAges]
    BY <1>1, <1>2, AgingGrows
  <1>5. TickOK' /\ ChatStoreOK' /\ QueueKnown' /\ KitsApart'
    BY <1>1, <1>4 DEF ChatInv, TickOK, ChatStoreOK, QueueKnown, KitsApart
  <1>6. \A p \in Chatters :
          /\ (stamps'[p] = Unsaid <=> stamps[p] = Unsaid) /\ (kitAge'[p] = Unsaid <=> kitAge[p] = Unsaid)
          /\ stamps[p] # Unsaid => stamps'[p] = IF stamps[p] + 1 <= Longest THEN stamps[p] + 1 ELSE Longest
          /\ kitAge[p] # Unsaid => kitAge'[p] = IF kitAge[p] + 1 <= Longest THEN kitAge[p] + 1 ELSE Longest
    BY <1>2, <1>3, AgingGrows
  <1>7. \A p \in Chatters :
          /\ stamps[p] = Unsaid \/ stamps[p] \in 0..Longest
          /\ kitAge[p] = Unsaid \/ kitAge[p] \in 0..Longest
    BY <1>2 DEF ChatAges
  <1>8. Longest \in Nat
    BY LongestIsLongest
  <1>9. WaitsBounded'
    BY <1>1, <1>6 DEF ChatInv, WaitsBounded
  <1>10. StampsTrue'
    <2>1. \A p \in Chatters : Believed(p) = stamps[p] /\ Believed(p)' = stamps'[p]
      BY <1>1 DEF Believed
    <2> QED
      BY <1>1, <1>2, <1>6, <1>7, <1>8, <2>1 DEF ChatInv, StampsTrue
  <1>11. NothingForNothing'
    BY <1>1, <1>6, <1>7, <1>8 DEF ChatInv, TickOK, NothingForNothing
  <1> QED
    BY <1>5, <1>9, <1>10, <1>11 DEF ChatInv

\* Every reachable state of the chat commands has it.
LEMMA ChatInvariant == ChatSpec => []ChatInv
  <1>1. ChatInit => ChatInv
    BY ChatInvInit
  <1>2. ChatInv /\ [ChatNext]_chatVars => ChatInv'
    <2>1. ASSUME ChatInv, ChatNext PROVE ChatInv'
      BY <2>1, QueueSteps, DrainStep, ExecuteStep, SaveStep, ChatRestartStep, ChatOpSteps,
         ChatClockStep DEF ChatNext
    <2>2. ASSUME ChatInv, UNCHANGED chatVars PROVE ChatInv'
      BY <2>2
      DEF chatVars, chatConfig, chatFile, chatHistory, ChatInv, TickOK, ChatStoreOK, StampsTrue,
          WaitsBounded, QueueKnown, NothingForNothing, KitsApart, Believed
    <2> QED
      BY <2>1, <2>2
  <1> QED
    BY <1>1, <1>2, PTL DEF ChatSpec

\* Two kits of a player are a cooldown apart, no player waits for a kit he was not
\* given, and the copy of the chat is dropped, across ticks, switches and restarts.
THEOREM ChatAlwaysSafe == ChatSpec => []ChatSafe
  <1>1. ChatInv => ChatSafe
    BY DEF ChatInv, ChatSafe, QueueKnown, CopyDropped
  <1> QED
    BY <1>1, ChatInvariant, PTL

-----------------------------------------------------------------------------
(* The battle pass                                                         *)

\* The shape of the store and of a transaction.
PassOK ==
  /\ bpClaim \in BpClaims /\ bpLedger \in [Pairs -> BpRow] /\ seen \subseteq Pairs
  /\ bpJob \in {Nobody} \cup BpJobs
  /\ bpConfig \in [past : BOOLEAN, auto : BOOLEAN]
  /\ intel \in [Pairs -> Nat] /\ bpLost \in Nat /\ watched \subseteq Pairs

\* What claims and rows tell of a pair together: a grant that is due, or has been
\* given up, is of an earned claim, and what is sealed was paid.
RecordsFit(cs, rs) ==
  \A x \in Pairs :
    /\ rs[x].status \in {"pending", "exhausted"} => cs[x] = "earned"
    /\ rs[x].status = "granted" \/ cs[x] = "granted" => intel[x] >= 1

\* Intel that landed without a record is a lost landing, or was paid by the
\* transaction under way.
UnrecordedLost ==
  \A x \in Pairs :
    /\ intel[x] <= 1 + bpLost
    /\ bpLedger[x].status # "granted" =>
         intel[x] <= IF bpJob = Nobody THEN bpLost ELSE bpLost + bpJob.paid

\* A transaction works on earned claims; those it has earned itself it was
\* allowed to.
JobFits ==
  bpJob # Nobody =>
    /\ RecordsFit(bpJob.claim, bpJob.ledger)
    /\ \A x \in Pairs :
         /\ x \in bpJob.todo => bpJob.claim[x] = "earned"
         /\ bpJob.ledger[x].status # "granted" => intel[x] <= bpLost
         /\ bpJob.claim[x] \in {"earned", "granted"} =>
              \/ bpClaim[x] \in {"earned", "granted"}
              \/ bpClaim[x] = "none" /\ (bpJob.past \/ x \in seen)

PassInv ==
  /\ PassOK /\ RecordsFit(bpClaim, bpLedger) /\ UnrecordedLost /\ JobFits
  /\ EarnedWatched /\ seen \subseteq watched

\* The invariant holds at first.
LEMMA PassInvInit == ASSUME BpInit PROVE PassInv
  <1>1. /\ PassOK /\ RecordsFit(bpClaim, bpLedger) /\ EarnedWatched /\ seen \subseteq watched
    BY DEF BpInit, PassOK, RecordsFit, EarnedWatched, BpClaims, BpRow, NoRow
  <1>2. UnrecordedLost /\ JobFits
    BY DEF BpInit, UnrecordedLost, JobFits
  <1> QED
    BY <1>1, <1>2 DEF PassInv

\* A step that begins a transaction.
LEMMA BeginSteps ==
  ASSUME PassInv, ScanBegins \/ \E a \in Players : ManualGrant(a)
  PROVE  PassInv'
  <1>1. bpJob = Nobody
    BY DEF ScanBegins, ManualGrant
  <1>2. UNCHANGED <<bpClaim, bpLedger, seen, bpConfig, intel, bpLost, watched, pastOn>>
    BY DEF ScanBegins, ManualGrant, bpStore, bpHistory
  <1>3. PassOK /\ RecordsFit(bpClaim, bpLedger) /\ UnrecordedLost
    BY DEF PassInv
  <1>4. \A row \in BpRow :
          /\ Enqueued(row) \in BpRow
          /\ Enqueued(row).status = "granted" <=> row.status = "granted"
          /\ Enqueued(row).status # "none"
    BY DEF Enqueued, BpRow
  <1> DEFINE Begun(b) ==
        /\ b \in BpJobs /\ RecordsFit(b.claim, b.ledger) /\ b.paid = 0
        /\ \A x \in Pairs :
             /\ x \in b.todo => b.claim[x] = "earned"
             /\ b.ledger[x].status = "granted" <=> bpLedger[x].status = "granted"
             /\ b.claim[x] \in {"earned", "granted"} =>
                  \/ bpClaim[x] \in {"earned", "granted"}
                  \/ bpClaim[x] = "none" /\ (b.past \/ x \in seen)
  <1>5. Begun(bpJob')
    <2>1. CASE ScanBegins
      <3> DEFINE claims == [x \in Pairs |->
                   IF x \in Open /\ Verdict(x) # "mark_seen" THEN Verdict(x) ELSE bpClaim[x]]
                 rows == [x \in Pairs |->
                   IF bpConfig.auto /\ claims[x] = "earned" THEN Enqueued(bpLedger[x])
                   ELSE bpLedger[x]]
                 due == {x \in Pairs : /\ bpConfig.auto /\ tierOn[x[1]]
                                       /\ rows[x].status = "pending" /\ ~rows[x].waiting
                                       /\ rows[x].attempts < BpAttempts}
                 marked == seen \cup {x \in Open : Verdict(x) = "mark_seen"}
      <3>1. bpJob' = [claim |-> claims, ledger |-> rows, todo |-> due, manual |-> FALSE,
                      seen |-> marked, past |-> bpConfig.past, paid |-> 0]
        BY <2>1 DEF ScanBegins
      <3>2. /\ claims \in BpClaims
            /\ \A x \in Pairs : claims[x] # bpClaim[x] =>
                 /\ bpClaim[x] = "none"
                 /\ \/ claims[x] = "baseline"
                    \/ claims[x] = "earned" /\ (bpConfig.past \/ x \in seen)
        BY <1>3 DEF PassOK, Open, Verdict, BpClaims
      <3> HIDE DEF claims
      <3>3. /\ rows \in [Pairs -> BpRow]
            /\ \A x \in Pairs :
                 \/ rows[x] = bpLedger[x]
                 \/ claims[x] = "earned" /\ rows[x] = Enqueued(bpLedger[x])
        BY <1>3, <1>4 DEF PassOK
      <3> HIDE DEF rows
      <3>4. due \subseteq Pairs /\ marked \subseteq Pairs
            /\ \A x \in due : rows[x].status = "pending"
        BY <1>3 DEF Open, PassOK
      <3> HIDE DEF due, marked
      <3>5. \A x \in Pairs : bpLedger[x] \in BpRow
        BY <1>3 DEF PassOK
      <3>6. \A x \in Pairs : rows[x].status = "granted" <=> bpLedger[x].status = "granted"
        BY <1>4, <3>3, <3>5
      <3>7. RecordsFit(claims, rows)
        BY <1>3, <1>4, <3>2, <3>3, <3>5, <3>6 DEF RecordsFit, BpRow
      <3>8. bpJob' \in BpJobs
        BY <1>3, <3>1, <3>2, <3>3, <3>4 DEF BpJobs, PassOK
      <3> QED
        BY <3>1, <3>2, <3>4, <3>6, <3>7, <3>8 DEF RecordsFit
    <2>2. ASSUME NEW a \in Players, ManualGrant(a) PROVE Begun(bpJob')
      <3> DEFINE earned == {x \in Pairs : x[2] = a /\ bpClaim[x] = "earned"}
                 rows == [x \in Pairs |-> IF x \in earned THEN Enqueued(bpLedger[x])
                                          ELSE bpLedger[x]]
      <3>1. bpJob' = [claim |-> bpClaim, todo |-> earned, seen |-> seen, manual |-> TRUE,
                      ledger |-> rows, past |-> bpConfig.past, paid |-> 0]
        BY <2>2 DEF ManualGrant
      <3>2. earned \subseteq Pairs /\ \A x \in earned : bpClaim[x] = "earned"
        OBVIOUS
      <3> HIDE DEF earned
      <3>3. /\ rows \in [Pairs -> BpRow]
            /\ \A x \in Pairs :
                 \/ rows[x] = bpLedger[x]
                 \/ x \in earned /\ rows[x] = Enqueued(bpLedger[x])
        BY <1>3, <1>4 DEF PassOK
      <3> HIDE DEF rows
      <3>4. \A x \in Pairs : bpLedger[x] \in BpRow
        BY <1>3 DEF PassOK
      <3>5. \A x \in Pairs : rows[x].status = "granted" <=> bpLedger[x].status = "granted"
        BY <1>4, <3>3, <3>4
      <3>6. RecordsFit(bpClaim, rows)
        BY <1>3, <1>4, <3>2, <3>3, <3>4, <3>5 DEF RecordsFit, BpRow
      <3>7. bpJob' \in BpJobs
        BY <1>3, <3>1, <3>2, <3>3 DEF BpJobs, PassOK
      <3> QED
        BY <3>1, <3>2, <3>5, <3>6, <3>7
    <2> QED
      BY <2>1, <2>2
  <1>6. PassOK'
    BY <1>2, <1>3, <1>5 DEF PassOK
  <1>7. UnrecordedLost' /\ JobFits'
    <2>1. \A x \in Pairs : bpLedger[x].status # "granted" => intel[x] <= bpLost
      BY <1>1, <1>3 DEF UnrecordedLost
    <2>2. intel \in [Pairs -> Nat] /\ bpLost \in Nat
      BY <1>3 DEF PassOK
    <2>3. UnrecordedLost'
      BY <1>2, <1>3, <1>5, <2>1, <2>2 DEF UnrecordedLost
    <2>4. JobFits'
      BY <1>2, <1>5, <2>1 DEF JobFits, RecordsFit
    <2> QED
      BY <2>3, <2>4
  <1>8. RecordsFit(bpClaim, bpLedger)' /\ EarnedWatched' /\ (seen \subseteq watched)'
    BY <1>2 DEF PassInv, RecordsFit, EarnedWatched
  <1> QED
    BY <1>6, <1>7, <1>8 DEF PassInv

\* What a step of the transaction about one of its pairs has to respect.
LEMMA JobStep ==
  ASSUME PassInv, bpJob # Nobody, NEW x \in bpJob.todo, bpJob' \in BpJobs,
         UNCHANGED <<bpStore, watched, pastOn>>,
         bpJob'.todo \subseteq bpJob.todo \ {x}, bpJob'.past = bpJob.past,
         intel' \in [Pairs -> Nat], bpLost' \in Nat, bpLost' >= bpLost, bpJob'.paid >= bpJob.paid,
         \A y \in Pairs \ {x} :
           /\ bpJob'.claim[y] = bpJob.claim[y] /\ bpJob'.ledger[y] = bpJob.ledger[y]
           /\ intel'[y] = intel[y],
         bpJob'.claim[x] \in {"earned", "granted"},
         bpJob'.ledger[x].status # "granted" => bpJob'.claim[x] = "earned",
         bpJob'.ledger[x].status = "granted" \/ bpJob'.claim[x] = "granted" => intel'[x] >= 1,
         bpJob'.ledger[x].status # "granted" => intel'[x] <= bpLost',
         intel'[x] >= intel[x], intel'[x] <= 1 + bpLost',
         bpLedger[x].status # "granted" => intel'[x] <= bpLost' + bpJob'.paid
  PROVE  PassInv'
  <1>1. bpJob \in BpJobs /\ x \in Pairs /\ bpJob' # Nobody
    BY BpAssumption DEF PassInv, PassOK, BpJobs, BpAssumption
  <1>2. /\ bpJob.paid \in Nat /\ bpJob'.paid \in Nat /\ bpJob.todo \subseteq Pairs
    BY <1>1 DEF BpJobs, BpClaims
  <1>3. PassOK /\ intel \in [Pairs -> Nat] /\ bpLost \in Nat
    BY DEF PassInv, PassOK
  <1>4. \A y \in Pairs : intel[y] \in Nat /\ intel'[y] \in Nat /\ intel[y] <= intel'[y]
    BY <1>3
  <1>5. PassOK'
    BY <1>3 DEF PassOK, bpStore
  <1>6. RecordsFit(bpClaim, bpLedger)'
    BY <1>4 DEF PassInv, RecordsFit, bpStore
  <1>7. UnrecordedLost'
    BY <1>1, <1>2, <1>3, <1>4 DEF PassInv, UnrecordedLost, bpStore
  <1>8. EarnedWatched' /\ (seen \subseteq watched)'
    BY DEF PassInv, EarnedWatched, bpStore
  <1>9. JobFits'
    <2> SUFFICES ASSUME NEW y \in Pairs
                 PROVE  /\ bpJob'.ledger[y].status \in {"pending", "exhausted"}
                             => bpJob'.claim[y] = "earned"
                        /\ bpJob'.ledger[y].status = "granted" \/ bpJob'.claim[y] = "granted"
                             => intel'[y] >= 1
                        /\ y \in bpJob'.todo => bpJob'.claim[y] = "earned"
                        /\ bpJob'.ledger[y].status # "granted" => intel'[y] <= bpLost'
                        /\ bpJob'.claim[y] \in {"earned", "granted"} =>
                             \/ bpClaim[y] \in {"earned", "granted"}
                             \/ bpClaim[y] = "none" /\ (bpJob'.past \/ y \in seen)
      BY DEF JobFits, RecordsFit, bpStore
    <2>1. /\ RecordsFit(bpJob.claim, bpJob.ledger)
          /\ \A z \in Pairs :
               /\ z \in bpJob.todo => bpJob.claim[z] = "earned"
               /\ bpJob.ledger[z].status # "granted" => intel[z] <= bpLost
               /\ bpJob.claim[z] \in {"earned", "granted"} =>
                    \/ bpClaim[z] \in {"earned", "granted"}
                    \/ bpClaim[z] = "none" /\ (bpJob.past \/ z \in seen)
      BY DEF PassInv, JobFits
    <2>2. CASE y = x
      BY <1>1, <2>1, <2>2
    <2>3. CASE y # x
      BY <1>3, <1>4, <2>1, <2>3 DEF RecordsFit
    <2> QED
      BY <2>2, <2>3
  <1> QED
    BY <1>5, <1>6, <1>7, <1>8, <1>9 DEF PassInv

\* The deliveries of a transaction: skipped, put off, paid, failed.
LEMMA DeliverSteps ==
  ASSUME PassInv, NEW x \in Pairs,
         \/ SkipGrant(x) \/ GrantLater(x) \/ GrantPaid(x)
         \/ \E lands \in BOOLEAN : GrantFailsBp(x, lands)
  PROVE  PassInv'
  <1>1. bpJob # Nobody /\ x \in bpJob.todo /\ bpJob \in BpJobs
    BY DEF SkipGrant, GrantLater, GrantPaid, GrantFailsBp, Payable, PassInv, PassOK
  <1>2. /\ bpJob.ledger[x] \in BpRow /\ bpJob.claim[x] \in {"none", "baseline", "earned", "granted"}
        /\ bpJob.todo \subseteq Pairs
        /\ bpJob.paid \in Nat /\ bpJob.todo \ {x} \in SUBSET Pairs
        /\ bpJob.claim \in BpClaims /\ bpJob.ledger \in [Pairs -> BpRow]
    BY <1>1 DEF BpJobs, BpClaims
  <1>3. /\ bpJob.claim[x] = "earned"
        /\ bpJob.ledger[x].status = "granted" => intel[x] >= 1
        /\ bpJob.ledger[x].status # "granted" => intel[x] <= bpLost
    BY <1>1 DEF PassInv, JobFits, RecordsFit
  <1>4. /\ intel \in [Pairs -> Nat] /\ bpLost \in Nat /\ intel[x] \in Nat
        /\ intel[x] <= 1 + bpLost
        /\ bpLedger[x].status # "granted" => intel[x] <= bpLost + bpJob.paid
    BY <1>1 DEF PassInv, PassOK, UnrecordedLost
  <1>5. UNCHANGED <<bpStore, watched, pastOn>>
    BY DEF SkipGrant, GrantLater, GrantPaid, GrantFailsBp, bpHistory
  <1>6. CASE SkipGrant(x)
    <2>1. /\ bpJob' = [bpJob EXCEPT !.todo = @ \ {x}, !.ledger[x].status = "granted"]
          /\ bpJob.ledger[x].status = "granted" /\ UNCHANGED <<intel, bpLost>>
      BY <1>3, <1>6 DEF SkipGrant, bpHistory
    <2>2. [bpJob.ledger EXCEPT ![x].status = "granted"] \in [Pairs -> BpRow]
      BY <1>2 DEF BpRow
    <2>3. /\ bpJob' \in BpJobs /\ bpJob'.todo = bpJob.todo \ {x} /\ bpJob'.past = bpJob.past
          /\ bpJob'.paid = bpJob.paid /\ bpJob'.claim = bpJob.claim
          /\ bpJob'.ledger = [bpJob.ledger EXCEPT ![x].status = "granted"]
      BY <1>1, <1>2, <2>1, <2>2 DEF BpJobs
    <2>4. /\ bpJob'.ledger[x].status = "granted"
          /\ \A y \in Pairs \ {x} : bpJob'.ledger[y] = bpJob.ledger[y]
      BY <1>2, <2>3 DEF BpRow
    <2> QED
      BY <1>1, <1>2, <1>3, <1>4, <1>5, <2>1, <2>3, <2>4, JobStep
  <1>7. CASE GrantLater(x)
    <2>1. /\ bpJob' = [bpJob EXCEPT !.todo = IF bpJob.manual THEN {} ELSE @ \ {x},
                                    !.ledger[x].waiting = TRUE]
          /\ bpJob.ledger[x].status # "granted" /\ UNCHANGED <<intel, bpLost>>
      BY <1>7 DEF GrantLater, Payable, bpHistory
    <2>2. [bpJob.ledger EXCEPT ![x].waiting = TRUE] \in [Pairs -> BpRow]
      BY <1>2 DEF BpRow
    <2>3. /\ bpJob' \in BpJobs /\ bpJob'.todo \subseteq bpJob.todo \ {x}
          /\ bpJob'.past = bpJob.past
          /\ bpJob'.paid = bpJob.paid /\ bpJob'.claim = bpJob.claim
          /\ bpJob'.ledger = [bpJob.ledger EXCEPT ![x].waiting = TRUE]
      BY <1>1, <1>2, <2>1, <2>2 DEF BpJobs
    <2>4. /\ bpJob'.ledger[x].status = bpJob.ledger[x].status
          /\ \A y \in Pairs \ {x} : bpJob'.ledger[y] = bpJob.ledger[y]
      BY <1>2, <2>3 DEF BpRow
    <2> QED
      BY <1>1, <1>2, <1>3, <1>4, <1>5, <2>1, <2>3, <2>4, JobStep
  <1>8. CASE GrantPaid(x)
    <2>1. /\ intel' = [intel EXCEPT ![x] = @ + 1] /\ UNCHANGED bpLost
          /\ bpJob' = [Sealed(x) EXCEPT !.paid = @ + 1] /\ bpJob.ledger[x].status # "granted"
      BY <1>8 DEF GrantPaid, Payable
    <2>2. /\ [bpJob.ledger EXCEPT ![x].status = "granted"] \in [Pairs -> BpRow]
          /\ [bpJob.claim EXCEPT ![x] = "granted"] \in BpClaims
      BY <1>2 DEF BpRow, BpClaims
    <2>3. /\ bpJob' \in BpJobs /\ bpJob'.todo = bpJob.todo \ {x} /\ bpJob'.past = bpJob.past
          /\ bpJob'.paid = bpJob.paid + 1
          /\ bpJob'.claim = [bpJob.claim EXCEPT ![x] = "granted"]
          /\ bpJob'.ledger = [bpJob.ledger EXCEPT ![x].status = "granted"]
      <3>1. Sealed(x) = [bpJob EXCEPT !.todo = bpJob.todo \ {x},
                                      !.claim = [bpJob.claim EXCEPT ![x] = "granted"],
                                      !.ledger = [bpJob.ledger EXCEPT ![x].status = "granted"]]
        BY <1>1 DEF Sealed, BpJobs
      <3>2. /\ Sealed(x) \in BpJobs /\ Sealed(x).todo = bpJob.todo \ {x}
            /\ Sealed(x).past = bpJob.past /\ Sealed(x).paid = bpJob.paid
            /\ Sealed(x).claim = [bpJob.claim EXCEPT ![x] = "granted"]
            /\ Sealed(x).ledger = [bpJob.ledger EXCEPT ![x].status = "granted"]
        BY <1>1, <1>2, <2>2, <3>1 DEF BpJobs
      <3>3. bpJob.paid + 1 \in Nat
        BY <1>2
      <3> QED
        BY <2>1, <3>2, <3>3 DEF BpJobs
    <2>4. /\ bpJob'.ledger[x].status = "granted" /\ bpJob'.claim[x] = "granted"
          /\ intel' \in [Pairs -> Nat] /\ intel'[x] = intel[x] + 1
          /\ \A y \in Pairs \ {x} : /\ bpJob'.ledger[y] = bpJob.ledger[y]
                                    /\ bpJob'.claim[y] = bpJob.claim[y] /\ intel'[y] = intel[y]
      BY <1>2, <1>4, <2>1, <2>3 DEF BpRow, BpClaims
    <2> QED
      BY <1>1, <1>2, <1>3, <1>4, <1>5, <2>1, <2>3, <2>4, JobStep
  <1>9. ASSUME NEW lands \in BOOLEAN, GrantFailsBp(x, lands) PROVE PassInv'
    <2>1. /\ intel' = IF lands THEN [intel EXCEPT ![x] = @ + 1] ELSE intel
          /\ bpLost' = IF lands THEN bpLost + 1 ELSE bpLost
          /\ bpJob' = [bpJob EXCEPT !.todo = @ \ {x}, !.ledger[x] = FailedRow(@)]
          /\ bpJob.ledger[x].status # "granted"
      BY <1>9 DEF GrantFailsBp, Payable
    <2>2. /\ FailedRow(bpJob.ledger[x]) \in BpRow
          /\ FailedRow(bpJob.ledger[x]).status \in {"pending", "exhausted"}
      <3> DEFINE row == bpJob.ledger[x]
                 spent == row.attempts + 1
                 next == IF spent >= BpAttempts THEN "exhausted" ELSE "pending"
      <3>1. row \in BpRow /\ spent \in Nat /\ next \in {"pending", "exhausted"}
        BY <1>2 DEF BpRow
      <3>2. FailedRow(row) = [row EXCEPT !.attempts = spent, !.waiting = TRUE, !.status = next]
        BY DEF FailedRow
      <3> HIDE DEF row, spent, next
      <3>3. /\ FailedRow(row) \in BpRow /\ FailedRow(row).status = next
        BY <3>1, <3>2 DEF BpRow
      <3> QED
        BY <3>1, <3>3 DEF row
    <2>3. [bpJob.ledger EXCEPT ![x] = FailedRow(bpJob.ledger[x])] \in [Pairs -> BpRow]
      BY <1>2, <2>2
    <2>4. /\ bpJob' \in BpJobs /\ bpJob'.todo = bpJob.todo \ {x} /\ bpJob'.past = bpJob.past
          /\ bpJob'.paid = bpJob.paid /\ bpJob'.claim = bpJob.claim
          /\ bpJob'.ledger = [bpJob.ledger EXCEPT ![x] = FailedRow(bpJob.ledger[x])]
      BY <1>1, <1>2, <2>1, <2>3 DEF BpJobs
    <2>5. /\ bpJob'.ledger[x].status \in {"pending", "exhausted"}
          /\ \A y \in Pairs \ {x} : bpJob'.ledger[y] = bpJob.ledger[y]
      BY <1>2, <2>2, <2>4
    <2>6. /\ intel' \in [Pairs -> Nat] /\ bpLost' \in Nat /\ bpLost' >= bpLost
          /\ intel'[x] <= bpLost' /\ intel'[x] >= intel[x]
          /\ \A y \in Pairs \ {x} : intel'[y] = intel[y]
      BY <1>3, <1>4, <2>1
    <2> QED
      BY <1>1, <1>2, <1>3, <1>4, <1>5, <2>1, <2>4, <2>5, <2>6, JobStep
  <1> QED
    BY <1>6, <1>7, <1>8, <1>9

\* The end of a transaction, committed or rolled back.
LEMMA EndSteps ==
  ASSUME PassInv, BpCommits \/ BpRollsBack
  PROVE  PassInv'
  <1>1. bpJob # Nobody /\ bpJob \in BpJobs /\ bpJob' = Nobody
    BY DEF BpCommits, BpRollsBack, PassInv, PassOK
  <1>2. /\ bpJob.claim \in BpClaims /\ bpJob.ledger \in [Pairs -> BpRow]
        /\ bpJob.seen \subseteq Pairs /\ bpJob.paid \in Nat
    BY <1>1 DEF BpJobs
  <1>3. /\ intel \in [Pairs -> Nat] /\ bpLost \in Nat /\ seen \subseteq watched
        /\ watched \subseteq Pairs
    BY DEF PassInv, PassOK
  <1>4. /\ RecordsFit(bpJob.claim, bpJob.ledger)
        /\ \A x \in Pairs :
             /\ bpJob.ledger[x].status # "granted" => intel[x] <= bpLost
             /\ bpJob.claim[x] \in {"earned", "granted"} =>
                  \/ bpClaim[x] \in {"earned", "granted"}
                  \/ bpClaim[x] = "none" /\ (bpJob.past \/ x \in seen)
    BY <1>1 DEF PassInv, JobFits
  <1>5. JobFits'
    BY <1>1 DEF JobFits
  <1>6. CASE BpCommits
    <2>1. /\ bpClaim' = bpJob.claim /\ bpLedger' = bpJob.ledger /\ seen' = bpJob.seen
          /\ watched' = watched \cup (bpJob.seen \ seen) /\ UNCHANGED <<bpConfig, intel, bpLost>>
          /\ pastOn' = pastOn \cup {x \in Pairs : /\ bpJob.past /\ bpClaim[x] = "none"
                                                /\ bpJob.claim[x] \in {"earned", "granted"}}
      BY <1>6 DEF BpCommits
    <2>2. PassOK'
      BY <1>1, <1>2, <1>3, <2>1 DEF PassInv, PassOK
    <2>3. RecordsFit(bpClaim, bpLedger)' /\ UnrecordedLost'
      BY <1>1, <1>4, <2>1 DEF PassInv, UnrecordedLost, RecordsFit
    <2>4. EarnedWatched' /\ (seen \subseteq watched)'
      BY <1>3, <1>4, <2>1 DEF PassInv, EarnedWatched
    <2> QED
      BY <1>5, <2>2, <2>3, <2>4 DEF PassInv
  <1>7. CASE BpRollsBack
    <2>1. bpLost' = bpLost + bpJob.paid /\ UNCHANGED <<bpStore, intel, watched, pastOn>>
      BY <1>7 DEF BpRollsBack
    <2>2. PassOK'
      BY <1>1, <1>2, <1>3, <2>1 DEF PassInv, PassOK, bpStore
    <2>3. \A x \in Pairs : intel[x] \in Nat
      BY <1>3
    <2>4. UnrecordedLost'
      BY <1>1, <1>2, <1>3, <2>1, <2>3 DEF PassInv, UnrecordedLost, bpStore
    <2>5. RecordsFit(bpClaim, bpLedger)' /\ EarnedWatched' /\ (seen \subseteq watched)'
      BY <2>1 DEF PassInv, RecordsFit, EarnedWatched, bpStore
    <2> QED
      BY <1>5, <2>2, <2>4, <2>5 DEF PassInv
  <1> QED
    BY <1>6, <1>7

\* The operator's resets keep what was delivered, and what was lost.
LEMMA SeasonSteps == ASSUME PassInv, Demote \/ Purge PROVE PassInv'
  <1>1. /\ bpJob = Nobody /\ bpJob' = Nobody /\ bpLedger' = KeptRows
        /\ UNCHANGED <<bpConfig, intel, bpLost>>
    BY DEF Demote, Purge, BpOperates, bpHistory
  <1>2. /\ bpLedger \in [Pairs -> BpRow] /\ bpClaim \in BpClaims
        /\ RecordsFit(bpClaim, bpLedger)
    BY DEF PassInv, PassOK
  <1>3. /\ KeptRows \in [Pairs -> BpRow]
        /\ \A x \in Pairs : /\ KeptRows[x].status \in {"none", "granted"}
                            /\ KeptRows[x].status = "granted" <=> bpLedger[x].status = "granted"
    BY <1>2 DEF KeptRows, NoRow, BpRow
  <1>4. /\ bpClaim' \in BpClaims /\ seen' \subseteq watched' /\ watched' \subseteq Pairs
        /\ \A x \in Pairs :
             /\ bpClaim'[x] # "earned"
             /\ bpClaim'[x] = "granted" => bpClaim[x] = "granted" /\ UNCHANGED <<watched, pastOn>>
    BY <1>2 DEF Demote, Purge, PassInv, PassOK, bpHistory, BpClaims
  <1>5. PassOK'
    BY <1>1, <1>3, <1>4 DEF PassInv, PassOK
  <1>6. RecordsFit(bpClaim, bpLedger)'
    BY <1>1, <1>2, <1>3, <1>4 DEF RecordsFit
  <1>7. UnrecordedLost' /\ JobFits'
    BY <1>1, <1>3 DEF PassInv, UnrecordedLost, JobFits
  <1>8. EarnedWatched'
    BY <1>4 DEF PassInv, EarnedWatched
  <1> QED
    BY <1>4, <1>5, <1>6, <1>7, <1>8 DEF PassInv

\* The settings, the game and the clock touch neither a claim nor a record.
LEMMA QuietSteps ==
  ASSUME PassInv,
         \/ \E t \in Tiers : SetTier(t)
         \/ \E cfg \in [past : {bpConfig.past}, auto : {TRUE}] : SetPass(cfg)
         \/ \E a \in Players : LogsInOut(a)
         \/ \E x \in Pairs : Progress(x) \/ RetryComes(x)
         \/ UNCHANGED bpVars
  PROVE  PassInv'
  <1>1. UNCHANGED <<bpClaim, seen, bpJob, intel, bpLost, watched, pastOn>>
    BY DEF SetTier, SetPass, LogsInOut, Progress, RetryComes, bpVars, bpStore, bpGame, bpHistory
  <1>2. bpConfig' \in [past : BOOLEAN, auto : BOOLEAN]
    BY DEF PassInv, PassOK, SetTier, SetPass, LogsInOut, Progress, RetryComes, bpVars, bpStore
  <1>3. /\ bpLedger' \in [Pairs -> BpRow]
        /\ \A x \in Pairs : bpLedger'[x].status = bpLedger[x].status
    <2>1. bpLedger \in [Pairs -> BpRow]
      BY DEF PassInv, PassOK
    <2>2. \/ UNCHANGED bpLedger
          \/ \E x \in Pairs : bpLedger' = [bpLedger EXCEPT ![x].waiting = FALSE]
      BY DEF SetTier, SetPass, LogsInOut, Progress, RetryComes, bpVars, bpStore
    <2>3. ASSUME NEW x \in Pairs, bpLedger' = [bpLedger EXCEPT ![x].waiting = FALSE]
          PROVE  /\ bpLedger' \in [Pairs -> BpRow]
                 /\ \A y \in Pairs : bpLedger'[y].status = bpLedger[y].status
      <3>1. /\ [bpLedger[x] EXCEPT !.waiting = FALSE] \in BpRow
            /\ [bpLedger[x] EXCEPT !.waiting = FALSE].status = bpLedger[x].status
        BY <2>1 DEF BpRow
      <3>2. bpLedger' = [bpLedger EXCEPT ![x] = [bpLedger[x] EXCEPT !.waiting = FALSE]]
        BY <2>3
      <3> QED
        BY <2>1, <3>1, <3>2
    <2> QED
      BY <2>1, <2>2, <2>3
  <1>4. PassOK'
    BY <1>1, <1>2, <1>3 DEF PassInv, PassOK
  <1>5. RecordsFit(bpClaim, bpLedger)' /\ UnrecordedLost'
    BY <1>1, <1>3 DEF PassInv, RecordsFit, UnrecordedLost
  <1>6. JobFits' /\ EarnedWatched' /\ (seen \subseteq watched)'
    BY <1>1 DEF PassInv, JobFits, RecordsFit, EarnedWatched
  <1> QED
    BY <1>4, <1>5, <1>6 DEF PassInv

\* Every reachable state of the battle pass has it.
LEMMA PassInvariant == BpSpec => []PassInv
  <1>1. ASSUME PassInv, [BpNext]_bpVars PROVE PassInv'
    BY <1>1, BeginSteps, DeliverSteps, EndSteps, SeasonSteps, QuietSteps DEF BpNext
  <1> QED
    BY <1>1, PassInvInit, PTL DEF BpSpec

\* What the pass owes its players it keeps, for any players, tiers, faults and
\* operator changes: intel is paid at most once but for landings whose record was
\* lost, only progress it watched is earned, and nothing is sealed unpaid.
THEOREM PassAlwaysSafe == BpSpec => []PassSafe
  <1>1. PassInv => PassSafe
    BY DEF PassInv, PassSafe, IntelOnce, SealedPaid, RecordsFit, UnrecordedLost
  <1> QED
    BY <1>1, PassInvariant, PTL

-----------------------------------------------------------------------------
(* The event engine                                                        *)

ClaimRows == [status : {"none", "pending", "granted", "exhausted"}, cursor : Rewards, at : Nat,
              attempts : Nat, waiting : BOOLEAN]
ClaimTables == [Events -> [Accounts -> ClaimRows]]
Ticks == [at : {"out", "backfill", "events", "pick", "pay"}, boot : BOOLEAN,
          events : SUBSET Events, players : SUBSET Accounts, event : Events \cup {NoOne},
          todo : SUBSET Accounts, mode : {"event", "backfill", "retry"},
          account : Accounts \cup {NoOne}, plan : Seq(RewardSteps), full : Rewards,
          claim : ClaimTables, due : [Events -> BOOLEAN], paid : BOOLEAN]

\* The shape of the store, the game and the ticks.
EngineOK ==
  /\ claim \in ClaimTables /\ reward \in [Events -> Rewards] /\ evDue \in [Events -> BOOLEAN]
  /\ connected \subseteq Accounts /\ job \in [Tickers -> Ticks] /\ lock \in Tickers \cup {NoOne}
  /\ landed \in [Events -> [Accounts -> [RewardSteps -> Nat]]] /\ lost \in Nat
  /\ sealed \in [Events -> [Accounts -> Rewards]]

\* A delivery that is to be resumed has landed every step before the one it
\* resumes with.
ClaimSound(c, l) ==
  /\ c.status = "none" => c.cursor = <<>>
  /\ c.status = "pending" =>
       /\ c.cursor # <<>> /\ c.at \in 1..Len(c.cursor)
       /\ \A k \in 1..(c.at - 1) : l[c.cursor[k]] >= 1

\* Whatever a claim still owes has landed only where a record was lost.
ClaimOwes(c, l, n) ==
  /\ c.status = "none" => \A s \in RewardSteps : l[s] <= n
  /\ c.status = "pending" =>
       \A s \in RewardSteps : l[s] <= n \/ \E k \in 1..(c.at - 1) : s = c.cursor[k]

\* A delivery under way: its plan is the rest of the reward, from step i on.
PlanFits(plan, full, l, n) ==
  \E i \in 1..(Len(full) + 1) :
    /\ plan = SubSeq(full, i, Len(full))
    /\ \A k \in 1..(i - 1) : l[full[k]] >= 1
    /\ plan # <<>> =>
         \A s \in RewardSteps : l[s] <= n \/ \E k \in 1..(i - 1) : s = full[k]

\* What the uncommitted tables of a tick hold.
TickFits(j, ls, n) ==
  /\ \A e \in Events, a \in Accounts :
       \/ j.at = "pay" /\ e = j.event /\ a = j.account
       \/ ClaimSound(j.claim[e][a], ls[e][a]) /\ ClaimOwes(j.claim[e][a], ls[e][a], n)
  /\ j.at \in {"pick", "pay"} =>
       /\ j.event \in Events
       /\ \A a \in j.todo : /\ j.claim[j.event][a].status \in {"none", "pending"}
                            /\ j.mode = "retry" => j.claim[j.event][a].status = "pending"
  /\ j.at = "pay" =>
       /\ j.account \in Accounts
       /\ PlanFits(j.plan, j.full, ls[j.event][j.account], n)

EngineInv ==
  /\ EngineOK /\ PaidTwiceOnlyIfLost
  /\ \A e \in Events, a \in Accounts :
       /\ ClaimSound(claim[e][a], landed[e][a])
       /\ lock = NoOne \/ ~job[lock].paid => ClaimOwes(claim[e][a], landed[e][a], lost)
       /\ \A s \in ToSet(sealed[e][a]) : landed[e][a][s] >= 1
  /\ lock # NoOne => TickFits(job[lock], landed, lost)

\* What a reward is: distinct steps, each one of RewardSteps.
LEMMA RewardFacts ==
  ASSUME NEW full \in Rewards
  PROVE  /\ full \in Seq(RewardSteps) /\ Len(full) \in Nat
         /\ \A k \in 1..Len(full) : full[k] \in RewardSteps
         /\ \A k, m \in 1..Len(full) : full[k] = full[m] => k = m
         /\ \A s \in ToSet(full) : \E k \in 1..Len(full) : s = full[k]
  <1>1. full \in Seq(ToSet(full)) /\ IsInjective(full)
    BY EventAssumption DEF EventAssumption
  <1>2. ToSet(full) \subseteq RewardSteps
    BY DEF RewardSteps
  <1>3. full \in Seq(RewardSteps)
    BY <1>1, <1>2
  <1>4. DOMAIN full = 1..Len(full) /\ Len(full) \in Nat
    BY <1>3
  <1> QED
    BY <1>1, <1>3, <1>4 DEF IsInjective, ToSet

\* Taking up a delivery: what remains of the reward is the rest of it.
LEMMA RemainingFits ==
  ASSUME NEW c \in ClaimRows, NEW full \in Rewards, NEW l, NEW n,
         c.status \in {"none", "pending"}, ClaimSound(c, l), ClaimOwes(c, l, n),
         full = <<>> \/ CursorMatches(c, full)
  PROVE  /\ Remaining(c, full) \in Seq(RewardSteps)
         /\ PlanFits(Remaining(c, full), full, l, n)
  <1>1. full \in Seq(RewardSteps) /\ Len(full) \in Nat /\ c.at \in Nat
    BY RewardFacts DEF ClaimRows
  <1>2. CASE c.status = "none"
    <2>1. Remaining(c, full) = full /\ SubSeq(full, 1, Len(full)) = full
      BY <1>1, <1>2, SubSeqProperties DEF Remaining, ClaimSound
    <2>2. 1 \in 1..(Len(full) + 1) /\ 1..(1 - 1) = {}
      BY <1>1
    <2> QED
      BY <1>1, <1>2, <2>1, <2>2 DEF PlanFits, ClaimOwes
  <1>3. CASE c.status = "pending" /\ full = <<>>
    <2>1. Len(full) = 0 /\ c.at \in Int /\ c.at >= 1
      BY <1>1, <1>3 DEF ClaimSound
    <2>2. SubSeq(full, c.at, Len(full)) = <<>> /\ SubSeq(full, 1, Len(full)) = <<>>
      BY <1>1, <2>1, SubSeqProperties, EmptySeq
    <2>3. Remaining(c, full) = <<>>
      BY <1>3, <2>2 DEF Remaining, ClaimSound
    <2>4. 1 \in 1..(Len(full) + 1) /\ 1..(1 - 1) = {}
      BY <1>1
    <2> QED
      BY <1>1, <1>3, <2>2, <2>3, <2>4 DEF PlanFits
  <1>4. CASE c.status = "pending" /\ full # <<>>
    <2>1. /\ c.cursor = full /\ c.at \in 1..Len(full)
          /\ \A k \in 1..(c.at - 1) : l[full[k]] >= 1
          /\ \A s \in RewardSteps : l[s] <= n \/ \E k \in 1..(c.at - 1) : s = full[k]
      BY <1>4 DEF ClaimSound, ClaimOwes, CursorMatches
    <2>2. Remaining(c, full) = SubSeq(full, c.at, Len(full))
      BY <1>4, <2>1 DEF Remaining
    <2>3. c.at \in 1..(Len(full) + 1) /\ SubSeq(full, c.at, Len(full)) \in Seq(RewardSteps)
      BY <1>1, <2>1, SubSeqProperties
    <2> QED
      BY <2>1, <2>2, <2>3 DEF PlanFits
  <1> QED
    BY <1>2, <1>3, <1>4

\* The next step of a plan: which one it is, and what is known when it is paid.
LEMMA PlanHead ==
  ASSUME NEW full \in Rewards, NEW plan \in Seq(RewardSteps), NEW l, NEW n,
         PlanFits(plan, full, l, n), plan # <<>>
  PROVE  LET i == Len(full) - Len(plan) + 1 IN
         /\ i \in 1..Len(full) /\ Head(plan) = full[i] /\ Head(plan) \in RewardSteps
         /\ Tail(plan) = SubSeq(full, i + 1, Len(full))
         /\ \A k \in 1..(i - 1) : l[full[k]] >= 1
         /\ \A s \in RewardSteps : l[s] <= n \/ \E k \in 1..(i - 1) : s = full[k]
         /\ l[Head(plan)] <= n
  <1>1. PICK i \in 1..(Len(full) + 1) :
          /\ plan = SubSeq(full, i, Len(full))
          /\ \A k \in 1..(i - 1) : l[full[k]] >= 1
          /\ \A s \in RewardSteps : l[s] <= n \/ \E k \in 1..(i - 1) : s = full[k]
    BY DEF PlanFits
  <1>2. full \in Seq(RewardSteps) /\ Len(full) \in Nat /\ i \in Int /\ i >= 1
    BY RewardFacts
  <1>3. i <= Len(full)
    <2> SUFFICES ASSUME ~(i <= Len(full)) PROVE FALSE
      OBVIOUS
    <2>1. SubSeq(full, i, Len(full)) = <<>>
      BY <1>2, SubSeqProperties, EmptySeq
    <2> QED
      BY <1>1, <2>1
  <1>4. /\ Len(plan) = Len(full) - i + 1
        /\ \A k \in 1..(Len(full) - i + 1) : plan[k] = full[i + k - 1]
    BY <1>1, <1>2, <1>3, SubSeqProperties
  <1>5. i = Len(full) - Len(plan) + 1
    BY <1>2, <1>4
  <1>6. Head(plan) = full[i] /\ full[i] \in RewardSteps
    BY <1>2, <1>3, <1>4, RewardFacts
  <1>7. Tail(plan) = SubSeq(full, i + 1, Len(full))
    BY <1>1, <1>2, <1>3, SubSeqProperties, HeadTailProperties
  <1>8. l[full[i]] <= n
    BY <1>1, <1>2, <1>3, <1>6, RewardFacts
  <1>9. i \in 1..Len(full)
    BY <1>2, <1>3
  <1> QED
    BY <1>1, <1>5, <1>6, <1>7, <1>8, <1>9, Zenon

\* A table in which one claim is rewritten.
LEMMA ClaimWritten ==
  ASSUME NEW t \in ClaimTables, NEW e \in Events, NEW a \in Accounts, NEW c \in ClaimRows
  PROVE  LET u == [t EXCEPT ![e][a] = c] IN
         /\ u \in ClaimTables /\ u[e][a] = c
         /\ \A f \in Events, b \in Accounts : f # e \/ b # a => u[f][b] = t[f][b]
  BY DEF ClaimTables

\* What a claim owes and has behind it stays true when more is written off as
\* lost, and when more lands than is written off in its place.
LEMMA MoreLost ==
  ASSUME NEW c \in ClaimRows, NEW l \in [RewardSteps -> Nat], NEW n \in Nat, NEW s \in RewardSteps,
         ClaimSound(c, l)
  PROVE  /\ ClaimSound(c, [l EXCEPT ![s] = @ + 1])
         /\ ClaimOwes(c, l, n) => /\ ClaimOwes(c, l, n + 1)
                                  /\ ClaimOwes(c, [l EXCEPT ![s] = @ + 1], n + 1)
  <1>1. /\ \A x \in RewardSteps : l[x] \in Nat
        /\ c.cursor \in Rewards
    BY DEF ClaimRows
  <1> DEFINE m == [l EXCEPT ![s] = @ + 1]
  <1>2. \A x \in RewardSteps : m[x] \in Nat /\ l[x] <= m[x] /\ m[x] <= l[x] + 1
    BY <1>1
  <1> HIDE DEF m
  <1>3. c.status = "pending" => \A k \in 1..(c.at - 1) : c.cursor[k] \in RewardSteps
    BY <1>1, RewardFacts DEF ClaimSound, ClaimRows
  <1>4. ClaimSound(c, m)
    BY <1>1, <1>2, <1>3 DEF ClaimSound
  <1>5. ClaimOwes(c, l, n) => ClaimOwes(c, l, n + 1) /\ ClaimOwes(c, m, n + 1)
    <2>1. \A x \in RewardSteps : l[x] <= n => l[x] <= n + 1 /\ m[x] <= n + 1
      BY <1>1, <1>2
    <2> QED
      BY <2>1 DEF ClaimOwes
  <1> QED
    BY <1>4, <1>5 DEF m

\* The claims an outcome leaves behind.
LEMMA OutcomeRows ==
  ASSUME NEW c \in ClaimRows
  PROVE  /\ GrantedClaim(c) \in ClaimRows /\ GrantedClaim(c).status = "granted"
         /\ RefusedClaim(c) \in ClaimRows /\ RefusedClaim(c).status = "exhausted"
         /\ \A cursor \in Rewards, at \in Nat :
              /\ FailedClaim(c, cursor, at) \in ClaimRows
              /\ FailedClaim(c, cursor, at).status \in {"pending", "exhausted"}
              /\ FailedClaim(c, cursor, at).cursor = cursor /\ FailedClaim(c, cursor, at).at = at
  <1>1. <<>> \in Rewards /\ MaxAttempts \in Nat
    BY EventAssumption DEF EventAssumption
  <1>2. c.attempts + 1 \in Nat
    BY DEF ClaimRows
  <1>3. GrantedClaim(c) \in ClaimRows /\ GrantedClaim(c).status = "granted"
    BY <1>1 DEF GrantedClaim, ClaimRows
  <1>4. RefusedClaim(c) \in ClaimRows /\ RefusedClaim(c).status = "exhausted"
    BY <1>1 DEF RefusedClaim, ClaimRows
  <1>5. ASSUME NEW cursor \in Rewards, NEW at \in Nat
        PROVE  /\ FailedClaim(c, cursor, at) \in ClaimRows
               /\ FailedClaim(c, cursor, at).status \in {"pending", "exhausted"}
               /\ FailedClaim(c, cursor, at).cursor = cursor
               /\ FailedClaim(c, cursor, at).at = at
    BY <1>2 DEF FailedClaim, ClaimRows
  <1> QED
    BY <1>3, <1>4, <1>5

\* The invariant holds at first.
LEMMA EngineInvInit == ASSUME EventInit PROVE EngineInv
  <1>1. <<>> \in Rewards /\ NoOne \notin Tickers
    BY EventAssumption DEF EventAssumption
  <1>2. NoClaim \in ClaimRows /\ NoClaim.status = "none" /\ NoClaim.cursor = <<>>
    BY <1>1 DEF NoClaim, ClaimRows
  <1>3. [e \in Events |-> [a \in Accounts |-> NoClaim]] \in ClaimTables
    BY <1>2 DEF ClaimTables
  <1>4. Out \in Ticks
    BY <1>1, <1>3 DEF Out, Ticks
  <1>5. EngineOK
    BY <1>1, <1>3, <1>4 DEF EventInit, EngineOK
  <1>6. ASSUME NEW e \in Events, NEW a \in Accounts
        PROVE  /\ claim[e][a] = NoClaim /\ sealed[e][a] = <<>>
               /\ \A s \in RewardSteps : landed[e][a][s] = 0
    BY DEF EventInit
  <1>7. lost = 0 /\ lock = NoOne
    BY DEF EventInit
  <1>8. \A e \in Events, a \in Accounts :
          /\ ClaimSound(claim[e][a], landed[e][a])
          /\ ClaimOwes(claim[e][a], landed[e][a], lost)
    BY <1>2, <1>6, <1>7 DEF ClaimSound, ClaimOwes
  <1>9. ToSet(<<>>) = {}
    BY DEF ToSet
  <1>10. PaidTwiceOnlyIfLost
    BY <1>6, <1>7 DEF PaidTwiceOnlyIfLost
  <1> QED
    BY <1>5, <1>6, <1>7, <1>8, <1>9, <1>10 DEF EngineInv

\* A step of a tick that pays nothing: it turns the tick into j.
LEMMA TickTurns ==
  ASSUME EngineInv, NEW p \in Tickers, NEW j \in Ticks, lock = p, Turn(p, j),
         j.paid = job[p].paid, TickFits(j, landed, lost),
         UNCHANGED <<claim, reward, evDue, connected, lock, landed, lost>>,
         sealed' \in [Events -> [Accounts -> Rewards]],
         \A e \in Events, a \in Accounts : \A s \in ToSet(sealed'[e][a]) : landed[e][a][s] >= 1
  PROVE  EngineInv'
  <1>1. EngineOK /\ lock # NoOne
    BY EventAssumption DEF EngineInv, EventAssumption
  <1>2. job' = [job EXCEPT ![p] = j] /\ job' \in [Tickers -> Ticks] /\ job'[p] = j
    BY <1>1 DEF EngineOK, Turn
  <1>3. EngineOK'
    BY <1>1, <1>2 DEF EngineOK
  <1>4. PaidTwiceOnlyIfLost'
    BY DEF EngineInv, PaidTwiceOnlyIfLost
  <1>5. \A e \in Events, a \in Accounts :
          /\ ClaimSound(claim'[e][a], landed'[e][a])
          /\ lock' = NoOne \/ ~job'[lock'].paid => ClaimOwes(claim'[e][a], landed'[e][a], lost')
          /\ \A s \in ToSet(sealed'[e][a]) : landed'[e][a][s] >= 1
    BY <1>1, <1>2 DEF EngineInv
  <1> QED
    BY <1>2, <1>3, <1>4, <1>5 DEF EngineInv

\* What is known inside a tick.
LEMMA InTick ==
  ASSUME EngineInv, NEW p \in Tickers, lock = p
  PROVE  /\ job[p] \in Ticks /\ TickFits(job[p], landed, lost) /\ lock # NoOne
         /\ \A e \in Events, a \in Accounts : job[p].claim[e][a] \in ClaimRows
  <1>1. lock # NoOne
    BY EventAssumption DEF EventAssumption
  <1>2. job[p] \in Ticks
    BY DEF EngineInv, EngineOK
  <1> QED
    BY <1>1, <1>2 DEF EngineInv, Ticks, ClaimTables

\* A tick goes from one event to the next, and chooses whose outcomes are due.
LEMMA WalkSteps ==
  ASSUME EngineInv, NEW p \in Tickers,
         \/ BackfillDone(p) \/ OutcomesDone(p)
         \/ \E e \in Events : \/ BackfillEvent(p, e) \/ EvaluateEvent(p, e)
                            \/ \E a \in Accounts : RetryClaim(p, e, a)
  PROVE  EngineInv'
  <1>1. lock = p /\ job[p].at \in {"backfill", "events", "pick"}
    BY DEF BackfillDone, OutcomesDone, BackfillEvent, EvaluateEvent, RetryClaim, Works
  <1>2. /\ job[p] \in Ticks /\ TickFits(job[p], landed, lost)
        /\ \A e \in Events, a \in Accounts : job[p].claim[e][a] \in ClaimRows
    BY <1>1, InTick
  <1>3. UNCHANGED <<eventStore, eventGame, lock, eventHistory>>
    BY DEF BackfillDone, OutcomesDone, BackfillEvent, EvaluateEvent, RetryClaim
  <1> DEFINE Walks(j) ==
        /\ j \in Ticks /\ j.claim = job[p].claim /\ j.paid = job[p].paid
        /\ j.at \in {"backfill", "events", "pick"}
        /\ j.at = "pick" =>
             /\ j.event \in Events
             /\ \A a \in j.todo : /\ j.claim[j.event][a].status \in {"none", "pending"}
                                  /\ j.mode = "retry" => j.claim[j.event][a].status = "pending"
  <1>4. ASSUME NEW j, Turn(p, j), Walks(j) PROVE EngineInv'
    <2>1. TickFits(j, landed, lost)
      BY <1>1, <1>2, <1>4 DEF TickFits
    <2>2. /\ sealed' \in [Events -> [Accounts -> Rewards]]
          /\ \A e \in Events, a \in Accounts :
               \A s \in ToSet(sealed'[e][a]) : landed[e][a][s] >= 1
      BY <1>3 DEF EngineInv, EngineOK, eventHistory
    <2> QED
      BY <1>1, <1>3, <1>4, <2>1, <2>2, TickTurns DEF eventStore, eventGame, eventHistory
  <1>5. CASE BackfillDone(p)
    <2> DEFINE todo == {e \in Events : evEnabled[e] /\ job[p].due[e]}
               j == [job[p] EXCEPT !.at = "events", !.events = todo]
    <2>1. Turn(p, j)
      BY <1>5 DEF BackfillDone
    <2>2. todo \in SUBSET Events
      OBVIOUS
    <2> HIDE DEF todo
    <2>3. Walks(j)
      BY <1>2, <2>2 DEF Ticks
    <2> QED
      BY <1>4, <2>1, <2>3
  <1>6. CASE OutcomesDone(p)
    <2> DEFINE at == IF job[p].at = "pick" /\ job[p].mode = "backfill" THEN "backfill" ELSE "events"
               j == [job[p] EXCEPT !.at = at, !.event = NoOne]
    <2>1. Turn(p, j)
      BY <1>2, <1>6 DEF OutcomesDone, Ticks
    <2>2. at \in {"backfill", "events"}
      OBVIOUS
    <2> HIDE DEF at
    <2>3. Walks(j)
      BY <1>2, <2>2 DEF Ticks
    <2> QED
      BY <1>4, <2>1, <2>3
  <1>7. ASSUME NEW e \in Events, BackfillEvent(p, e) PROVE EngineInv'
    <2> DEFINE todo == IF kind[e] = "zone_race" THEN {}
                       ELSE {a \in job[p].players \cap qualified[e] :
                               job[p].claim[e][a].status = "none"}
               j == [job[p] EXCEPT !.at = "pick", !.mode = "backfill", !.event = e,
                                   !.events = job[p].events \ {e}, !.todo = todo]
    <2>1. Turn(p, j)
      BY <1>2, <1>7 DEF BackfillEvent, Ticks
    <2>2. todo \in SUBSET Accounts /\ \A a \in todo : job[p].claim[e][a].status = "none"
      BY <1>2 DEF Ticks
    <2>3. job[p].events \ {e} \in SUBSET Events
      BY <1>2 DEF Ticks
    <2> HIDE DEF todo
    <2>4. Walks(j)
      BY <1>2, <2>2, <2>3 DEF Ticks
    <2> QED
      BY <1>4, <2>1, <2>4
  <1>8. ASSUME NEW e \in Events, EvaluateEvent(p, e) PROVE EngineInv'
    <2> DEFINE todo == {a \in job[p].players \cap qualified[e] :
                          job[p].claim[e][a].status \notin {"granted", "exhausted"}}
               due == [job[p].due EXCEPT ![e] = FALSE]
               j == [job[p] EXCEPT !.at = "pick", !.mode = "event", !.event = e,
                                   !.events = job[p].events \ {e}, !.due = due, !.todo = todo]
    <2>1. Turn(p, j)
      BY <1>2, <1>8 DEF EvaluateEvent, Ticks
    <2>2. /\ todo \in SUBSET Accounts
          /\ \A a \in todo : job[p].claim[e][a].status \in {"none", "pending"}
      BY <1>2 DEF Ticks, ClaimRows
    <2>3. job[p].events \ {e} \in SUBSET Events /\ due \in [Events -> BOOLEAN]
      BY <1>2 DEF Ticks
    <2> HIDE DEF todo, due
    <2>4. Walks(j)
      BY <1>2, <2>2, <2>3 DEF Ticks
    <2> QED
      BY <1>4, <2>1, <2>4
  <1>9. ASSUME NEW e \in Events, NEW a \in Accounts, RetryClaim(p, e, a) PROVE EngineInv'
    <2> DEFINE j == [job[p] EXCEPT !.at = "pick", !.mode = "retry", !.event = e, !.todo = {a}]
    <2>1. Turn(p, j) /\ job[p].claim[e][a].status = "pending"
      BY <1>9 DEF RetryClaim
    <2>2. Walks(j)
      BY <1>2, <2>1 DEF Ticks
    <2> QED
      BY <1>4, <2>1, <2>2
  <1> QED
    BY <1>5, <1>6, <1>7, <1>8, <1>9

\* Writing one claim of a tick, while no other is being paid.
LEMMA ClaimFits ==
  ASSUME EngineInv, NEW p \in Tickers, lock = p, NEW e \in Events, NEW a \in Accounts,
         NEW c \in ClaimRows, NEW j \in Ticks, NEW l, NEW n,
         job[p].at \in {"pick", "pay"}, job[p].at = "pay" => a = job[p].account,
         e = job[p].event, j.mode = job[p].mode, j.at \in {"pick", "events"}, j.at = "pick" => j.event = e,
         j.claim = [job[p].claim EXCEPT ![e][a] = c], j.todo \subseteq job[p].todo \ {a},
         ClaimSound(c, l[e][a]), ClaimOwes(c, l[e][a], n),
         \A f \in Events, b \in Accounts : f # e \/ b # a =>
           l[f][b] = landed[f][b] /\ (n = lost \/ n = lost + 1)
  PROVE  TickFits(j, l, n)
  <1>1. /\ job[p] \in Ticks /\ TickFits(job[p], landed, lost)
        /\ \A f \in Events, b \in Accounts : job[p].claim[f][b] \in ClaimRows
    BY InTick
  <1>2. job[p].claim \in ClaimTables /\ job[p].todo \subseteq Accounts
    BY <1>1 DEF Ticks
  <1>3. /\ j.claim[e][a] = c
        /\ \A f \in Events, b \in Accounts : f # e \/ b # a => j.claim[f][b] = job[p].claim[f][b]
    <2> DEFINE t == job[p].claim
               u == [t EXCEPT ![e][a] = c]
    <2>1. t \in ClaimTables /\ j.claim = u
      BY <1>2
    <2> HIDE DEF t
    <2>2. u[e][a] = c /\ \A f \in Events, b \in Accounts : f # e \/ b # a => u[f][b] = t[f][b]
      BY <2>1, SMT DEF ClaimTables
    <2> HIDE DEF u
    <2> QED
      BY <2>1, <2>2 DEF t
  <1>4. lost \in Nat /\ landed \in [Events -> [Accounts -> [RewardSteps -> Nat]]]
    BY DEF EngineInv, EngineOK
  <1>5. ASSUME NEW f \in Events, NEW b \in Accounts, f # e \/ b # a
        PROVE  ClaimSound(j.claim[f][b], l[f][b]) /\ ClaimOwes(j.claim[f][b], l[f][b], n)
    <2>1. /\ ClaimSound(job[p].claim[f][b], landed[f][b])
          /\ ClaimOwes(job[p].claim[f][b], landed[f][b], lost)
      BY <1>1, <1>5 DEF TickFits
    <2>2. landed[f][b] \in [RewardSteps -> Nat]
      BY <1>4
    <2>3. ClaimOwes(job[p].claim[f][b], landed[f][b], lost + 1)
      <3>1. \A s \in RewardSteps : landed[f][b][s] <= lost => landed[f][b][s] <= lost + 1
        BY <1>4, <2>2
      <3> QED
        BY <2>1, <3>1 DEF ClaimOwes
    <2> QED
      BY <1>3, <1>5, <2>1, <2>3
  <1>6. j.at = "pick" =>
          \A b \in j.todo : /\ j.claim[j.event][b].status \in {"none", "pending"}
                            /\ j.mode = "retry" => j.claim[j.event][b].status = "pending"
    BY <1>1, <1>2, <1>3 DEF TickFits
  <1> QED
    BY <1>3, <1>5, <1>6 DEF TickFits

\* An outcome is taken up, refused, or given up because its account is gone.
LEMMA JudgeSteps ==
  ASSUME EngineInv, NEW p \in Tickers, NEW a \in Accounts,
         BeginOutcome(p, a) \/ RetryUnresolved(p, a)
  PROVE  EngineInv'
  <1> DEFINE e == job[p].event
             c == job[p].claim[e][a]
  <1>1. lock = p /\ job[p].at = "pick" /\ a \in job[p].todo
    BY DEF BeginOutcome, RetryUnresolved, Works
  <1>2. /\ job[p] \in Ticks /\ TickFits(job[p], landed, lost)
        /\ \A f \in Events, b \in Accounts : job[p].claim[f][b] \in ClaimRows
    BY <1>1, InTick
  <1>3. e \in Events /\ c \in ClaimRows /\ c.status \in {"none", "pending"}
    <2>1. /\ job[p].event \in Events
          /\ \A b \in job[p].todo : job[p].claim[job[p].event][b].status \in {"none", "pending"}
      BY <1>1, <1>2 DEF TickFits
    <2> QED
      BY <1>1, <1>2, <2>1
  <1>4. ClaimSound(c, landed[e][a]) /\ ClaimOwes(c, landed[e][a], lost)
    BY <1>1, <1>2, <1>3 DEF TickFits
  <1>5. UNCHANGED <<eventStore, eventGame, lock, eventHistory>>
    BY DEF BeginOutcome, RetryUnresolved
  <1>6. /\ sealed' \in [Events -> [Accounts -> Rewards]]
        /\ \A f \in Events, b \in Accounts :
             \A s \in ToSet(sealed'[f][b]) : landed[f][b][s] >= 1
    BY <1>5 DEF EngineInv, EngineOK, eventHistory
  <1>7. ASSUME NEW j \in Ticks, Turn(p, j), j.paid = job[p].paid, TickFits(j, landed, lost)
        PROVE  EngineInv'
    BY <1>1, <1>5, <1>6, <1>7, TickTurns DEF eventStore, eventGame, eventHistory
  <1> HIDE DEF e
  <1>8. ASSUME NEW d \in ClaimRows, ClaimSound(d, landed[e][a]), ClaimOwes(d, landed[e][a], lost),
               NEW at \in {"pick", "events"}, NEW todo \in SUBSET (job[p].todo \ {a}),
               Turn(p, [job[p] EXCEPT !.at = at, !.todo = todo,
                                      !.claim = [job[p].claim EXCEPT ![e][a] = d]])
        PROVE  EngineInv'
    <2> DEFINE t == [job[p].claim EXCEPT ![e][a] = d]
               j == [job[p] EXCEPT !.at = at, !.todo = todo, !.claim = t]
    <2>1. t \in ClaimTables
      BY <1>2, <1>3, <1>8, ClaimWritten DEF Ticks
    <2>2. todo \in SUBSET Accounts
      BY <1>2 DEF Ticks
    <2> HIDE DEF t
    <2>3. /\ j \in Ticks /\ j.paid = job[p].paid /\ j.at = at /\ j.claim = t /\ j.todo = todo
          /\ j.event = job[p].event /\ j.mode = job[p].mode
      BY <1>2, <2>1, <2>2 DEF Ticks
    <2> HIDE DEF j
    <2>4. t = [job[p].claim EXCEPT ![e][a] = d]
      BY DEF t
    <2>5. TickFits(j, landed, lost)
      <3>1. e = job[p].event
        BY DEF e
      <3> QED
        BY <1>1, <1>3, <1>8, <2>3, <2>4, <3>1, ClaimFits
    <2>6. Turn(p, j)
      BY <1>8 DEF j, t
    <2> QED
      BY <1>7, <2>3, <2>5, <2>6
  <1>9. CASE RetryUnresolved(p, a)
    <2> DEFINE d == FailedClaim(c, c.cursor, c.at)
    <2>1. /\ d \in ClaimRows /\ d.cursor = c.cursor /\ d.at = c.at
          /\ d.status \in {"pending", "exhausted"}
      <3>1. c.cursor \in Rewards /\ c.at \in Nat
        BY <1>3 DEF ClaimRows
      <3> HIDE DEF c
      <3> QED
        BY <1>3, <3>1, OutcomeRows
    <2>2. c.status = "pending"
      BY <1>1, <1>2, <1>3, <1>9 DEF RetryUnresolved, TickFits, e
    <2>3. ClaimSound(d, landed[e][a]) /\ ClaimOwes(d, landed[e][a], lost)
      BY <1>4, <2>1, <2>2 DEF ClaimSound, ClaimOwes
    <2>4. Turn(p, [job[p] EXCEPT !.at = "events", !.todo = {}, !.claim[e][a] = d])
      BY <1>9 DEF RetryUnresolved, e
    <2> HIDE DEF d
    <2>5. Turn(p, [job[p] EXCEPT !.at = "events", !.todo = {},
                                 !.claim = [job[p].claim EXCEPT ![e][a] = d]])
      BY <1>2, <2>4 DEF Ticks
    <2>6. {} \in SUBSET (job[p].todo \ {a})
      OBVIOUS
    <2> QED
      BY <1>8, <2>1, <2>3, <2>5, <2>6
  <1>10. CASE BeginOutcome(p, a)
    <2> DEFINE full == IF job[p].mode = "backfill" /\ ~awardPast[e] THEN <<>> ELSE reward[e]
               todo == IF kind[e] = "zone_race" /\ job[p].mode = "event" THEN {}
                       ELSE job[p].todo \ {a}
               d == RefusedClaim(c)
               plan == Remaining(c, full)
               j == [job[p] EXCEPT !.account = a, !.full = full, !.plan = plan, !.at = "pay"]
    <2>1. full \in Rewards
      BY <1>3, EventAssumption DEF EventAssumption, EngineInv, EngineOK
    <2>2. CASE full # <<>> /\ ~CursorMatches(c, full)
      <3>1. Turn(p, [job[p] EXCEPT !.claim[e][a] = d, !.todo = todo])
        BY <1>10, <2>2 DEF BeginOutcome, e
      <3>2. d \in ClaimRows /\ d.status = "exhausted"
        BY <1>3, OutcomeRows
      <3>3. ClaimSound(d, landed[e][a]) /\ ClaimOwes(d, landed[e][a], lost)
        BY <3>2 DEF ClaimSound, ClaimOwes
      <3>4. todo \in SUBSET (job[p].todo \ {a})
        OBVIOUS
      <3> HIDE DEF d, todo
      <3>5. Turn(p, [job[p] EXCEPT !.at = "pick", !.todo = todo,
                                   !.claim = [job[p].claim EXCEPT ![e][a] = d]])
        BY <1>1, <1>2, <3>1 DEF Ticks
      <3> QED
        BY <1>8, <3>2, <3>3, <3>4, <3>5
    <2>3. CASE full = <<>> \/ CursorMatches(c, full)
      <3>1. Turn(p, j)
        BY <1>10, <2>3 DEF BeginOutcome, e
      <3>2. plan \in Seq(RewardSteps) /\ PlanFits(plan, full, landed[e][a], lost)
        BY <1>3, <1>4, <2>1, <2>3, RemainingFits
      <3> HIDE DEF plan, full
      <3>3. /\ j \in Ticks /\ j.paid = job[p].paid /\ j.at = "pay" /\ j.claim = job[p].claim
            /\ j.event = job[p].event /\ j.account = a /\ j.plan = plan /\ j.full = full
            /\ j.todo = job[p].todo /\ j.mode = job[p].mode
        BY <1>2, <2>1, <3>2 DEF Ticks
      <3> HIDE DEF j
      <3>4. TickFits(j, landed, lost)
        BY <1>1, <1>2, <1>3, <3>2, <3>3 DEF TickFits, e
      <3> QED
        BY <1>7, <3>1, <3>3, <3>4
    <2> QED
      BY <2>2, <2>3
  <1> QED
    BY <1>9, <1>10

\* The tick that goes on to the next account.
LEMMA AccountDone ==
  ASSUME NEW p \in Tickers, job[p] \in Ticks, NEW t \in ClaimTables
  PROVE  /\ Next1(p, t) \in Ticks /\ Next1(p, t).at = "pick" /\ Next1(p, t).claim = t
         /\ Next1(p, t).event = job[p].event /\ Next1(p, t).mode = job[p].mode
         /\ Next1(p, t).paid = job[p].paid
         /\ Next1(p, t).todo \subseteq job[p].todo \ {job[p].account}
  <1> DEFINE todo == IF kind[job[p].event] = "zone_race" /\ job[p].mode = "event" THEN {}
                     ELSE job[p].todo \ {job[p].account}
  <1>1. Next1(p, t) = [job[p] EXCEPT !.at = "pick", !.claim = t, !.account = NoOne, !.plan = <<>>,
                                     !.todo = todo]
    BY DEF Next1, Ticks
  <1>2. /\ todo \in SUBSET Accounts /\ todo \subseteq job[p].todo \ {job[p].account}
        /\ <<>> \in Seq(RewardSteps)
    BY EmptySeq DEF Ticks
  <1> HIDE DEF todo
  <1> QED
    BY <1>1, <1>2 DEF Ticks

\* What is known while an account is paid.
LEMMA WhilePaying ==
  ASSUME EngineInv, NEW p \in Tickers, Works(p, "pay")
  PROVE  /\ lock = p /\ job[p] \in Ticks /\ job[p].event \in Events /\ job[p].account \in Accounts
         /\ job[p].claim[job[p].event][job[p].account] \in ClaimRows
         /\ job[p].full \in Rewards /\ job[p].plan \in Seq(RewardSteps)
         /\ job[p].claim \in ClaimTables
         /\ PlanFits(job[p].plan, job[p].full, landed[job[p].event][job[p].account], lost)
  <1>1. lock = p /\ job[p].at = "pay"
    BY DEF Works
  <1>2. /\ job[p] \in Ticks /\ TickFits(job[p], landed, lost)
        /\ \A f \in Events, b \in Accounts : job[p].claim[f][b] \in ClaimRows
    BY <1>1, InTick
  <1>3. /\ job[p].event \in Events /\ job[p].account \in Accounts
        /\ PlanFits(job[p].plan, job[p].full, landed[job[p].event][job[p].account], lost)
    BY <1>1, <1>2 DEF TickFits
  <1>4. job[p].full \in Rewards /\ job[p].plan \in Seq(RewardSteps) /\ job[p].claim \in ClaimTables
    BY <1>2 DEF Ticks
  <1> QED
    BY <1>1, <1>2, <1>3, <1>4

\* A delivery is sealed: all of its reward has landed.
LEMMA SealStep ==
  ASSUME EngineInv, NEW p \in Tickers, SealClaim(p)
  PROVE  EngineInv'
  <1> DEFINE e == job[p].event
             a == job[p].account
             full == job[p].full
             d == GrantedClaim(job[p].claim[e][a])
             t == [job[p].claim EXCEPT ![e][a] = d]
  <1>1. Works(p, "pay") /\ job[p].plan = <<>> /\ job[p].at = "pay"
    BY DEF SealClaim, Works
  <1>2. /\ lock = p /\ job[p] \in Ticks /\ e \in Events /\ a \in Accounts
        /\ job[p].claim[e][a] \in ClaimRows /\ full \in Rewards /\ job[p].claim \in ClaimTables
        /\ PlanFits(<<>>, full, landed[e][a], lost)
    BY <1>1, WhilePaying
  <1>3. \A s \in ToSet(full) : landed[e][a][s] >= 1
    <2>1. PICK i \in 1..(Len(full) + 1) :
            /\ SubSeq(full, i, Len(full)) = <<>>
            /\ \A k \in 1..(i - 1) : landed[e][a][full[k]] >= 1
      BY <1>2 DEF PlanFits
    <2>2. /\ full \in Seq(RewardSteps) /\ Len(full) \in Nat
          /\ \A k \in 1..Len(full) : full[k] \in RewardSteps
          /\ \A s \in ToSet(full) : \E k \in 1..Len(full) : s = full[k]
      BY <1>2, RewardFacts
    <2> HIDE DEF full, e, a
    <2>3. i \in Int /\ Len(full) \in Int
      BY <2>2
    <2>4. i = Len(full) + 1
      <3> SUFFICES ASSUME i <= Len(full) PROVE FALSE
        BY <2>2
      <3>1. Len(SubSeq(full, i, Len(full))) = Len(full) - i + 1
        BY <2>2, <2>3, SubSeqProperties
      <3>2. Len(SubSeq(full, i, Len(full))) = 0
        BY <2>1
      <3> QED
        BY <2>3, <3>1, <3>2
    <2> QED
      BY <2>1, <2>2, <2>4
  <1>4. d \in ClaimRows /\ d.status = "granted"
    BY <1>2, OutcomeRows
  <1>5. /\ Turn(p, Next1(p, t)) /\ sealed' = [sealed EXCEPT ![e][a] = full]
        /\ UNCHANGED <<eventStore, eventGame, lock, landed, lost>>
    BY DEF SealClaim
  <1>6. /\ sealed \in [Events -> [Accounts -> Rewards]]
        /\ \A f \in Events, b \in Accounts : \A s \in ToSet(sealed[f][b]) : landed[f][b][s] >= 1
    BY DEF EngineInv, EngineOK
  <1> HIDE DEF d, e, a, full
  <1>7. /\ sealed' \in [Events -> [Accounts -> Rewards]] /\ sealed'[e][a] = full
        /\ \A f \in Events, b \in Accounts : f # e \/ b # a => sealed'[f][b] = sealed[f][b]
    BY <1>2, <1>5, <1>6
  <1>8. \A f \in Events, b \in Accounts : \A s \in ToSet(sealed'[f][b]) : landed[f][b][s] >= 1
    BY <1>3, <1>6, <1>7
  <1>9. t \in ClaimTables
    BY <1>2, <1>4, ClaimWritten
  <1>10. ClaimSound(d, landed[e][a]) /\ ClaimOwes(d, landed[e][a], lost)
    BY <1>4 DEF ClaimSound, ClaimOwes
  <1> DEFINE j == Next1(p, t)
  <1>11. /\ j \in Ticks /\ j.at = "pick" /\ j.claim = t /\ j.event = e /\ j.mode = job[p].mode
         /\ j.paid = job[p].paid /\ j.todo \subseteq job[p].todo \ {a}
    BY <1>2, <1>9, AccountDone DEF e, a
  <1> HIDE DEF j
  <1>12. TickFits(j, landed, lost)
    <2>1. e = job[p].event /\ a = job[p].account
      BY DEF e, a
    <2> QED
      BY <1>1, <1>2, <1>4, <1>10, <1>11, <2>1, ClaimFits
  <1>13. Turn(p, j)
    BY <1>5 DEF j
  <1> QED
    BY <1>2, <1>5, <1>7, <1>8, <1>11, <1>12, <1>13, TickTurns DEF eventStore, eventGame

\* A step of a reward is commanded: it lands, it fails, or it lands unanswered.
LEMMA PaySteps ==
  ASSUME EngineInv, NEW p \in Tickers, NEW lands \in BOOLEAN, NEW answers \in BOOLEAN,
         PayStep(p, lands, answers)
  PROVE  EngineInv'
  <1> DEFINE e == job[p].event
             a == job[p].account
             full == job[p].full
             plan == job[p].plan
             c == job[p].claim[e][a]
             i == Len(full) - Len(plan) + 1
             s == Head(plan)
             l == landed[e][a]
             m == IF lands THEN [l EXCEPT ![s] = @ + 1] ELSE l
  <1>1. Works(p, "pay") /\ plan # <<>> /\ job[p].at = "pay"
    BY DEF PayStep, Works
  <1>2. /\ lock = p /\ job[p] \in Ticks /\ e \in Events /\ a \in Accounts
        /\ c \in ClaimRows /\ full \in Rewards /\ plan \in Seq(RewardSteps)
        /\ job[p].claim \in ClaimTables /\ PlanFits(plan, full, l, lost)
    BY <1>1, WhilePaying
  <1>3. /\ landed \in [Events -> [Accounts -> [RewardSteps -> Nat]]] /\ lost \in Nat
        /\ EngineOK /\ lock # NoOne /\ TickFits(job[p], landed, lost)
    BY <1>2, InTick DEF EngineInv, EngineOK
  <1>4. /\ i \in 1..Len(full) /\ s = full[i] /\ s \in RewardSteps
        /\ Tail(plan) = SubSeq(full, i + 1, Len(full))
        /\ \A k \in 1..(i - 1) : l[full[k]] >= 1
        /\ \A x \in RewardSteps : l[x] <= lost \/ \E k \in 1..(i - 1) : x = full[k]
        /\ l[s] <= lost
    BY <1>1, <1>2, PlanHead
  <1>5. /\ answers => lands
        /\ landed' = IF lands THEN [landed EXCEPT ![e][a][s] = @ + 1] ELSE landed
        /\ lost' = IF lands /\ ~answers THEN lost + 1 ELSE lost
        /\ UNCHANGED <<eventStore, eventGame, lock, sealed>>
    BY DEF PayStep
  <1>6. /\ answers => Turn(p, [job[p] EXCEPT !.plan = Tail(@), !.paid = TRUE])
        /\ ~answers => Turn(p, Next1(p, [job[p].claim EXCEPT ![e][a] = FailedClaim(c, full, i)]))
    BY DEF PayStep
  <1>7. l \in [RewardSteps -> Nat] /\ \A x \in RewardSteps : l[x] \in Nat
    BY <1>2, <1>3
  <1>8. /\ full \in Seq(RewardSteps) /\ Len(full) \in Nat /\ i \in Nat
        /\ \A k \in 1..Len(full) : full[k] \in RewardSteps
    <2>1. /\ full \in Seq(RewardSteps) /\ Len(full) \in Nat
          /\ \A k \in 1..Len(full) : full[k] \in RewardSteps
      BY <1>2, RewardFacts
    <2>2. i \in 1..Len(full)
      BY <1>4
    <2> HIDE DEF i
    <2> QED
      BY <2>1, <2>2
  <1> HIDE DEF s, i, full, plan, e, a, c
  <1>9. /\ m \in [RewardSteps -> Nat] /\ m[s] = (IF lands THEN l[s] + 1 ELSE l[s])
        /\ \A x \in RewardSteps : x # s => m[x] = l[x]
        /\ \A x \in RewardSteps : m[x] \in Nat /\ l[x] <= m[x]
    BY <1>4, <1>7
  <1>10. /\ landed' \in [Events -> [Accounts -> [RewardSteps -> Nat]]] /\ landed'[e][a] = m
         /\ \A f \in Events, b \in Accounts : f # e \/ b # a => landed'[f][b] = landed[f][b]
    <2>1. CASE lands
      <3>1. landed' = [landed EXCEPT ![e] = [landed[e] EXCEPT ![a] = m]]
        BY <1>2, <1>3, <1>5, <2>1
      <3> HIDE DEF m
      <3> QED
        BY <1>2, <1>3, <1>9, <3>1
    <2>2. CASE ~lands
      BY <1>3, <1>5, <2>2
    <2> QED
      BY <2>1, <2>2
  <1> HIDE DEF m, l
  <1>11. l = landed[e][a]
    BY DEF l
  <1>12. EngineOK'
    <2>1. lost' \in Nat
      BY <1>3, <1>5
    <2>2. job' \in [Tickers -> Ticks]
      <3>1. CASE answers
        <4>1. Tail(plan) \in Seq(RewardSteps)
          BY <1>1, <1>2, HeadTailProperties
        <4>2. [job[p] EXCEPT !.plan = Tail(@), !.paid = TRUE] \in Ticks
          BY <1>2, <4>1 DEF Ticks, plan
        <4> QED
          BY <1>3, <1>6, <3>1, <4>2 DEF EngineOK, Turn
      <3>2. CASE ~answers
        <4>1. FailedClaim(c, full, i) \in ClaimRows
          BY <1>2, <1>8, OutcomeRows
        <4>2. [job[p].claim EXCEPT ![e][a] = FailedClaim(c, full, i)] \in ClaimTables
          BY <1>2, <4>1, ClaimWritten
        <4>3. Next1(p, [job[p].claim EXCEPT ![e][a] = FailedClaim(c, full, i)]) \in Ticks
          BY <1>2, <4>2, AccountDone
        <4> QED
          BY <1>3, <1>6, <3>2, <4>3 DEF EngineOK, Turn
      <3> QED
        BY <3>1, <3>2
    <2> QED
      BY <1>3, <1>5, <1>10, <2>1, <2>2 DEF EngineOK, eventStore, eventGame
  <1>13. PaidTwiceOnlyIfLost'
    <2> SUFFICES ASSUME NEW f \in Events, NEW b \in Accounts, NEW x \in RewardSteps
                 PROVE  landed'[f][b][x] <= 1 + lost'
      BY DEF PaidTwiceOnlyIfLost
    <2>1. landed[f][b][x] <= 1 + lost /\ landed[f][b][x] \in Nat
      BY <1>3 DEF EngineInv, PaidTwiceOnlyIfLost
    <2>2. CASE f = e /\ b = a /\ x = s
      BY <1>3, <1>4, <1>5, <1>7, <1>9, <1>10, <2>2
    <2>3. CASE f = e /\ b = a /\ x # s
      BY <1>3, <1>5, <1>9, <1>10, <1>11, <2>1, <2>3
    <2>4. CASE f # e \/ b # a
      BY <1>3, <1>5, <1>10, <2>1, <2>4
    <2> QED
      BY <2>2, <2>3, <2>4
  <1>14. ASSUME NEW f \in Events, NEW b \in Accounts, NEW d \in ClaimRows,
                 ClaimSound(d, landed[f][b])
          PROVE  /\ ClaimSound(d, landed'[f][b])
                 /\ ~answers /\ ClaimOwes(d, landed[f][b], lost) => ClaimOwes(d, landed'[f][b], lost')
    <2>1. landed[f][b] \in [RewardSteps -> Nat]
      BY <1>3
    <2>2. /\ ClaimSound(d, [landed[f][b] EXCEPT ![s] = @ + 1])
          /\ ClaimOwes(d, landed[f][b], lost) =>
               /\ ClaimOwes(d, landed[f][b], lost + 1)
               /\ ClaimOwes(d, [landed[f][b] EXCEPT ![s] = @ + 1], lost + 1)
      BY <1>3, <1>4, <1>14, <2>1, MoreLost
    <2>3. CASE f = e /\ b = a /\ lands
      <3>1. landed'[f][b] = [landed[f][b] EXCEPT ![s] = @ + 1]
        BY <1>10, <2>3 DEF m, l
      <3> QED
        BY <1>5, <2>2, <2>3, <3>1
    <2>4. CASE ~lands
      BY <1>5, <1>14, <2>4
    <2>5. CASE (f # e \/ b # a) /\ lands
      BY <1>5, <1>10, <1>14, <2>2, <2>5
    <2> QED
      BY <2>3, <2>4, <2>5
  <1>15. ASSUME NEW f \in Events, NEW b \in Accounts
         PROVE  \A x \in ToSet(sealed'[f][b]) : landed'[f][b][x] >= 1
    <2> SUFFICES ASSUME NEW x \in ToSet(sealed[f][b]) PROVE landed'[f][b][x] >= 1
      BY <1>5
    <2>1. landed[f][b][x] >= 1 /\ x \in RewardSteps
      <3>1. sealed[f][b] \in Rewards
        BY <1>3 DEF EngineOK
      <3>2. x \in RewardSteps
        BY <3>1 DEF RewardSteps
      <3> QED
        BY <3>2 DEF EngineInv
    <2>2. landed[f][b][x] \in Nat
      BY <1>3, <2>1
    <2>3. CASE f = e /\ b = a
      <3>1. m[x] \in Nat /\ l[x] <= m[x]
        BY <1>9, <2>1
      <3> QED
        BY <1>10, <1>11, <2>1, <2>2, <2>3, <3>1
    <2>4. CASE f # e \/ b # a
      BY <1>10, <2>1, <2>4
    <2> QED
      BY <2>3, <2>4
  <1>16. CASE answers
    <2> DEFINE j == [job[p] EXCEPT !.plan = Tail(plan), !.paid = TRUE]
    <2>1. Turn(p, j)
      BY <1>6, <1>16 DEF plan
    <2>2. j.at = "pay" /\ j.paid /\ j.event = e /\ j.account = a /\ j.full = full
          /\ j.plan = Tail(plan) /\ j.claim = job[p].claim /\ j.todo = job[p].todo
          /\ j.mode = job[p].mode
      BY <1>1, <1>2 DEF Ticks, e, a, full
    <2> HIDE DEF j
    <2>3. job'[p] = j
      BY <1>3, <2>1 DEF EngineOK, Turn
    <2>4. PlanFits(Tail(plan), full, m, lost)
      <3>1. i + 1 \in 1..(Len(full) + 1) /\ i + 1 - 1 = i
        BY <1>4, <1>8
      <3>2. ASSUME NEW k \in 1..i PROVE m[full[k]] >= 1
        <4>1. full[k] \in RewardSteps /\ k \in 1..Len(full)
          BY <1>4, <1>8
        <4>2. CASE k = i
          BY <1>4, <1>5, <1>7, <1>9, <1>16, <4>2
        <4>3. CASE k # i
          <5>1. k \in 1..(i - 1)
            BY <1>8, <4>3
          <5> QED
            BY <1>4, <1>7, <1>9, <4>1, <5>1
        <4> QED
          BY <4>2, <4>3
      <3>3. ASSUME NEW x \in RewardSteps PROVE m[x] <= lost \/ \E k \in 1..i : x = full[k]
        <4>1. CASE x = s
          BY <1>4, <1>8, <4>1
        <4>2. CASE x # s
          <5>1. l[x] <= lost \/ \E k \in 1..(i - 1) : x = full[k]
            BY <1>4
          <5>2. \A k \in 1..(i - 1) : k \in 1..i
            BY <1>8
          <5> QED
            BY <1>9, <4>2, <5>1, <5>2
        <4> QED
          BY <4>1, <4>2
      <3> DEFINE r == i + 1
      <3>4. /\ r \in 1..(Len(full) + 1) /\ r - 1 = i /\ Tail(plan) = SubSeq(full, r, Len(full))
        BY <1>4, <3>1
      <3> HIDE DEF r
      <3> QED
        BY <3>2, <3>3, <3>4 DEF PlanFits
    <2>5. TickFits(j, landed', lost')
      <3>1. lost' = lost
        BY <1>5, <1>16
      <3>2. \A f \in Events, b \in Accounts : f # e \/ b # a =>
              /\ ClaimSound(j.claim[f][b], landed'[f][b])
              /\ ClaimOwes(j.claim[f][b], landed'[f][b], lost')
        BY <1>1, <1>3, <1>10, <2>2, <3>1 DEF TickFits, e, a
      <3>3. \A b \in j.todo : /\ j.claim[j.event][b].status \in {"none", "pending"}
                              /\ j.mode = "retry" => j.claim[j.event][b].status = "pending"
        BY <1>1, <1>3, <2>2 DEF TickFits, e
      <3> QED
        BY <1>2, <1>10, <2>2, <2>4, <3>1, <3>2, <3>3 DEF TickFits
    <2>6. \A f \in Events, b \in Accounts : ClaimSound(claim'[f][b], landed'[f][b])
      <3>1. \A f \in Events, b \in Accounts :
              claim[f][b] \in ClaimRows /\ ClaimSound(claim[f][b], landed[f][b])
        BY <1>3 DEF EngineInv, EngineOK, ClaimTables
      <3> QED
        BY <1>5, <1>14, <3>1 DEF eventStore
    <2> QED
      BY <1>2, <1>3, <1>5, <1>12, <1>13, <1>15, <2>2, <2>3, <2>5, <2>6 DEF EngineInv
  <1>17. CASE ~answers
    <2> DEFINE d == FailedClaim(c, full, i)
               t == [job[p].claim EXCEPT ![e][a] = d]
               j == Next1(p, t)
    <2>1. Turn(p, j)
      BY <1>6, <1>17
    <2>2. /\ d \in ClaimRows /\ d.status \in {"pending", "exhausted"}
          /\ d.cursor = full /\ d.at = i
      <3>1. \A cursor \in Rewards, at \in Nat :
              /\ FailedClaim(c, cursor, at) \in ClaimRows
              /\ FailedClaim(c, cursor, at).status \in {"pending", "exhausted"}
              /\ FailedClaim(c, cursor, at).cursor = cursor /\ FailedClaim(c, cursor, at).at = at
        BY <1>2, OutcomeRows
      <3> QED
        BY <1>2, <1>8, <3>1
    <2> HIDE DEF d
    <2>3. t \in ClaimTables
      BY <1>2, <2>2, ClaimWritten
    <2>4. /\ j \in Ticks /\ j.at = "pick" /\ j.claim = t /\ j.event = e /\ j.mode = job[p].mode
          /\ j.paid = job[p].paid /\ j.todo \subseteq job[p].todo \ {a}
      BY <1>2, <2>3, AccountDone DEF e, a
    <2> HIDE DEF j
    <2>5. job'[p] = j
      BY <1>3, <2>1 DEF EngineOK, Turn
    <2>6. ClaimSound(d, l) /\ ClaimOwes(d, l, lost)
      <3>1. full # <<>>
        BY <1>4, <1>8
      <3> QED
        BY <1>4, <2>2, <3>1 DEF ClaimSound, ClaimOwes
    <2>7. ClaimSound(d, landed'[e][a]) /\ ClaimOwes(d, landed'[e][a], lost')
      BY <1>2, <1>11, <1>14, <1>17, <2>2, <2>6
    <2>8. TickFits(j, landed', lost')
      <3>1. e = job[p].event /\ a = job[p].account /\ (lost' = lost \/ lost' = lost + 1)
        BY <1>5 DEF e, a
      <3>2. \A f \in Events, b \in Accounts : f # e \/ b # a =>
              landed'[f][b] = landed[f][b] /\ (lost' = lost \/ lost' = lost + 1)
        BY <1>10, <3>1
      <3>3. /\ job[p].at \in {"pick", "pay"} /\ (job[p].at = "pay" => a = job[p].account)
            /\ j.at \in {"pick", "events"} /\ (j.at = "pick" => j.event = e)
            /\ j.claim = [job[p].claim EXCEPT ![e][a] = d]
        BY <1>1, <2>4, <3>1
      <3> HIDE DEF t
      <3>4. PICK ls, n : ls = landed' /\ n = lost'
        OBVIOUS
      <3>5. TickFits(j, ls, n)
        BY <1>2, <2>2, <2>4, <2>7, <3>1, <3>2, <3>3, <3>4, ClaimFits
      <3> QED
        BY <3>4, <3>5
    <2>9. \A f \in Events, b \in Accounts :
            /\ ClaimSound(claim'[f][b], landed'[f][b])
            /\ ~job'[lock'].paid => ClaimOwes(claim'[f][b], landed'[f][b], lost')
      <3>1. \A f \in Events, b \in Accounts :
              /\ claim[f][b] \in ClaimRows /\ ClaimSound(claim[f][b], landed[f][b])
              /\ ~job[p].paid => ClaimOwes(claim[f][b], landed[f][b], lost)
        BY <1>2, <1>3 DEF EngineInv, EngineOK, ClaimTables
      <3>2. job'[lock'].paid = job[p].paid
        BY <1>2, <1>5, <2>4, <2>5
      <3> QED
        BY <1>5, <1>14, <1>17, <3>1, <3>2 DEF eventStore
    <2> QED
      BY <1>2, <1>3, <1>5, <1>12, <1>13, <1>15, <2>5, <2>8, <2>9 DEF EngineInv
  <1> QED
    BY <1>16, <1>17

\* The transaction of a tick begins, commits, or is rolled back.
LEMMA EngineTickEnds ==
  ASSUME EngineInv, NEW p \in Tickers,
         (\E boot \in BOOLEAN : TickBegins(p, boot)) \/ TickCommits(p) \/ TickFails(p)
  PROVE  EngineInv'
  <1>1. /\ EngineOK /\ p # NoOne /\ PaidTwiceOnlyIfLost /\ lost \in Nat
        /\ landed \in [Events -> [Accounts -> [RewardSteps -> Nat]]]
    BY EventAssumption DEF EngineInv, EngineOK, EventAssumption
  <1>2. Out \in Ticks
    <2>1. NoClaim \in ClaimRows
      BY EventAssumption DEF NoClaim, ClaimRows, EventAssumption
    <2>2. [e \in Events |-> [a \in Accounts |-> NoClaim]] \in ClaimTables
      BY <2>1 DEF ClaimTables
    <2> QED
      BY <2>2, EmptySeq, EventAssumption DEF Out, Ticks, EventAssumption
  <1>3. CASE \E boot \in BOOLEAN : TickBegins(p, boot)
    <2>1. PICK boot \in BOOLEAN : TickBegins(p, boot)
      BY <1>3
    <2> DEFINE at == IF boot THEN "backfill" ELSE "events"
               due == {e \in Events : evEnabled[e] /\ evDue[e]}
               events == IF boot THEN {e \in Events : evEnabled[e]} ELSE due
               players == IF due # {} \/ boot THEN connected ELSE {}
               j == [Out EXCEPT !.at = at, !.boot = boot, !.events = events, !.players = players,
                                !.claim = claim, !.due = evDue]
    <2>2. /\ lock = NoOne /\ lock' = p /\ Turn(p, j)
          /\ UNCHANGED <<eventStore, eventGame, eventHistory>>
      BY <2>1 DEF TickBegins
    <2>3. at \in {"backfill", "events"} /\ events \in SUBSET Events /\ players \in SUBSET Accounts
      BY <1>1 DEF EngineOK
    <2> HIDE DEF at, due, events, players
    <2>4. j \in Ticks /\ j.at = at /\ j.claim = claim /\ j.paid = FALSE
      BY <1>1, <1>2, <2>3 DEF Ticks, EngineOK, Out
    <2> HIDE DEF j
    <2>5. job' \in [Tickers -> Ticks] /\ job'[p] = j
      BY <1>1, <2>2, <2>4 DEF EngineOK, Turn
    <2>6. EngineOK'
      BY <1>1, <2>2, <2>5 DEF EngineOK, eventStore, eventGame, eventHistory
    <2>7. \A e \in Events, a \in Accounts :
            /\ ClaimSound(claim[e][a], landed[e][a]) /\ ClaimOwes(claim[e][a], landed[e][a], lost)
            /\ \A s \in ToSet(sealed[e][a]) : landed[e][a][s] >= 1
      BY <2>2 DEF EngineInv
    <2>8. TickFits(j, landed, lost)
      BY <2>3, <2>4, <2>7 DEF TickFits
    <2>9. PaidTwiceOnlyIfLost'
      BY <1>1, <2>2 DEF PaidTwiceOnlyIfLost, eventHistory
    <2> QED
      BY <2>2, <2>5, <2>6, <2>7, <2>8, <2>9 DEF EngineInv, eventStore, eventHistory
  <1>4. CASE TickCommits(p)
    <2>1. /\ lock = p /\ job[p].at = "events" /\ lock' = NoOne /\ Turn(p, Out)
          /\ claim' = job[p].claim /\ evDue' = job[p].due
          /\ UNCHANGED <<reward, connected, landed, lost, sealed>>
      BY <1>4 DEF TickCommits, Works, eventGame, eventHistory
    <2>2. job[p] \in Ticks /\ TickFits(job[p], landed, lost)
      BY <2>1, InTick
    <2>3. EngineOK'
      BY <1>1, <1>2, <2>1, <2>2 DEF EngineOK, Turn, Ticks
    <2>4. \A e \in Events, a \in Accounts :
            /\ ClaimSound(claim'[e][a], landed[e][a]) /\ ClaimOwes(claim'[e][a], landed[e][a], lost)
            /\ \A s \in ToSet(sealed[e][a]) : landed[e][a][s] >= 1
      BY <2>1, <2>2 DEF EngineInv, TickFits
    <2>5. PaidTwiceOnlyIfLost'
      BY <1>1, <2>1 DEF PaidTwiceOnlyIfLost
    <2> QED
      BY <2>1, <2>3, <2>4, <2>5 DEF EngineInv
  <1>5. CASE TickFails(p)
    <2>1. /\ lock = p /\ lock' = NoOne /\ Turn(p, Out)
          /\ lost' = (IF job[p].paid THEN lost + 1 ELSE lost)
          /\ UNCHANGED <<eventStore, eventGame, landed, sealed>>
      BY <1>5 DEF TickFails
    <2>2. EngineOK'
      BY <1>1, <1>2, <2>1 DEF EngineOK, Turn, eventStore, eventGame
    <2>3. \A e \in Events, a \in Accounts : ClaimOwes(claim[e][a], landed[e][a], lost')
      <3>1. CASE job[p].paid
        BY <1>1, <2>1, <3>1 DEF PaidTwiceOnlyIfLost, ClaimOwes
      <3>2. CASE ~job[p].paid
        BY <2>1, <3>2 DEF EngineInv
      <3> QED
        BY <3>1, <3>2
    <2>4. PaidTwiceOnlyIfLost'
      <3>1. \A e \in Events, a \in Accounts, s \in RewardSteps :
              landed[e][a][s] \in Nat /\ landed[e][a][s] <= 1 + lost
        BY <1>1 DEF PaidTwiceOnlyIfLost
      <3> QED
        BY <1>1, <2>1, <3>1 DEF PaidTwiceOnlyIfLost
    <2> QED
      BY <2>1, <2>2, <2>3, <2>4 DEF EngineInv, eventStore
  <1> QED
    BY <1>3, <1>4, <1>5

\* The operator and the clock, while no tick runs.
LEMMA BesideTicks ==
  ASSUME EngineInv,
         \/ \E e \in Events :
              \/ \E r \in Rewards : EditReward(e, r)
              \/ SwitchEvent(e) \/ ResetClaims(e) \/ PollElapses(e)
              \/ \E a \in Accounts : Qualifies(e, a) \/ BackoffElapses(e, a)
  PROVE  EngineInv'
  <1>1. /\ lock = NoOne /\ UNCHANGED <<connected, lock, job, landed, sealed>>
        /\ evDue' \in [Events -> BOOLEAN] /\ reward' \in [Events -> Rewards]
    <2>1. evDue \in [Events -> BOOLEAN] /\ reward \in [Events -> Rewards]
      BY DEF EngineInv, EngineOK
    <2> QED
      BY <2>1 DEF EditReward, SwitchEvent, ResetClaims, PollElapses, Qualifies, BackoffElapses,
                  Operates, eventStore, eventGame, eventHistory
  <1>2. /\ EngineOK /\ PaidTwiceOnlyIfLost /\ lost \in Nat /\ claim \in ClaimTables
        /\ \A e \in Events, a \in Accounts :
             /\ ClaimSound(claim[e][a], landed[e][a]) /\ ClaimOwes(claim[e][a], landed[e][a], lost)
             /\ claim[e][a] \in ClaimRows
    BY <1>1 DEF EngineInv, EngineOK, ClaimTables
  <1> DEFINE Kept == /\ claim' \in ClaimTables /\ lost' \in Nat /\ lost' >= lost
                     /\ \A e \in Events, a \in Accounts :
                          /\ ClaimSound(claim'[e][a], landed[e][a])
                          /\ ClaimOwes(claim'[e][a], landed[e][a], lost')
  <1>3. ASSUME UNCHANGED <<claim, lost>> PROVE Kept
    BY <1>2, <1>3
  <1>4. ASSUME NEW e \in Events, ResetClaims(e) PROVE Kept
    <2>1. claim' = [claim EXCEPT ![e] = [a \in Accounts |-> NoClaim]] /\ lost' = lost + 1
      BY <1>4 DEF ResetClaims
    <2>2. NoClaim \in ClaimRows /\ NoClaim.status = "none" /\ NoClaim.cursor = <<>>
      BY EventAssumption DEF NoClaim, ClaimRows, EventAssumption
    <2> DEFINE fresh == [a \in Accounts |-> NoClaim]
    <2>3. fresh \in [Accounts -> ClaimRows] /\ \A a \in Accounts : fresh[a] = NoClaim
      BY <2>2
    <2> HIDE DEF fresh
    <2>4. claim' = [claim EXCEPT ![e] = fresh]
      BY <2>1 DEF fresh
    <2>5. claim' \in ClaimTables
      BY <1>2, <2>3, <2>4 DEF ClaimTables
    <2>6. \A f \in Events, a \in Accounts : claim'[f][a] = IF f = e THEN NoClaim ELSE claim[f][a]
      <3>1. \A f \in Events : claim'[f] = IF f = e THEN fresh ELSE claim[f]
        BY <1>2, <2>4 DEF ClaimTables
      <3> QED
        BY <2>3, <3>1
    <2>7. \A f \in Events, a \in Accounts : ClaimSound(claim'[f][a], landed[f][a])
      <3>1. \A l : ClaimSound(NoClaim, l)
        BY <2>2 DEF ClaimSound
      <3> QED
        BY <1>2, <2>6, <3>1
    <2>8. \A f \in Events, a \in Accounts : ClaimOwes(claim'[f][a], landed[f][a], lost')
      BY <1>2, <2>1 DEF ClaimOwes, PaidTwiceOnlyIfLost
    <2> QED
      BY <1>2, <2>1, <2>5, <2>7, <2>8
  <1>5. ASSUME NEW e \in Events, NEW a \in Accounts, BackoffElapses(e, a) PROVE Kept
    <2> DEFINE c == [claim[e][a] EXCEPT !.waiting = FALSE]
    <2>1. claim' = [claim EXCEPT ![e][a] = c] /\ lost' = lost
      BY <1>2, <1>5 DEF BackoffElapses, eventHistory, ClaimTables
    <2>2. /\ c \in ClaimRows /\ c.status = claim[e][a].status /\ c.cursor = claim[e][a].cursor
          /\ c.at = claim[e][a].at
      BY <1>2 DEF ClaimRows
    <2> HIDE DEF c
    <2>3. /\ claim' \in ClaimTables /\ claim'[e][a] = c
          /\ \A f \in Events, b \in Accounts : f # e \/ b # a => claim'[f][b] = claim[f][b]
      <3> DEFINE u == [claim EXCEPT ![e][a] = c]
      <3>1. /\ u \in ClaimTables /\ u[e][a] = c
            /\ \A f \in Events, b \in Accounts : f # e \/ b # a => u[f][b] = claim[f][b]
        BY <1>2, <2>2, ClaimWritten
      <3>2. claim' = u
        BY <2>1 DEF c
      <3> HIDE DEF u
      <3> QED
        BY <3>1, <3>2
    <2>4. ClaimSound(c, landed[e][a]) /\ ClaimOwes(c, landed[e][a], lost)
      BY <1>2, <2>2 DEF ClaimSound, ClaimOwes
    <2> QED
      BY <1>2, <2>1, <2>3, <2>4
  <1>6. Kept
    BY <1>3, <1>4, <1>5 DEF EditReward, SwitchEvent, PollElapses, Qualifies, eventStore, eventHistory
  <1>7. EngineOK'
    BY <1>1, <1>2, <1>6 DEF EngineOK
  <1>8. PaidTwiceOnlyIfLost'
    <2>1. \A e \in Events, a \in Accounts, s \in RewardSteps :
            landed[e][a][s] \in Nat /\ landed[e][a][s] <= 1 + lost
      BY <1>2 DEF EngineOK, PaidTwiceOnlyIfLost
    <2> QED
      BY <1>1, <1>2, <1>6, <2>1 DEF PaidTwiceOnlyIfLost
  <1> QED
    BY <1>1, <1>6, <1>7, <1>8 DEF EngineInv

\* Every reachable state of the event engine has it.
LEMMA EngineInvariant == EventSpec => []EngineInv
  <1>1. ASSUME EngineInv, [EventNext]_eventVars PROVE EngineInv'
    <2>1. CASE UNCHANGED eventVars
      <3>1. UNCHANGED <<claim, reward, evDue, connected, job, lock, landed, lost, sealed>>
        BY <2>1 DEF eventVars, eventStore, eventGame, eventHistory
      <3> QED
        BY <1>1, <3>1 DEF EngineInv, EngineOK, PaidTwiceOnlyIfLost, TickFits
    <2>2. ASSUME NEW p \in Tickers,
                 \/ \E boot \in BOOLEAN : TickBegins(p, boot)
                 \/ TickSteps(p) \/ PayStep(p, FALSE, FALSE) \/ PayStep(p, TRUE, FALSE)
                 \/ \E a \in Accounts : RetryUnresolved(p, a)
                 \/ TickFails(p)
          PROVE  EngineInv'
      BY <1>1, <2>2, WalkSteps, JudgeSteps, SealStep, PaySteps, EngineTickEnds DEF TickSteps
    <2> QED
      BY <1>1, <2>1, <2>2, BesideTicks DEF EventNext
  <1> QED
    BY <1>1, EngineInvInit, PTL DEF EventSpec

\* What the engine owes its players it keeps, for any events, rewards, accounts,
\* ticking processes, faults and operator changes: no step of a reward lands twice
\* but for lost records and resets, and a granted claim was paid in full.
THEOREM RewardsAlwaysSafe == EventSpec => []RewardsSafe
  <1>1. EngineInv => RewardsSafe
    BY DEF EngineInv, RewardsSafe, GrantedInFull
  <1> QED
    BY <1>1, EngineInvariant, PTL
=============================================================================
