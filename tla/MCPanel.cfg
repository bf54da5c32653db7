SPECIFICATION PanelSpec
CONSTANTS
 \* instance ledger: three persists at once, three versions of the lists
 Callers = {c1, c2, c3}
 NoCaller = NoCaller
 MaxVersion = 3
 MaxGen = 4
 \* the pool of dimensions
 Dims = {1, 2}
 MinDims = 1
 MaxDims = 2
 PlayersPerDim = 1
 DrainAfter = 2
 Cooldown = 2
 Window = 3
 SpawnTime = 1
 DimCrowd = 2
 DimFaults = 2
 DimOps = 1
 NoDim = NoDim
 Off = Off
 \* the scheduler
 Horizon = 5
 RestartSlot = 1
 Grace = 4
 Lead = 1
 Stale = 2
 BackupEvery = 4
 BackupTime = 1
 TaskSlot = 1
 TaskGrace = 3
 TaskEvery = 2
 Delays = {0, 2}
 SchedFaults = 1
 SchedOps = 1
 Never = Never
 \* events: one event, one account, one lost answer of each kind
 Events = {e1}
 Accounts = {a1}
 Tickers = {"daemon", "manual"}
 Rewards <- SomeRewards
 MaxAttempts = 2
 GrantFaults = 1
 TickFaults = 1
 EventOps = 1
 NoOne = NoOne
 \* battle pass
 Tiers = {t1}
 Players = {p1, p2}
 BpAttempts = 2
 BpFaults = 1
 BpOps = 2
 BpMoves = 2
 Nobody = Nobody
 \* welcome kits
 Kits = {1, 2}
 KitItems = {g1, g2}
 Newcomers = {a1}
 Scanners = {"loop", "panel"}
 KitFaults = 1
 KitOps = 1
 \* chat commands
 Chatters = {a1}
 Cooldowns = {1, 3}
 DrainMax = 2
 QueueMax = 3
 ChatFaults = 2
 ChatOps = 3
 Unsaid = Unsaid
 \* market bot
 Orders = {o1, o2}
 Bargains = {o1}
 MaxListings = 2
 CatalogSize = 2
 MaxBuys = 1
 MarketFaults = 1
 MarketOps = 2
 \* sessions and login quota
 Connections = {k1, k2}
 Clients = {c1, c2}
 Proxies = {x1}
 MaxConnections = 2
 LoginMax = 2
 LoginWindow = 2
 SweepAt = 0
 SessionTTL = 2
 SessClockMax = 3
 SessFaults = 1
 SessRequests = 4
 \* settings
 Settings = {s1, s2, s3}
 Pinned = {s1, s2}
 Texts = {s1, s2}
 EmptyOk = {s1}
 Editors = {d1, d2}
 SettingValues = {v1, v2}
 Unset = Unset
 Cleared = Cleared
 Spaces = Spaces
 Quote = Quote
 SettingFaults = 1
 SettingOps = 3
 \* INI merge
 IniValues = {v1, v2}
 OldValue = old
 MaxLines = 3
 MaxWrites = 1
 \* certificate
 MaxOrders = 3
 MaxKeys = 2
 CertFaults = 2
 CertStops = 3
 \* world reset
 MaxWorlds = 3
 ResetOps = 3
 ResetFaults = 2
 PowerCuts = 1
INVARIANTS
 PanelTypeOK Durable FiresSafe RewardsSafe PassSafe KitsSafe  
 SessionsSafe  MergedAsAsked CertSafe WorldsKept
PROPERTIES
 IsRegister PoolSafe  ImplementsOnce
CHECK_DEADLOCK FALSE
