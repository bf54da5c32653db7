------------------------------- MODULE Welcome -------------------------------
(***************************************************************************)
(* The welcome kit (src/scripts/admin_welcome.py): every player found      *)
(* online who has no row in the ledger for the active package is given its *)
(* items one by one, and the outcome of the whole kit becomes one row.     *)
(*                                                                         *)
(* Two scanners can be at it: the daemon's scan-loop, and the panel's "run *)
(* one scan now", a process of its own.  They share the ledger and nothing *)
(* else: a scanner looks for the row, grants, and only then writes it.     *)
(*                                                                         *)
(* Online players are read once per scan.  A give-item may fail, or time   *)
(* out after it took effect: the exception ends the scan, with no row.     *)
(***************************************************************************)
EXTENDS Integers, FiniteSets

CONSTANTS
  Kits,        \* package versions
  KitItems,    \* the items of a package
  Newcomers,   \* accounts with an FLS id
  Scanners,    \* "loop", and "panel" for the scan on demand
  KitFaults,   \* bound: failed and lost calls, crashes
  KitOps       \* bound: what the operator does

ASSUME WelcomeAssumption ==
  /\ IsFiniteSet(KitItems) /\ KitItems # {} /\ Kits # {} /\ IsFiniteSet(Scanners)
  /\ "loop" \in Scanners
  /\ {KitFaults, KitOps} \subseteq Nat

VARIABLES
  kitOn, kitActive,  \* welcome-kit.json
  kitRow,     \* ledger: the row of an account for a version: none, granted, failed
  present,    \* the game: who is online
  received,   \* the game: how often an account was given an item of a version
  scanner,    \* what each scanner is doing
  kitFaults, kitOps,
  repeats     \* history: what may have had a kit granted again

kitConfig == <<kitOn, kitActive>>
welcomeVars == <<kitConfig, kitRow, present, received, scanner, kitFaults, kitOps, repeats>>

ScanRests == [at |-> "asleep"]
Cases == Newcomers \X Kits
\* Broken form for KitsSafe: a failed row does not count.
RowGranted(a, v) == kitRow[<<a, v>>] = "granted"

\* granted_exists: a row of any status.
RowExists(a, v) == kitRow[<<a, v>>] # "none"

Working(s, c) == scanner[s].at = "grant" /\ <<scanner[s].account, scanner[s].version>> = c

WelcomeInit ==
  /\ kitOn = TRUE
  /\ kitActive \in Kits
  /\ kitRow = [c \in Cases |-> "none"]
  /\ present = {}
  /\ received = [c \in Cases |-> [i \in KitItems |-> 0]]
  /\ scanner = [s \in Scanners |-> ScanRests]
  /\ kitFaults = 0 /\ kitOps = 0
  /\ repeats = [c \in Cases |-> 0]

-----------------------------------------------------------------------------
(* A scan                                                                  *)

Scan(s, step) == scanner' = [scanner EXCEPT ![s] = step]
KitFault == kitFaults < KitFaults /\ kitFaults' = kitFaults + 1

\* run_scan: the configuration and the players online are read once.
BeginScan(s) ==
  /\ scanner[s] = ScanRests /\ kitOn
  /\ Scan(s, [at |-> "next", version |-> kitActive, todo |-> present])
  /\ UNCHANGED <<kitConfig, kitRow, present, received, kitFaults, kitOps, repeats>>

\* scan_once: an account with a row is skipped, one without is started on.
NextAccount(s) ==
  LET scan == scanner[s] IN
  /\ scan.at = "next"
  /\ \/ /\ scan.todo = {}
        /\ Scan(s, ScanRests)
        /\ UNCHANGED repeats
     \/ \E a \in scan.todo :
          LET c == <<a, scan.version>> IN
          IF RowExists(a, scan.version)
          THEN /\ Scan(s, [scan EXCEPT !.todo = @ \ {a}])
               /\ UNCHANGED repeats
          ELSE /\ Scan(s, [at |-> "grant", version |-> scan.version, todo |-> scan.todo \ {a},
                           account |-> a, items |-> KitItems, refused |-> {}])
               /\ repeats' = IF \E t \in Scanners : Working(t, c)
                             THEN [repeats EXCEPT ![c] = @ + 1] ELSE repeats
  /\ UNCHANGED <<kitConfig, kitRow, present, received, kitFaults, kitOps>>

Deliver(scan, i) ==
  received' = [received EXCEPT ![<<scan.account, scan.version>>][i] = @ + 1]

\* grant_account: the items one after the other, whatever became of the others.
GiveItem(s) ==
  LET scan == scanner[s] IN
  /\ scan.at = "grant"
  /\ \E i \in scan.items :
       \/ /\ Deliver(scan, i)
          /\ Scan(s, [scan EXCEPT !.items = @ \ {i}])
          /\ UNCHANGED kitFaults
       \/ /\ KitFault
          /\ Scan(s, [scan EXCEPT !.items = @ \ {i}, !.refused = @ \cup {i}])
          /\ UNCHANGED received
  /\ UNCHANGED <<kitConfig, kitRow, present, kitOps, repeats>>

\* record_granted or record_failed: the row of the pair, whatever it held.
Record(s) ==
  LET scan == scanner[s] IN
  /\ scan.at = "grant" /\ scan.items = {}
  /\ kitRow' = [kitRow EXCEPT ![<<scan.account, scan.version>>] =
                  IF scan.refused = {} THEN "granted" ELSE "failed"]
  /\ Scan(s, [at |-> "next", version |-> scan.version, todo |-> scan.todo])
  /\ UNCHANGED <<kitConfig, present, received, kitFaults, kitOps, repeats>>

\* The scan ends here: give-item outlived its 30 seconds (it may have taken
\* effect), the process was killed, or the panel's 120 seconds were up.
ScanDies(s) ==
  LET scan == scanner[s] IN
  /\ scan # ScanRests /\ KitFault
  /\ IF scan.at # "grant" THEN UNCHANGED <<received, repeats>>
     ELSE /\ repeats' = [repeats EXCEPT ![<<scan.account, scan.version>>] = @ + 1]
          /\ \/ UNCHANGED received
             \/ \E i \in scan.items : Deliver(scan, i)
  /\ Scan(s, ScanRests)
  /\ UNCHANGED <<kitConfig, kitRow, present, kitOps>>

-----------------------------------------------------------------------------
(* The operator and the players                                            *)

KitOp == kitOps < KitOps /\ kitOps' = kitOps + 1

SwitchKit ==
  /\ KitOp /\ kitOn' = ~kitOn
  /\ UNCHANGED <<kitActive, kitRow, present, received, scanner, kitFaults, repeats>>

\* Another version is made the active one: everybody is new to it.
ActivateKit(v) ==
  /\ KitOp /\ v # kitActive /\ kitActive' = v
  /\ UNCHANGED <<kitOn, kitRow, present, received, scanner, kitFaults, repeats>>

\* delete_all_failed: the next scan grants those kits once more, in full.
RetryFailed ==
  /\ KitOp
  /\ \E c \in Cases : kitRow[c] = "failed"
  /\ kitRow' = [c \in Cases |-> IF kitRow[c] = "failed" THEN "none" ELSE kitRow[c]]
  /\ repeats' = [c \in Cases |-> IF kitRow[c] = "failed" THEN repeats[c] + 1 ELSE repeats[c]]
  /\ UNCHANGED <<kitConfig, present, received, scanner, kitFaults>>

Connects(a) ==
  /\ a \notin present /\ present' = present \cup {a}
  /\ UNCHANGED <<kitConfig, kitRow, received, scanner, kitFaults, kitOps, repeats>>

WelcomeNext ==
  \/ \E s \in Scanners :
       BeginScan(s) \/ NextAccount(s) \/ GiveItem(s) \/ Record(s) \/ ScanDies(s)
  \/ SwitchKit \/ RetryFailed
  \/ \E v \in Kits : ActivateKit(v)
  \/ \E a \in Newcomers : Connects(a)

WelcomeSpec == WelcomeInit /\ [][WelcomeNext]_welcomeVars

-----------------------------------------------------------------------------
(* Properties                                                              *)

\* Type invariant of the welcome kit.
WelcomeTypeOK ==
  /\ kitOn \in BOOLEAN /\ kitActive \in Kits
  /\ kitRow \in [Cases -> {"none", "granted", "failed"}]
  /\ present \subseteq Newcomers
  /\ received \in [Cases -> [KitItems -> Nat]]
  /\ \A s \in Scanners : scanner[s].at \in {"asleep", "next", "grant"}

\* An account is given an item of a version once, and once more for every grant
\* that was cut short before its row, every retry the operator asked for, and
\* every time both scanners were past the check at once: nothing claims the pair
\* before the items go out.  A row of any status blocks every other way.
KitOnce == \A c \in Cases, i \in KitItems : received[c][i] <= 1 + repeats[c]

\* A row that says granted means that every item of the version went out at
\* least once, whichever scanner wrote the row and whatever the other one did.
GrantedKitArrived ==
  \A c \in Cases : kitRow[c] = "granted" => \A i \in KitItems : received[c][i] > 0

\* Both, whichever scanner went first.
KitsSafe == KitOnce /\ GrantedKitArrived
=============================================================================
