----------------------------- MODULE Certificates -----------------------------
(***************************************************************************)
(* The panel's certificate: the scheduler asks for one by DNS-01 on a      *)
(* thread of its own (src/scripts/admin_schedule.py, admin_acme.py,        *)
(* admin_acme_dns.py) and writes it to a file that the panel, another      *)
(* process, serves from and reloads (src/scripts/admin_tls.py).            *)
(*                                                                         *)
(* The DNS backend is cloudflare: acme-dns withdraws nothing, for it drops *)
(* old values by itself.                                                   *)
(* A certificate is the number of the key it was issued for and of the     *)
(* order that brought it.  The container may stop between any two steps,   *)
(* and takes the thread with it.                                           *)
(***************************************************************************)
EXTENDS Integers, FiniteSets

CONSTANTS
  MaxOrders,  \* bound: orders made
  MaxKeys,    \* bound: server keys made
  CertFaults, \* bound: calls and commands that fail
  CertStops   \* bound: restarts of the panel and of the container

ASSUME CertAssumption ==
  /\ {MaxOrders, MaxKeys} \subseteq Nat \ {0} /\ {CertFaults, CertStops} \subseteq Nat

NoCert == [key |-> 0, order |-> 0]
NoKey == 0
TornKey == -1   \* the key file is there and holds no key

VARIABLES
  keyFile,    \* privkey.pem
  certFile,   \* fullchain.pem
  ageing,     \* the certificate on disk is within its last thirty days
  order,      \* what the renewal thread is doing
  orders,     \* orders made so far
  keys,       \* server keys made so far
  records,    \* _acme-challenge TXT records in the zone: the orders they are of
  watching,   \* the panel serves TLS and watches the files
  context,    \* what the panel's SSLContext holds: <<certificate, key>>
  stamp,      \* the files as the watcher last saw them
  certFaults, certStops,
  orphans     \* history: records whose order could not withdraw them

certFiles == <<keyFile, certFile>>
panelTls == <<watching, context, stamp>>
certBounds == <<certFaults, certStops>>
certVars == <<certFiles, ageing, order, orders, keys, records, panelTls, certBounds, orphans>>

NoOrder == [at |-> "none"]
NoContext == <<NoCert, NoKey>>

CertInit ==
  /\ keyFile = NoKey /\ certFile = NoCert /\ ageing = FALSE
  /\ order = NoOrder /\ orders = 0 /\ keys = 0 /\ records = {}
  /\ watching = FALSE /\ context = NoContext /\ stamp = NoContext
  /\ certFaults = 0 /\ certStops = 0 /\ orphans = {}

CertFault == certFaults < CertFaults /\ certFaults' = certFaults + 1 /\ UNCHANGED certStops
NoCertFault == UNCHANGED certBounds
OrderAt(step) == order.at = step
OrderTo(step) == order' = [order EXCEPT !.at = step]

-----------------------------------------------------------------------------
(* The renewal thread                                                      *)

\* certificate_due and _renew_in_background: one order at a time; nothing is done
\* for a certificate that is not within its last thirty days.
BeginRenewal ==
  /\ order = NoOrder /\ orders < MaxOrders
  /\ certFile = NoCert \/ ageing
  /\ order' = [at |-> "key", id |-> orders + 1] /\ orders' = orders + 1
  /\ NoCertFault
  /\ UNCHANGED <<certFiles, ageing, keys, records, panelTls, orphans>>

\* Broken form for CertSafe: every renewal makes a key.
GenerateNewKey ==
  /\ OrderAt("key") /\ keys < MaxKeys
  /\ keys' = keys + 1 /\ keyFile' = keys + 1
  /\ OrderTo("order") /\ NoCertFault
  /\ UNCHANGED <<certFile, ageing, orders, records, panelTls, orphans>>

\* generate_csr: a key is made when there is no file for one.  The file is opened
\* first and then filled.
GenerateKey ==
  /\ OrderAt("key") /\ keyFile = NoKey /\ keys < MaxKeys
  /\ keys' = keys + 1 /\ keyFile' = TornKey
  /\ OrderTo("fillKey") /\ NoCertFault
  /\ UNCHANGED <<certFile, ageing, orders, records, panelTls, orphans>>

FillKey ==
  /\ OrderAt("fillKey") /\ keyFile' = keys
  /\ OrderTo("order") /\ NoCertFault
  /\ UNCHANGED <<certFile, ageing, orders, keys, records, panelTls, orphans>>

\* A key that is there is used; openssl refuses a file that holds none.
UseKey ==
  /\ OrderAt("key") /\ keyFile # NoKey
  /\ IF keyFile = TornKey THEN OrderTo("end") ELSE OrderTo("order")
  /\ NoCertFault
  /\ UNCHANGED <<certFiles, ageing, orders, keys, records, panelTls, orphans>>

\* The account, the order and its authorization, which may be valid already.
CreateOrder ==
  /\ OrderAt("order")
  /\ \/ OrderTo("publish") /\ NoCertFault
     \/ OrderTo("finalize") /\ NoCertFault
     \/ OrderTo("end") /\ CertFault
  /\ UNCHANGED <<certFiles, ageing, orders, keys, records, panelTls, orphans>>

\* publisher.publish: a call that fails may have made its record; the order does
\* not know of it then, and will not withdraw it.
PublishRecord ==
  /\ OrderAt("publish")
  /\ \/ /\ records' = records \cup {order.id} /\ OrderTo("visible")
        /\ NoCertFault /\ UNCHANGED orphans
     \/ /\ CertFault /\ OrderTo("end")
        /\ \/ UNCHANGED <<records, orphans>>
           \/ records' = records \cup {order.id} /\ orphans' = orphans \cup {order.id}
  /\ UNCHANGED <<certFiles, ageing, orders, keys, panelTls>>

\* wait_until_visible: public DNS shows the record, or the time is up and the
\* order fails and withdraws.
AwaitVisible ==
  /\ OrderAt("visible")
  /\ \/ OrderTo("validate") /\ NoCertFault
     \/ OrderTo("withdrawFailed") /\ CertFault
  /\ UNCHANGED <<certFiles, ageing, orders, keys, records, panelTls, orphans>>

\* The CA validates the challenge, or the order fails.
AwaitValidation ==
  /\ OrderAt("validate")
  /\ \/ OrderTo("finalize") /\ NoCertFault
     \/ OrderTo("withdrawFailed") /\ CertFault
  /\ UNCHANGED <<certFiles, ageing, orders, keys, records, panelTls, orphans>>

\* The CSR is signed for the key on disk, and the chain is downloaded.
Finalize ==
  /\ OrderAt("finalize")
  /\ \/ /\ order' = [at |-> "withdraw", id |-> order.id,
                     chain |-> [key |-> keyFile, order |-> order.id]]
        /\ NoCertFault
     \/ OrderTo("withdrawFailed") /\ CertFault
  /\ UNCHANGED <<certFiles, ageing, orders, keys, records, panelTls, orphans>>

\* The finally clause of issue: what was published is withdrawn, or a warning.
Withdraw ==
  /\ order.at \in {"withdraw", "withdrawFailed"}
  /\ \/ records' = records \ {order.id} /\ NoCertFault /\ UNCHANGED orphans
     \/ /\ order.id \in records /\ CertFault
        /\ orphans' = orphans \cup {order.id} /\ UNCHANGED records
  /\ OrderTo(IF OrderAt("withdraw") THEN "write" ELSE "end")
  /\ UNCHANGED <<certFiles, ageing, orders, keys, panelTls>>

\* The chain replaces the file in one rename.
WriteCert ==
  /\ OrderAt("write")
  /\ certFile' = order.chain /\ ageing' = FALSE
  /\ OrderTo("end") /\ NoCertFault
  /\ UNCHANGED <<keyFile, orders, keys, records, panelTls, orphans>>

\* The result is recorded and the lock released.
EndRenewal ==
  /\ OrderAt("end") /\ order' = NoOrder /\ NoCertFault
  /\ UNCHANGED <<certFiles, ageing, orders, keys, records, panelTls, orphans>>

-----------------------------------------------------------------------------
(* The panel                                                               *)

Fits(c, k) == c # NoCert /\ c.key = k
BothThere == certFile # NoCert /\ keyFile # NoKey

\* build_context and watch, when the panel starts: the stamps are those of the
\* files as they are then; without a usable pair the panel serves plain HTTP and
\* watches nothing.
StartPanel ==
  /\ certStops < CertStops /\ certStops' = certStops + 1
  /\ watching' = Fits(certFile, keyFile)
  /\ context' = IF watching' THEN <<certFile, keyFile>> ELSE NoContext
  /\ stamp' = IF watching' THEN <<certFile, keyFile>> ELSE NoContext
  /\ UNCHANGED <<certFiles, ageing, order, orders, keys, records, certFaults, orphans>>

\* The watcher's loop: files that changed and are both there are loaded, or
\* rejected, and are not tried again until they change.
Reload ==
  /\ watching /\ BothThere /\ stamp # <<certFile, keyFile>>
  /\ stamp' = <<certFile, keyFile>>
  /\ context' = IF Fits(certFile, keyFile) THEN <<certFile, keyFile>> ELSE context
  /\ NoCertFault
  /\ UNCHANGED <<certFiles, ageing, order, orders, keys, records, watching, orphans>>

-----------------------------------------------------------------------------
(* Time and the container                                                  *)

CertAges ==
  /\ certFile # NoCert /\ ~ageing /\ ageing' = TRUE /\ NoCertFault
  /\ UNCHANGED <<certFiles, order, orders, keys, records, panelTls, orphans>>

\* The container stops: the thread is gone, and with it what it knew it had to
\* withdraw; the panel starts afresh.
ContainerRestarts ==
  /\ certStops < CertStops /\ certStops' = certStops + 1
  /\ order' = NoOrder
  /\ orphans' = IF order # NoOrder THEN orphans \cup (records \cap {order.id}) ELSE orphans
  /\ watching' = Fits(certFile, keyFile)
  /\ context' = IF watching' THEN <<certFile, keyFile>> ELSE NoContext
  /\ stamp' = IF watching' THEN <<certFile, keyFile>> ELSE NoContext
  /\ UNCHANGED <<certFiles, ageing, orders, keys, records, certFaults>>

CertNext ==
  \/ BeginRenewal \/ GenerateKey \/ FillKey \/ UseKey \/ CreateOrder \/ PublishRecord
  \/ AwaitVisible \/ AwaitValidation \/ Finalize \/ Withdraw \/ WriteCert \/ EndRenewal
  \/ StartPanel \/ Reload \/ CertAges \/ ContainerRestarts

CertSpec == CertInit /\ [][CertNext]_certVars

-----------------------------------------------------------------------------
(* Properties                                                              *)

\* Type invariant.
CertTypeOK ==
  /\ keyFile \in {TornKey, NoKey} \cup 1..keys
  /\ \A c \in {certFile, context[1]} : c.key \in 0..keys /\ c.order \in 0..orders
  /\ records \cup orphans \subseteq 1..orders /\ orders \in 0..MaxOrders
  /\ {ageing, watching} \subseteq BOOLEAN
  /\ order = NoOrder \/ order.id \in 1..orders

\* A renewal that fails, or is cut short, at any step leaves the panel a pair it
\* can serve: once there is a certificate it is of the key on disk, and the panel
\* holds a certificate with its own key.
ServesItsKey ==
  /\ certFile # NoCert => certFile.key = keyFile
  /\ watching => Fits(context[1], context[2])

\* A challenge record stays in the zone only for the order that is using it, or
\* when the call that made or withdrew it failed, or the container stopped.
NoStaleRecord ==
  \A o \in records : o \in orphans \/ (order # NoOrder /\ order.id = o)

\* Both, whatever step of a renewal failed or was cut short.
CertSafe == ServesItsKey /\ NoStaleRecord
=============================================================================
