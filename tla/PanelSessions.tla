----------------------------- MODULE PanelSessions -----------------------------
(***************************************************************************)
(* The web panel's front door (src/scripts/admin-http.py): a listener with *)
(* a bounded number of connections, the login gate, the session tokens,    *)
(* which the panel does not store, and the revocations it does store, in   *)
(* memory and in a file.  Every connection has a thread of its own.        *)
(*                                                                         *)
(* A token is known by its jti, which is its place in `sessions`; what is  *)
(* signed in it, its expiry, is what `sessions` holds.                     *)
(***************************************************************************)
EXTENDS Integers, SequencesExt

CONSTANTS
  Connections,    \* connections that peers may open
  Clients,        \* their addresses
  Proxies,        \* the reverse proxies the operator has declared
  MaxConnections, \* MAX_CONNECTIONS
  LoginMax,       \* LOGIN_MAX_ATTEMPTS
  LoginWindow,    \* LOGIN_WINDOW_SECONDS
  SweepAt,        \* LOGIN_BUCKET_SWEEP_AT
  SessionTTL,     \* SESSION_TTL_SECONDS
  SessClockMax,   \* bound: the clock
  SessFaults,     \* bound: files that cannot be written or read
  SessRequests    \* bound: requests

ASSUME SessAssumption ==
  /\ Clients \cap Proxies = {}
  /\ {MaxConnections, LoginMax} \subseteq Nat \ {0}
  /\ {LoginWindow, SweepAt, SessionTTL, SessClockMax, SessFaults, SessRequests} \subseteq Nat

VARIABLES
  sessClock,   \* time.time()
  sessions,    \* the tokens issued: when each expires
  revoked,     \* REVOCATIONS
  revokedFile, \* admin-ui-revoked-jtis.json
  attempts,    \* LOGIN_ATTEMPTS; no bucket is <<>>
  freeSlots,   \* the listener's semaphore
  conn,        \* what each connection's thread is doing
  sessFaults, sessRequests,
  passed,      \* history: when the gate let each client through, since its
               \* last right password
  loggedOut,   \* history: tokens whose logout was answered
  unsaved,     \* history: tokens whose revocation a file error lost
  servedOut    \* history: <<token, seconds it had left>> served after a logout
               \* that no file error had lost

sessVars == <<sessClock, sessions, revoked, revokedFile, attempts, freeSlots, conn,
              sessFaults, sessRequests, passed, loggedOut, unsaved, servedOut>>
sessLog == <<passed, loggedOut, unsaved, servedOut>>

NoConn == [at |-> "none"]
InFlight == {k \in Connections : conn[k] # NoConn}

SessInit ==
  /\ sessClock = 0 /\ sessions = <<>>
  /\ revoked = {} /\ revokedFile = {}
  /\ attempts = [c \in Clients \cup Proxies |-> <<>>]
  /\ freeSlots = MaxConnections
  /\ conn = [k \in Connections |-> NoConn]
  /\ sessFaults = 0 /\ sessRequests = 0
  /\ passed = [c \in Clients |-> <<>>]
  /\ loggedOut = {} /\ unsaved = {} /\ servedOut = {}

SessFault == sessFaults < SessFaults /\ sessFaults' = sessFaults + 1
NoSessFault == UNCHANGED sessFaults

-----------------------------------------------------------------------------
(* The listener                                                            *)

\* process_request: a slot or a closed socket, never a wait.  The thread that
\* could not be started gives its slot back at once.  The peer is the client, or a
\* proxy it comes through.
Connect(k, c) ==
  /\ conn[k] = NoConn /\ freeSlots > 0
  /\ sessRequests < SessRequests /\ sessRequests' = sessRequests + 1
  /\ \/ /\ \E p \in {c} \cup Proxies : conn' = [conn EXCEPT ![k] = [at |-> "read", who |-> c, peer |-> p]]
        /\ freeSlots' = freeSlots - 1
        /\ NoSessFault
     \/ SessFault /\ UNCHANGED <<conn, freeSlots>>
  /\ UNCHANGED <<sessClock, sessions, revoked, revokedFile, attempts, sessLog>>

\* Broken form for PanelTypeOK: a thread that ends keeps its slot.
HangupKeepsSlot(k) ==
  /\ conn' = [conn EXCEPT ![k] = NoConn]
  /\ UNCHANGED freeSlots

\* The thread is over, and the connection's slot is free.
Hangup(k) ==
  /\ conn' = [conn EXCEPT ![k] = NoConn]
  /\ freeSlots' = freeSlots + 1

\* resolve_client_ip: the header counts only if a declared proxy has sent it, and
\* then its last address that is no such proxy.
ResolveClient(peer, hops) ==
  LET given == SelectInSeq(Reverse(hops), LAMBDA h : h \notin Proxies) IN
  IF peer \in Proxies /\ given # 0 THEN Reverse(hops)[given] ELSE peer

\* What X-Forwarded-For says: anything, to which a proxy appends whom it saw.
Headers(c, peer) ==
  LET claims == {<<>>} \cup {<<d>> : d \in Clients \cup Proxies} IN
  IF peer = c THEN claims ELSE {h \o <<c>> : h \in claims}

\* do_POST up to the route: what the peer asked, or nothing within the socket's
\* timeout.  A session comes with the csrf value it was issued with or not.
ReadRequest(k) ==
  /\ conn[k].at = "read"
  /\ \/ \E right \in BOOLEAN, hops \in Headers(conn[k].who, conn[k].peer) :
          conn' = [conn EXCEPT ![k] = [at |-> "login", who |-> @.who, right |-> right,
                                       from |-> ResolveClient(@.peer, hops)]]
     \/ \E j \in DOMAIN sessions, route \in {"call", "logout"} :
          conn' = [conn EXCEPT ![k] = [at |-> route, jti |-> j, late |-> j \in loggedOut]]
     \/ conn' = [conn EXCEPT ![k] = [at |-> "done"]]
  /\ UNCHANGED <<sessClock, sessions, revoked, revokedFile, attempts, freeSlots, sessFaults,
                 sessRequests, sessLog>>

EndRequest(k) ==
  /\ conn[k].at = "done"
  /\ Hangup(k)
  /\ UNCHANGED <<sessClock, sessions, revoked, revokedFile, attempts, sessFaults,
                 sessRequests, sessLog>>

-----------------------------------------------------------------------------
(* The login                                                               *)

\* _sweep_login_attempts drops the buckets whose newest attempt has aged out.
\* Broken form for SessionsSafe: those whose oldest attempt has.
StaleByOldest(bucket) == bucket # <<>> /\ bucket[1] < sessClock - LoginWindow

Expired(bucket) == bucket # <<>> /\ bucket[Len(bucket)] < sessClock - LoginWindow

Swept ==
  IF Cardinality({c \in DOMAIN attempts : attempts[c] # <<>>}) > SweepAt
  THEN [c \in DOMAIN attempts |-> IF Expired(attempts[c]) THEN <<>> ELSE attempts[c]]
  ELSE attempts

\* What is left of a bucket when the attempts before the window have been taken off
\* its front.
Live(times) ==
  LET recent(t) == t >= sessClock - LoginWindow
      first == SelectInSeq(times, recent)
  IN IF first = 0 THEN <<>> ELSE SubSeq(times, first, Len(times))

\* login_attempt_gate, under AUTH_STATE_LOCK: the attempt is charged before the
\* password is looked at, or refused.
LoginGate(k) ==
  LET c == conn[k].from
      w == conn[k].who
      bucket == Live(Swept[c])
  IN
  /\ conn[k].at = "login"
  /\ IF Len(bucket) >= LoginMax
     THEN /\ attempts' = [Swept EXCEPT ![c] = bucket]
          /\ conn' = [conn EXCEPT ![k] = [at |-> "done"]]
          /\ UNCHANGED passed
     ELSE /\ attempts' = [Swept EXCEPT ![c] = Append(bucket, sessClock)]
          /\ conn' = [conn EXCEPT ![k] = [@ EXCEPT !.at = "check"]]
          /\ passed' = [passed EXCEPT ![w] = Append(@, sessClock)]
  /\ UNCHANGED <<sessClock, sessions, revoked, revokedFile, freeSlots, sessFaults,
                 sessRequests, loggedOut, unsaved, servedOut>>

\* The comparison: a wrong password is answered after its delay; a right one
\* refunds the address's whole bucket.
CheckPassword(k) ==
  LET c == conn[k].from IN
  /\ conn[k].at = "check"
  /\ \/ /\ ~conn[k].right
        /\ conn' = [conn EXCEPT ![k] = [at |-> "done"]]
        /\ UNCHANGED <<attempts, passed>>
     \/ /\ conn[k].right
        /\ conn' = [conn EXCEPT ![k] = [at |-> "issue"]]
        /\ attempts' = [attempts EXCEPT ![c] = <<>>]
        /\ passed' = [passed EXCEPT ![conn[k].who] = <<>>]
  /\ UNCHANGED <<sessClock, sessions, revoked, revokedFile, freeSlots, sessFaults,
                 sessRequests, loggedOut, unsaved, servedOut>>

\* issue_session_token.
IssueToken(k) ==
  /\ conn[k].at = "issue"
  /\ sessions' = Append(sessions, sessClock + SessionTTL)
  /\ conn' = [conn EXCEPT ![k] = [at |-> "done"]]
  /\ UNCHANGED <<sessClock, revoked, revokedFile, attempts, freeSlots, sessFaults,
                 sessRequests, sessLog>>

-----------------------------------------------------------------------------
(* The sessions                                                            *)

\* verify_session_token.
TokenValid(j) == sessions[j] >= sessClock /\ j \notin revoked

\* _auth_ok of any other route: the command is run, or refused with a 401.
Serve(k) ==
  /\ conn[k].at = "call"
  /\ conn' = [conn EXCEPT ![k] = [at |-> "done"]]
  /\ servedOut' = IF TokenValid(conn[k].jti) /\ conn[k].late /\ conn[k].jti \notin unsaved
                  THEN servedOut \cup {<<conn[k].jti, sessions[conn[k].jti] - sessClock>>}
                  ELSE servedOut
  /\ UNCHANGED <<sessClock, sessions, revoked, revokedFile, attempts, freeSlots, sessFaults,
                 sessRequests, passed, loggedOut, unsaved>>

\* /api/logout: a valid token is revoked in the next step, any other is answered
\* ok as well; without the csrf value nothing happens.
Logout(k) ==
  /\ conn[k].at = "logout"
  /\ \/ /\ TokenValid(conn[k].jti)
        /\ conn' = [conn EXCEPT ![k] = [@ EXCEPT !.at = "revoke"]]
     \/ conn' = [conn EXCEPT ![k] = [at |-> "done"]]
  /\ UNCHANGED <<sessClock, sessions, revoked, revokedFile, attempts, freeSlots, sessFaults,
                 sessRequests, sessLog>>

\* revoke_token and _save_revocations: the whole table goes to the file, in one
\* rename; a file error is only logged.
RevokeToken(k) ==
  /\ conn[k].at = "revoke"
  /\ revoked' = revoked \cup {conn[k].jti}
  /\ \/ /\ revokedFile' = revoked'
        /\ unsaved' = unsaved \ revoked'
        /\ NoSessFault
     \/ /\ SessFault
        /\ unsaved' = unsaved \cup {conn[k].jti}
        /\ UNCHANGED revokedFile
  /\ loggedOut' = loggedOut \cup {conn[k].jti}
  /\ conn' = [conn EXCEPT ![k] = [at |-> "done"]]
  /\ UNCHANGED <<sessClock, sessions, attempts, freeSlots, sessRequests, passed, servedOut>>

\* The panel restarts: the gate forgets, and _load_revocations takes what has
\* not expired from the file, or nothing when the file cannot be read.
RestartPanel ==
  /\ sessRequests < SessRequests /\ sessRequests' = sessRequests + 1
  /\ conn' = [k \in Connections |-> NoConn] /\ freeSlots' = MaxConnections
  /\ attempts' = [c \in Clients \cup Proxies |-> <<>>] /\ passed' = [c \in Clients |-> <<>>]
  /\ \/ /\ revoked' = {j \in revokedFile : sessions[j] > sessClock}
        /\ NoSessFault /\ UNCHANGED unsaved
     \/ /\ revokedFile # {} /\ SessFault
        /\ revoked' = {} /\ unsaved' = unsaved \cup revokedFile
  /\ UNCHANGED <<sessClock, sessions, revokedFile, loggedOut, servedOut>>

SessTick ==
  /\ sessClock < SessClockMax /\ sessClock' = sessClock + 1
  /\ UNCHANGED <<sessions, revoked, revokedFile, attempts, freeSlots, conn, sessFaults,
                 sessRequests, sessLog>>

SessNext ==
  \/ \E k \in Connections :
       \/ \E c \in Clients : Connect(k, c)
       \/ ReadRequest(k) \/ EndRequest(k)
       \/ LoginGate(k) \/ CheckPassword(k) \/ IssueToken(k)
       \/ Serve(k) \/ Logout(k) \/ RevokeToken(k)
  \/ RestartPanel \/ SessTick

SessSpec == SessInit /\ [][SessNext]_sessVars

-----------------------------------------------------------------------------
(* Properties                                                              *)

\* Type invariant; every slot is free or held by one connection.
SessTypeOK ==
  /\ sessClock \in Nat /\ \A j \in DOMAIN sessions : sessions[j] \in Nat
  /\ revoked \cup revokedFile \subseteq DOMAIN sessions
  /\ \A c \in DOMAIN attempts : Len(attempts[c]) <= LoginMax
  /\ freeSlots + Cardinality(InFlight) = MaxConnections

\* However many connections try at once, whatever is swept meanwhile and whatever
\* a forwarded header claims, a client gets no more than LoginMax passwords looked at within any window
\* that ends now, unless one of them was right.
QuotaKept == \A c \in Clients : Len(Live(passed[c])) <= LoginMax

\* A token whose logout was answered is not served again, not after a restart
\* either, unless a file error lost the revocation; and but for the token's last
\* second, which verify still accepts when load has dropped the revocation.
LogoutLasts == \A s \in servedOut : s[2] = 0

\* Both: the front door keeps its promises across threads, sweeps and restarts.
SessionsSafe == QuotaKept /\ LogoutLasts
=============================================================================
