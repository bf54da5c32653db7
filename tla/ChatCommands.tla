---------------------------- MODULE ChatCommands ----------------------------
(***************************************************************************)
(* Chat commands (src/scripts/admin_chatcmd.py): a daemon that runs one    *)
(* tick after another.  A tick copies the game chat through a queue of its *)
(* own on the broker, takes up to DRAIN_MAX messages off it without        *)
(* acknowledgement, and executes the commands among them.  "kit" gives     *)
(* items, and a cooldown per player keeps kits apart.                      *)
(*                                                                         *)
(* What survives a tick is one file: whether the queue is believed to be   *)
(* there, and the instants of the last commands.  The cooldowns go to disk *)
(* at the end of the tick, after everything has been handed out.           *)
(*                                                                         *)
(* The queue is declared transient on the broker, which starts anew with   *)
(* the container; the file stays.  A message is the player who said "!kit";*)
(* ping and ordinary chat change nothing but their own cooldown.  Instants *)
(* are kept as ages, up to the longest cooldown.                           *)
(***************************************************************************)
EXTENDS Integers, Sequences, FiniteSetsExt

CONSTANTS
  Chatters,    \* players
  Cooldowns,   \* the values cooldown_secs is given
  DrainMax,    \* DRAIN_MAX
  QueueMax,    \* x-max-length of the queue
  ChatFaults,  \* bound: failed calls, crashes, broker restarts
  ChatOps,     \* bound: configuration changes
  Unsaid

ASSUME ChatAssumption ==
  /\ IsFiniteSet(Cooldowns) /\ Cooldowns # {} /\ Cooldowns \subseteq Nat \ {0}
  /\ {DrainMax, QueueMax} \subseteq Nat \ {0}
  /\ {ChatFaults, ChatOps} \subseteq Nat
  /\ Unsaid \notin Int

VARIABLES
  chatOn, cooldown,  \* chat-commands.json
  queueReady,   \* state file: queue_ready
  stamps,       \* state file: age of a player's last kit command, or Unsaid
  chatQueue,    \* broker: "none", or the sequence of messages in the queue
  chatTick,     \* what the tick is doing
  chatFaults, chatOps,
  kitAge,       \* history: age of the last kit items given to a player
  leastWait,    \* history: the shortest cooldown since then
  forgotten,    \* history: a crash lost the instant of that kit
  dropFailed,   \* history: a chat-queue-drop failed
  hurried       \* history: players given a kit within a cooldown nothing excuses

chatConfig == <<chatOn, cooldown>>
chatFile == <<queueReady, stamps>>
chatHistory == <<kitAge, leastWait, forgotten, dropFailed, hurried>>
chatVars == <<chatConfig, chatFile, chatQueue, chatTick, chatFaults, chatOps, chatHistory>>

NoQueue == [there |-> FALSE, said |-> <<>>]
Queued(said) == [there |-> TRUE, said |-> said]
BetweenTicks == [at |-> "sleep", messages |-> <<>>, stamps |-> [p \in Chatters |-> Unsaid]]
Longest == Max(Cooldowns)
ChatAges == {Unsaid} \cup 0..Longest
Aging(age) == IF age = Unsaid THEN Unsaid ELSE Min({age + 1, Longest})

ChatInit ==
  /\ chatOn = FALSE
  /\ cooldown \in Cooldowns
  /\ queueReady = FALSE
  /\ stamps = [p \in Chatters |-> Unsaid]
  /\ chatQueue = NoQueue
  /\ chatTick = BetweenTicks
  /\ chatFaults = 0 /\ chatOps = 0
  /\ kitAge = [p \in Chatters |-> Unsaid]
  /\ leastWait = [p \in Chatters |-> Longest]
  /\ forgotten = {}
  /\ dropFailed = FALSE
  /\ hurried = {}

-----------------------------------------------------------------------------
(* A tick                                                                  *)

ChatFault == chatFaults < ChatFaults /\ chatFaults' = chatFaults + 1
NoChatFault == UNCHANGED chatFaults

\* CooldownLedger.ready.
Ready(age) == ~(age # Unsaid /\ age < cooldown)

\* Switched off: the queue is dropped once, and the file says it was, whether
\* or not the broker did it.
DropQueue ==
  /\ chatTick.at = "sleep" /\ ~chatOn /\ queueReady
  /\ queueReady' = FALSE
  /\ \/ /\ chatQueue' = NoQueue
        /\ NoChatFault /\ UNCHANGED dropFailed
     \/ /\ ChatFault
        /\ dropFailed' = TRUE
        /\ UNCHANGED chatQueue
  /\ UNCHANGED <<chatConfig, stamps, chatTick, chatOps, kitAge, leastWait, forgotten, hurried>>

\* chat-queue-init, idempotent; a failure ends the tick.
InitQueue ==
  /\ chatTick.at = "sleep" /\ chatOn /\ ~queueReady
  /\ queueReady' = TRUE
  /\ chatQueue' = [chatQueue EXCEPT !.there = TRUE]
  /\ chatTick' = [chatTick EXCEPT !.at = "drain"]
  /\ UNCHANGED <<chatConfig, stamps, chatFaults, chatOps, chatHistory>>

\* The next tick, or the rest of the first: chat-drain takes messages off the
\* queue.  Without a queue it prints NOQUEUE and succeeds.  When it fails, what
\* it had taken is gone.
Drain ==
  LET taken == SubSeq(chatQueue.said, 1, Min({DrainMax, Len(chatQueue.said)}))
      left == SubSeq(chatQueue.said, Len(taken) + 1, Len(chatQueue.said))
  IN
  /\ \/ chatTick.at = "sleep" /\ chatOn /\ queueReady
     \/ chatTick.at = "drain"
  /\ chatQueue' = [chatQueue EXCEPT !.said = left]
  /\ \/ /\ chatTick' = [at |-> "execute", messages |-> taken, stamps |-> stamps]
        /\ NoChatFault
     \/ /\ ChatFault
        /\ chatTick' = BetweenTicks
  /\ UNCHANGED <<chatConfig, chatFile, chatOps, chatHistory>>

\* The items of the kit go out, whatever becomes of each.
GiveKit(p) ==
  /\ hurried' = IF kitAge[p] # Unsaid /\ p \notin forgotten
                THEN hurried \cup {q \in {p} : kitAge[q] < leastWait[q]} ELSE hurried
  /\ kitAge' = [kitAge EXCEPT ![p] = 0]
  /\ leastWait' = [leastWait EXCEPT ![p] = cooldown]
  /\ forgotten' = forgotten \ {p}
  /\ UNCHANGED dropFailed

\* Broken form for ChatSafe: the instant is stamped on the check (allow).
ExecuteStampsFirst ==
  LET p == Head(chatTick.messages)
      next == [chatTick EXCEPT !.messages = Tail(@)]
  IN
  /\ chatTick.at = "execute" /\ chatTick.messages # <<>>
  /\ \/ /\ ~Ready(chatTick.stamps[p])
        /\ chatTick' = next
        /\ NoChatFault /\ UNCHANGED chatHistory
     \/ /\ Ready(chatTick.stamps[p])
        /\ chatTick' = [next EXCEPT !.stamps[p] = 0]
        /\ \/ ChatFault /\ UNCHANGED chatHistory
           \/ NoChatFault /\ GiveKit(p)
  /\ UNCHANGED <<chatConfig, chatFile, chatQueue, chatOps>>

\* One message: nothing on cooldown, nothing when the account cannot be
\* resolved, otherwise the instant is noted and the items go out.
Execute ==
  LET p == Head(chatTick.messages)
      next == [chatTick EXCEPT !.messages = Tail(@)]
  IN
  /\ chatTick.at = "execute" /\ chatTick.messages # <<>>
  /\ \/ /\ ~Ready(chatTick.stamps[p])
        /\ chatTick' = next
        /\ NoChatFault /\ UNCHANGED chatHistory
     \/ /\ Ready(chatTick.stamps[p])
        /\ ChatFault
        /\ chatTick' = next
        /\ UNCHANGED chatHistory
     \/ /\ Ready(chatTick.stamps[p])
        /\ chatTick' = [next EXCEPT !.stamps[p] = 0]
        /\ NoChatFault /\ GiveKit(p)
  /\ UNCHANGED <<chatConfig, chatFile, chatQueue, chatOps>>

\* CooldownLedger.state and _save_json: expired instants are pruned.
SaveCooldowns ==
  /\ chatTick.at = "execute" /\ chatTick.messages = <<>>
  /\ stamps' = [p \in Chatters |-> IF Ready(chatTick.stamps[p]) THEN Unsaid
                                   ELSE chatTick.stamps[p]]
  /\ chatTick' = BetweenTicks
  /\ UNCHANGED <<chatConfig, queueReady, chatQueue, chatFaults, chatOps, chatHistory>>

\* The container stops: the broker comes back without the queue, the tick
\* is lost, the file stays.
ContainerRestart ==
  /\ ChatFault
  /\ chatQueue' = NoQueue
  /\ chatTick' = BetweenTicks
  /\ forgotten' = forgotten \cup
       {p \in Chatters : chatTick.at = "execute" /\ chatTick.stamps[p] # stamps[p]}
  /\ UNCHANGED <<chatConfig, chatFile, chatOps, kitAge, leastWait, dropFailed, hurried>>

-----------------------------------------------------------------------------
(* Players, the operator, the clock                                        *)

\* A copy of the message; a full queue drops its head.
SayKit(p) ==
  /\ chatQueue.there
  /\ chatQueue' = LET said == Append(chatQueue.said, p) IN
                  Queued(IF Len(said) > QueueMax THEN Tail(said) ELSE said)
  /\ UNCHANGED <<chatConfig, chatFile, chatTick, chatFaults, chatOps, chatHistory>>

ChatOp == chatOps < ChatOps /\ chatOps' = chatOps + 1

SwitchChat ==
  /\ ChatOp /\ chatTick.at = "sleep"
  /\ chatOn' = ~chatOn
  /\ UNCHANGED <<cooldown, chatFile, chatQueue, chatTick, chatFaults, chatHistory>>

SetCooldown(n) ==
  /\ ChatOp /\ chatTick.at = "sleep" /\ n # cooldown
  /\ cooldown' = n
  /\ leastWait' = [p \in Chatters |-> Min({leastWait[p], n})]
  /\ UNCHANGED <<chatOn, chatFile, chatQueue, chatTick, chatFaults, kitAge, forgotten,
                 dropFailed, hurried>>

ChatClock ==
  /\ chatTick.at = "sleep"
  /\ stamps' = [p \in Chatters |-> Aging(stamps[p])]
  /\ kitAge' = [p \in Chatters |-> Aging(kitAge[p])]
  /\ UNCHANGED <<chatConfig, queueReady, chatQueue, chatTick, chatFaults, chatOps,
                 leastWait, forgotten, dropFailed, hurried>>

ChatNext ==
  \/ DropQueue \/ InitQueue \/ Drain \/ Execute \/ SaveCooldowns \/ ContainerRestart
  \/ \E p \in Chatters : SayKit(p)
  \/ SwitchChat \/ \E n \in Cooldowns : SetCooldown(n)
  \/ ChatClock

ChatSpec == ChatInit /\ [][ChatNext]_chatVars

-----------------------------------------------------------------------------
(* Properties                                                              *)

\* Type invariant of the chat commands.
ChatTypeOK ==
  /\ chatOn \in BOOLEAN /\ cooldown \in Cooldowns /\ queueReady \in BOOLEAN
  /\ stamps \in [Chatters -> ChatAges] /\ kitAge \in [Chatters -> ChatAges]
  /\ chatQueue \in [there : BOOLEAN, said : Seq(Chatters)]
  /\ Len(chatQueue.said) <= QueueMax /\ Len(chatTick.messages) <= DrainMax
  /\ chatTick.at \in {"sleep", "drain", "execute"} /\ hurried \subseteq Chatters

\* Two kits of one player are a cooldown apart (the shortest that was in force
\* in between), across ticks, restarts of the daemon and pruning of the file,
\* unless the container died between the items and the write of the file.
KitsApart == hurried = {}

\* A player waits out a cooldown only for a kit that was given: an instant in
\* the file, or in the tick's ledger, is that of a delivery.
NothingForNothing ==
  \A p \in Chatters :
    /\ stamps[p] # Unsaid => kitAge[p] # Unsaid /\ kitAge[p] <= stamps[p]
    /\ chatTick.stamps[p] # Unsaid => kitAge[p] # Unsaid /\ kitAge[p] <= chatTick.stamps[p]

\* The copy of the chat is kept only for a tick to take: while commands are on,
\* or until the next tick finds them off.  A drop that failed is not retried.
CopyDropped ==
  chatQueue.there /\ chatTick.at = "sleep" /\ ~chatOn => queueReady \/ dropFailed

\* The three, of one file that a tick, a switch and a restart all touch.
ChatSafe == KitsApart /\ NothingForNothing /\ CopyDropped
=============================================================================
