-------------------------------- MODULE Feed --------------------------------
(***************************************************************************)
(* One-to-many delivery of events: event/feed.go.                          *)
(*                                                                         *)
(* Goroutines send on one Feed, subscribe channels to it and cancel their  *)
(* subscriptions, all concurrently.  The channels are buffered and read by *)
(* their owners, who may be slow or stop reading.  Several subscriptions   *)
(* may share a channel.  What is sent does not matter, only how often a    *)
(* channel gets it; the case for removeSub at the head of sendCases is     *)
(* left out of the list.  All values have the type of the feed.            *)
(***************************************************************************)
EXTENDS Naturals, Sequences, FiniteSets, Functions

CONSTANTS
    Senders,     \* goroutines calling Send
    Subs,        \* subscriptions (feedSub), each renewed after it was cancelled
    Channels,
    ChanOf,      \* the channel of a subscription
    ChanCap      \* the buffer of a channel

\* A list of cases is told from the one that records a panic.
ASSUME FeedAssumption ==
    /\ IsFiniteSet(Subs) /\ ChanOf \in [Subs -> Channels]
    /\ ChanCap \in [Channels -> Nat \ {0}] /\ "panic" \notin Channels

VARIABLES
    sendCases,   \* the channels of the active select cases
    inbox,       \* channels not yet in sendCases
    sendLock,    \* whether the token is in the sendLock channel
    active,      \* len(cases): how many of sendCases are still to be sent to
    next,        \* i, the index of the non-blocking loop
    send,        \* where each sender is in Send
    sub,         \* where each subscription is between Subscribe and the end of Unsubscribe
    buffered,    \* values waiting in each channel
    expected,    \* subscriptions a Send in progress owes a value: there since before it began
    reachable,   \* those the Send with the lock may deliver to: there when it took the inbox
    copies       \* how often it has put its value into each channel

vars == <<sendCases, inbox, sendLock, active, next, send, sub, buffered, expected, reachable, copies>>
ghosts == <<expected, reachable, copies>>

\* caseList.find; 0 when there is none
find(cs, ch) ==
    IF ch \in Range(cs) THEN CHOOSE i \in DOMAIN cs : cs[i] = ch /\ \A j \in 1 .. i - 1 : cs[j] # ch ELSE 0

\* caseList.delete; deleting at index -1 panics, which Panicked records
delete(cs, index) == SubSeq(cs, 1, index - 1) \o SubSeq(cs, index + 1, Len(cs))
Panicked == <<"panic">>
deleteFound(cs, ch) == IF find(cs, ch) = 0 THEN Panicked ELSE delete(cs, find(cs, ch))

\* caseList.deactivate on the first n of cs
deactivate(cs, n, index) == [cs EXCEPT ![index] = cs[n], ![n] = cs[index]]

hasRoom(ch) == buffered[ch] < ChanCap[ch]
isLive(u) == sub[u] \in {"subscribed", "remove", "select", "locked"}

Init ==
    /\ sendCases = << >> /\ inbox = << >> /\ sendLock = TRUE /\ active = 0 /\ next = 1
    /\ send = [s \in Senders |-> "idle"]
    /\ sub = [u \in Subs |-> "none"]
    /\ buffered = [c \in Channels |-> 0]
    /\ expected = [s \in Senders |-> {}] /\ reachable = {} /\ copies = [c \in Channels |-> 0]

-----------------------------------------------------------------------------
(* Subscriptions *)

Subscribe(u) ==
    /\ sub[u] = "none"
    /\ sub' = [sub EXCEPT ![u] = "subscribed"]
    /\ inbox' = Append(inbox, ChanOf[u])
    /\ UNCHANGED <<sendCases, sendLock, active, next, send, buffered, ghosts>>

\* Unsubscribe is called; errOnce lets one call through to remove.
Unsubscribe(u) ==
    /\ sub[u] = "subscribed"
    /\ sub' = [sub EXCEPT ![u] = "remove"]
    /\ expected' = [s \in Senders |-> expected[s] \ {u}]
    /\ UNCHANGED <<sendCases, inbox, sendLock, active, next, send, buffered, reachable, copies>>

\* Mutant: the inbox is not looked at.
RemoveSkipInbox(u) ==
    /\ sub[u] = "remove" /\ sub' = [sub EXCEPT ![u] = "select"]
    /\ UNCHANGED <<sendCases, inbox, sendLock, active, next, send, buffered, ghosts>>

\* remove, first part, under mu
RemoveFromInbox(u) ==
    /\ sub[u] = "remove"
    /\ IF find(inbox, ChanOf[u]) # 0
       THEN inbox' = deleteFound(inbox, ChanOf[u]) /\ sub' = [sub EXCEPT ![u] = "close"]
       ELSE sub' = [sub EXCEPT ![u] = "select"] /\ UNCHANGED inbox
    /\ UNCHANGED <<sendCases, sendLock, active, next, send, buffered, ghosts>>

\* remove, the select: with the lock when no Send is in progress
RemoveTakeLock(u) ==
    /\ sub[u] = "select" /\ sendLock
    /\ sendLock' = FALSE /\ sub' = [sub EXCEPT ![u] = "locked"]
    /\ UNCHANGED <<sendCases, inbox, active, next, send, buffered, ghosts>>

RemoveLocked(u) ==
    /\ sub[u] = "locked"
    /\ sendCases' = deleteFound(sendCases, ChanOf[u])
    /\ sendLock' = TRUE /\ sub' = [sub EXCEPT ![u] = "close"]
    /\ UNCHANGED <<inbox, active, next, send, buffered, ghosts>>

\* Mutant: the cases shrink although the removed one was served already.
RemoveBySendShrinks(u, s) ==
    /\ sub[u] = "select" /\ send[s] = "select"
    /\ sendCases' = deleteFound(sendCases, ChanOf[u])
    /\ active' = active - 1
    /\ sub' = [sub EXCEPT ![u] = "close"]
    /\ send' = [send EXCEPT ![s] = "try"] /\ next' = 1
    /\ UNCHANGED <<inbox, sendLock, buffered, ghosts>>

\* Mutant: Send does not listen on removeSub.
RemoveNotBySend(u, s) ==
    /\ FALSE /\ sub[u] = "select" /\ send[s] = "select"
    /\ UNCHANGED vars

\* remove, the select: the channel is handed to the Send in progress, in its select
RemoveBySend(u, s) ==
    /\ sub[u] = "select" /\ send[s] = "select"
    /\ LET index == find(sendCases, ChanOf[u])
       IN  /\ sendCases' = deleteFound(sendCases, ChanOf[u])
           /\ active' = IF index \in 1 .. active THEN active - 1 ELSE active
    /\ sub' = [sub EXCEPT ![u] = "close"]
    /\ send' = [send EXCEPT ![s] = "try"] /\ next' = 1
    /\ UNCHANGED <<inbox, sendLock, buffered, ghosts>>

\* close(sub.err), and Unsubscribe returns
CloseErr(u) ==
    /\ sub[u] = "close" /\ sub' = [sub EXCEPT ![u] = "none"]
    /\ UNCHANGED <<sendCases, inbox, sendLock, active, next, send, buffered, ghosts>>

\* The owner of a channel takes a value.
Receive(c) ==
    /\ buffered[c] > 0 /\ buffered' = [buffered EXCEPT ![c] = @ - 1]
    /\ UNCHANGED <<sendCases, inbox, sendLock, active, next, send, sub, ghosts>>

-----------------------------------------------------------------------------
(* Send *)

Send(s) ==
    /\ send[s] = "idle"
    /\ send' = [send EXCEPT ![s] = "lock"]
    /\ expected' = [expected EXCEPT ![s] = {u \in Subs : sub[u] = "subscribed"}]
    /\ UNCHANGED <<sendCases, inbox, sendLock, active, next, sub, buffered, reachable, copies>>

TakeSendLock(s) ==
    /\ send[s] = "lock" /\ sendLock
    /\ sendLock' = FALSE /\ send' = [send EXCEPT ![s] = "merge"]
    /\ UNCHANGED <<sendCases, inbox, active, next, sub, buffered, ghosts>>

\* Under mu: the inbox is added to the cases.
TakeInbox(s) ==
    /\ send[s] = "merge"
    /\ sendCases' = sendCases \o inbox /\ inbox' = << >>
    /\ active' = Len(sendCases') /\ next' = 1
    /\ send' = [send EXCEPT ![s] = "try"]
    /\ reachable' = {u \in Subs : isLive(u)}
    /\ UNCHANGED <<sendLock, sub, buffered, expected, copies>>

\* A value goes to the case at index, which is then deactivated.
Deliver(index) ==
    LET c == sendCases[index]
    IN  /\ hasRoom(c)
        /\ buffered' = [buffered EXCEPT ![c] = @ + 1]
        /\ copies' = [copies EXCEPT ![c] = @ + 1]
        /\ sendCases' = deactivate(sendCases, active, index)
        /\ active' = active - 1

\* Mutant: the loop always ends in the select.
TrySendAlwaysSelects(s) ==
    /\ send[s] = "try"
    /\ \/ /\ next <= active /\ Deliver(next) /\ UNCHANGED <<next, send>>
       \/ /\ next <= active /\ ~hasRoom(sendCases[next])
          /\ next' = next + 1 /\ UNCHANGED <<sendCases, active, buffered, copies, send>>
       \/ /\ next > active
          /\ send' = [send EXCEPT ![s] = "select"]
          /\ UNCHANGED <<sendCases, active, buffered, copies, next>>
    /\ UNCHANGED <<inbox, sendLock, sub, expected, reachable>>

\* One turn of the loop of TrySend, or its end
TrySend(s) ==
    /\ send[s] = "try"
    /\ \/ /\ next <= active /\ Deliver(next) /\ UNCHANGED <<next, send>>
       \/ /\ next <= active /\ ~hasRoom(sendCases[next])
          /\ next' = next + 1 /\ UNCHANGED <<sendCases, active, buffered, copies, send>>
       \/ /\ next > active
          /\ send' = [send EXCEPT ![s] = IF active = 0 THEN "unlock" ELSE "select"]
          /\ UNCHANGED <<sendCases, active, buffered, copies, next>>
    /\ UNCHANGED <<inbox, sendLock, sub, expected, reachable>>

\* reflect.Select chooses a channel that has room.
SelectSend(s) ==
    /\ send[s] = "select"
    /\ \E index \in 1 .. active : Deliver(index)
    /\ send' = [send EXCEPT ![s] = "try"] /\ next' = 1
    /\ UNCHANGED <<inbox, sendLock, sub, expected, reachable>>

ReturnSendLock(s) ==
    /\ send[s] = "unlock"
    /\ sendLock' = TRUE /\ send' = [send EXCEPT ![s] = "idle"] /\ next' = 1
    /\ expected' = [expected EXCEPT ![s] = {}] /\ reachable' = {} /\ copies' = [c \in Channels |-> 0]
    /\ UNCHANGED <<sendCases, inbox, active, sub, buffered>>

-----------------------------------------------------------------------------
SendStep(s) == TakeInbox(s) \/ TrySend(s) \/ SelectSend(s) \/ ReturnSendLock(s)
RemoveWait(u) == RemoveTakeLock(u) \/ \E s \in Senders : RemoveBySend(u, s)
RemoveStep(u) == RemoveFromInbox(u) \/ RemoveLocked(u) \/ CloseErr(u)

Next ==
    \/ \E u \in Subs : Subscribe(u) \/ Unsubscribe(u) \/ RemoveStep(u) \/ RemoveWait(u)
    \/ \E s \in Senders : Send(s) \/ TakeSendLock(s) \/ SendStep(s)
    \/ \E c \in Channels : Receive(c)

\* Goroutines that can run do, and the waiters of the sendLock channel are served in turn.
\* Nobody is obliged to send, to subscribe, to unsubscribe or to receive.
Fairness ==
    /\ \A s \in Senders : WF_vars(SendStep(s)) /\ SF_vars(TakeSendLock(s))
    /\ \A u \in Subs : WF_vars(RemoveStep(u)) /\ SF_vars(RemoveWait(u))

Spec == Init /\ [][Next]_vars /\ Fairness

-----------------------------------------------------------------------------
(* Properties *)

\* How often a channel is in a list of cases, and how many subscriptions in U have it
occurrences(cs, c) == Cardinality({i \in DOMAIN cs : cs[i] = c})
subscribers(U, c) == Cardinality({u \in U : ChanOf[u] = c})

\* The cases in use are those of the subscriptions not yet removed, each once: a cancelled
\* subscription is not sent to any more, and no list lookup in remove or Send fails, whichever
\* of inbox, removeSub and sendLock the removal went through.
CasesAreSubscriptions ==
    /\ sendCases # Panicked /\ inbox # Panicked
    /\ \A c \in Channels :
        occurrences(sendCases \o inbox, c) = subscribers({u \in Subs : isLive(u)}, c)

\* When Send returns, every subscription that was there when it was called and is not being
\* cancelled has had the value, and none has had it twice ("delivered to all subscribed
\* channels").
DeliveredOnce ==
    \A s \in Senders : \A c \in Channels :
        /\ send[s] = "unlock" => copies[c] >= subscribers(expected[s], c)
        /\ send[s] \in {"try", "select", "unlock"} => copies[c] <= subscribers(reachable, c)

\* Unsubscribe returns even if nobody reads the channel and a Send is stuck on it.
UnsubscribeReturns ==
    \A u \in Subs : sub[u] = "remove" ~> sub[u] = "none"

\* Send returns if the subscribers keep reading.
SendReturns ==
    (\A c \in Channels : []<>hasRoom(c)) => \A s \in Senders : send[s] = "lock" ~> send[s] = "idle"

=============================================================================
