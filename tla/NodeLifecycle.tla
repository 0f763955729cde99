--------------------------- MODULE NodeLifecycle ---------------------------
(***************************************************************************)
(* node.Node: Register, Start, Stop and Wait (node/node.go), as called by  *)
(* cmd/perception/main.go and by other users of the package.               *)
(*                                                                         *)
(* A caller is a goroutine that makes one call at a time.  The lock is a   *)
(* sync.RWMutex: a caller that waits in Lock keeps new readers out.  The   *)
(* n-th successful Start makes the n-th stop channel.                      *)
(***************************************************************************)
EXTENDS Naturals, FiniteSets

CONSTANTS
    Callers,
    Calls,         \* Calls[c] \subseteq {"Register", "Start", "Stop", "Wait"}
    MaxStarts,     \* bound on the number of Starts
    MaxServices    \* bound on the number of registered constructors

Free == "nobody"   \* owner of a lock that nobody holds

ASSUME NodeAssumption ==
    /\ Free \notin Callers
    /\ Calls \in [Callers -> SUBSET {"Register", "Start", "Stop", "Wait"}]
    /\ MaxStarts \in Nat /\ MaxServices \in Nat

VARIABLES
    serviceFuncs,  \* number of registered constructors
    services,      \* number of services of n.services
    server,        \* n.server: the number of the Start that set it, 0 for nil
    stop,          \* n.stop: the number of the Start that made it, 0 for nil
    closed,        \* the stop channels that are closed
    live,          \* p2p servers whose host is open
    starts,        \* number of the last Start
    panicked,      \* a nil or closed channel was closed
    writer, readers, waiting,   \* the RWMutex: owner, owners, callers inside Lock
    pc, ch         \* per caller: control, and the channel Wait has read

lifecycleVars == <<serviceFuncs, services, server, stop, closed, live, starts, panicked,
                   writer, readers, waiting, pc, ch>>
nodeVars == <<serviceFuncs, services, server, stop, closed, live, starts, panicked>>
lockVars == <<writer, readers, waiting>>

NodeInit ==
    /\ serviceFuncs = 0 /\ services = 0 /\ server = 0 /\ stop = 0 /\ closed = {} /\ live = {}
    /\ starts = 0 /\ panicked = FALSE
    /\ writer = Free /\ readers = {} /\ waiting = {}
    /\ pc = [c \in Callers |-> "idle"] /\ ch = [c \in Callers |-> 0]

-----------------------------------------------------------------------------
(* sync.RWMutex *)

\* Lock: announce the writer, then wait for the owners to leave.
Call(c, op) ==
    /\ pc[c] = "idle" /\ op \in Calls[c] \ {"Wait"}
    /\ op = "Start" => starts < MaxStarts
    /\ op = "Register" => serviceFuncs < MaxServices
    /\ waiting' = waiting \cup {c}
    /\ pc' = [pc EXCEPT ![c] = op]
    /\ UNCHANGED <<nodeVars, writer, readers, ch>>

Acquire(c) ==
    /\ c \in waiting /\ writer = Free /\ readers = {}
    /\ waiting' = waiting \ {c}
    /\ writer' = c
    /\ UNCHANGED <<nodeVars, readers, pc, ch>>

Release == writer' = Free

\* The deferred Unlock and the return to the caller.
Leave(c) == Release /\ pc' = [pc EXCEPT ![c] = "idle"]

-----------------------------------------------------------------------------
Register(c) ==
    /\ writer = c /\ pc[c] = "Register"
    /\ serviceFuncs' = serviceFuncs + 1
    /\ Leave(c)
    /\ UNCHANGED <<services, server, stop, closed, live, starts, panicked, readers, waiting, ch>>

\* A constructor, a duplicate service or server.Init fails: nothing is kept.
StartFails(c) ==
    /\ writer = c /\ pc[c] = "Start"
    /\ Leave(c)
    /\ UNCHANGED <<nodeVars, readers, waiting, ch>>

\* `go running.Start()`: the new server runs before the services start.
StartServer(c) ==
    /\ writer = c /\ pc[c] = "Start"
    /\ starts' = starts + 1
    /\ live' = live \cup {starts + 1}
    /\ pc' = [pc EXCEPT ![c] = "services"]
    /\ UNCHANGED <<serviceFuncs, services, server, stop, closed, panicked, lockVars, ch>>

\* The services start and the fields are set; or one fails, and none is.
StartServices(c) ==
    /\ writer = c /\ pc[c] = "services"
    /\ \/ server' = starts /\ stop' = starts /\ services' = serviceFuncs
       \/ serviceFuncs > 0 /\ UNCHANGED <<server, stop, services>>
    /\ Leave(c)
    /\ UNCHANGED <<serviceFuncs, closed, live, starts, panicked, readers, waiting, ch>>

\* Mutant: an early return without Unlock.
StopFailsLocked(c) ==
    /\ writer = c /\ pc[c] = "Stop"
    /\ server = 0 \/ services > 0
    /\ pc' = [pc EXCEPT ![c] = "idle"]
    /\ UNCHANGED <<nodeVars, lockVars, ch>>

\* "Node has stopped.", or a service that fails to stop.
StopFails(c) ==
    /\ writer = c /\ pc[c] = "Stop"
    /\ server = 0 \/ services > 0
    /\ Leave(c)
    /\ UNCHANGED <<nodeVars, readers, waiting, ch>>

\* Mutant: Stop without the test of n.server.
StopServerUnchecked(c) ==
    /\ writer = c /\ pc[c] = "Stop"
    /\ live' = live \ {server} /\ server' = 0
    /\ pc' = [pc EXCEPT ![c] = "close"]
    /\ UNCHANGED <<serviceFuncs, services, stop, closed, starts, panicked, lockVars, ch>>

\* Mutant: n.server is not set to nil.
StopServerKept(c) ==
    /\ writer = c /\ pc[c] = "Stop" /\ server # 0
    /\ live' = live \ {server}
    /\ pc' = [pc EXCEPT ![c] = "close"]
    /\ UNCHANGED <<serviceFuncs, services, server, stop, closed, starts, panicked, lockVars, ch>>

StopServer(c) ==
    /\ writer = c /\ pc[c] = "Stop" /\ server # 0
    /\ live' = live \ {server} /\ server' = 0
    /\ pc' = [pc EXCEPT ![c] = "close"]
    /\ UNCHANGED <<serviceFuncs, services, stop, closed, starts, panicked, lockVars, ch>>

\* close(n.stop)
CloseStop(c) ==
    /\ writer = c /\ pc[c] = "close"
    /\ panicked' = (stop \in closed \cup {0})
    /\ closed' = closed \cup {stop}
    /\ Leave(c)
    /\ UNCHANGED <<serviceFuncs, services, server, stop, live, starts, readers, waiting, ch>>

\* Wait: RLock and read n.stop; the lock is kept until <-stop returns.
Wait(c) ==
    /\ pc[c] = "idle" /\ "Wait" \in Calls[c]
    /\ writer = Free /\ waiting = {}
    /\ readers' = readers \cup {c}
    /\ ch' = [ch EXCEPT ![c] = stop]
    /\ pc' = [pc EXCEPT ![c] = "Wait"]
    /\ UNCHANGED <<nodeVars, writer, waiting>>

WaitReturns(c) ==
    /\ pc[c] = "Wait" /\ ch[c] \in closed
    /\ readers' = readers \ {c}
    /\ ch' = [ch EXCEPT ![c] = 0]
    /\ pc' = [pc EXCEPT ![c] = "idle"]
    /\ UNCHANGED <<nodeVars, writer, waiting>>

-----------------------------------------------------------------------------
Step(c) ==
    \/ Acquire(c) \/ Register(c) \/ StartFails(c) \/ StartServer(c) \/ StartServices(c)
    \/ StopFails(c) \/ StopServer(c) \/ CloseStop(c) \/ WaitReturns(c)

NodeNext == \E c \in Callers : (\E op \in Calls[c] : Call(c, op)) \/ Wait(c) \/ Step(c)

NodeSpec == NodeInit /\ [][NodeNext]_lifecycleVars

\* Every call that can go on does; a caller need not call again.  A goroutine
\* that waits in Lock gets it in the end: after a millisecond sync.Mutex is
\* handed to the first in the queue.
NodeFairSpec ==
    /\ NodeSpec
    /\ \A c \in Callers : WF_lifecycleVars(Step(c)) /\ SF_lifecycleVars(Acquire(c))

-----------------------------------------------------------------------------
\* Type invariant of the node's fields, its lock and its callers.
NodeTypeOK ==
    /\ serviceFuncs \in Nat /\ services \in Nat /\ starts \in Nat
    /\ server \in 0..starts /\ stop \in 0..starts
    /\ closed \subseteq 1..starts /\ live \subseteq 1..starts
    /\ panicked \in BOOLEAN
    /\ writer \in Callers \cup {Free}
    /\ readers \subseteq Callers /\ waiting \subseteq Callers
    /\ pc \in [Callers -> {"idle", "Register", "Start", "services", "Stop", "close", "Wait"}]
    /\ ch \in [Callers -> 0..starts]

\* Stop never closes a nil or a closed channel, which would panic: n.server is
\* not nil only while n.stop is the open channel of the same Start, also after
\* failed starts and stops and whoever calls.
NoPanic == ~panicked

\* The server that Stop will close is one whose host is open, and n.stop is the
\* open channel of the same Start: the fields change together under the lock.
RunningIsStoppable ==
    server # 0 => server \in live /\ stop = server /\ stop \notin closed

\* Some Wait is inside <-stop with the read lock, on a channel that only Stop
\* could close, under the write lock.
Blocked == \E c \in Callers : pc[c] = "Wait" /\ ch[c] \notin closed

\* Every call of Register, Start, Stop and Wait returns, whichever of them fail:
\* each early return gives the lock back, and nothing but a Wait on a running (or
\* never started) node can keep the others out.
CallsReturn == \A c \in Callers : (pc[c] # "idle") ~> (pc[c] = "idle" \/ Blocked)

=============================================================================
