---------------------------- MODULE Connections ----------------------------
(***************************************************************************)
(* Admission, service and teardown of WebSocket connections, and the       *)
(* relay's Shutdown.                                                       *)
(*                                                                         *)
(* An attempt is one upgrade request.  It takes, in this order, a place    *)
(* under the global cap, a place under its address's cap and a place in    *)
(* connWG, is then upgraded (which takes it out of the HTTP server's       *)
(* sight), registered, served, and gives everything back.  Each of these   *)
(* is a step; Shutdown runs between any two of them.                       *)
(***************************************************************************)
EXTENDS Naturals, FiniteSets

CONSTANTS
    Attempts,     \* upgrade requests; a request is one attempt, never retried
    IPs,          \* peer addresses (the result of clientIP)
    IPOf,         \* the address each attempt comes from
    MaxOpen,      \* max_open
    MaxOpenPerIP  \* max_open_per_ip, 0: no cap

ASSUME ConnectionsAssumption ==
    /\ IsFiniteSet(Attempts)
    /\ IPOf \in [Attempts -> IPs]
    /\ MaxOpen \in Nat
    /\ MaxOpenPerIP \in Nat

VARIABLES
    open,          \* Server.open
    ipOpen,        \* ipConnTracker.counts, 0 for an absent address
    connWG,        \* the WaitGroup's counter
    conns,         \* the registry Server.conns
    hijacked,      \* attempts whose socket has left the HTTP server
    cancelled,     \* connections on which initiateShutdown has run
    saved,         \* connections whose audit session was handed to the store
    stage,         \* where each attempt's goroutine is
    shuttingDown,  \* the flag under connMu
    shut,          \* where Shutdown is
    todo           \* connections Shutdown's Range has yet to visit

counters == <<open, ipOpen, connWG>>
sockets  == <<conns, hijacked, cancelled, saved>>
server   == <<shuttingDown, shut, todo>>
vars     == <<counters, sockets, stage, server>>

Init ==
    /\ open = 0
    /\ ipOpen = [i \in IPs |-> 0]
    /\ connWG = 0
    /\ conns = {}
    /\ hijacked = {}
    /\ cancelled = {}
    /\ saved = {}
    /\ stage = [k \in Attempts |-> "new"]
    /\ shuttingDown = FALSE
    /\ shut = "up"
    /\ todo = {}

Goto(k, s) == stage' = [stage EXCEPT ![k] = s]

-----------------------------------------------------------------------------
(* acceptWebSocket.  A refusal gives back what was taken, last first. *)

\* reserveConnection (a compare-and-swap loop).  The HTTP server hands over no
\* request once its Shutdown has returned.
Reserve(k) ==
    /\ stage[k] = "new"
    /\ shut \notin {"wait", "done", "failed"}
    /\ IF open < MaxOpen
       THEN open' = open + 1 /\ Goto(k, "reserved")
       ELSE Goto(k, "done") /\ UNCHANGED open
    /\ UNCHANGED <<ipOpen, connWG, sockets, server>>

\* AllowNewConnection: the per-address rate.
RateLimit(k) ==
    /\ stage[k] = "reserved"
    /\ Goto(k, "allowed") \/ Goto(k, "freeOpen")
    /\ UNCHANGED <<counters, sockets, server>>

\* Mutant: the cap is compared after the place is taken.
AcquireIPLate(k) ==
    /\ stage[k] = "allowed"
    /\ ipOpen' = [ipOpen EXCEPT ![IPOf[k]] = @ + 1]
    /\ Goto(k, IF MaxOpenPerIP > 0 /\ ipOpen[IPOf[k]] > MaxOpenPerIP
               THEN "freeIP" ELSE "acquired")
    /\ UNCHANGED <<open, connWG, sockets, server>>

\* ipConnTracker.tryAcquire.
AcquireIP(k) ==
    /\ stage[k] = "allowed"
    /\ IF MaxOpenPerIP > 0 /\ ipOpen[IPOf[k]] >= MaxOpenPerIP
       THEN Goto(k, "freeOpen") /\ UNCHANGED ipOpen
       ELSE /\ ipOpen' = [ipOpen EXCEPT ![IPOf[k]] = @ + 1]
            /\ Goto(k, "acquired")
    /\ UNCHANGED <<open, connWG, sockets, server>>

\* Under connMu: refuse once the relay is stopping, count otherwise.
TrackConn(k) ==
    /\ stage[k] = "acquired"
    /\ IF shuttingDown
       THEN Goto(k, "freeIP") /\ UNCHANGED connWG
       ELSE connWG' = connWG + 1 /\ Goto(k, "upgrading")
    /\ UNCHANGED <<open, ipOpen, sockets, server>>

\* upgradeConn succeeds: serveWS runs in a goroutine of its own.
Upgrade(k) ==
    /\ stage[k] = "upgrading"
    /\ hijacked' = hijacked \cup {k}
    /\ Goto(k, "serving")
    /\ UNCHANGED <<counters, conns, cancelled, saved, server>>

\* Mutant: a failed upgrade keeps its place under the address's cap.
UpgradeFailsKeepsIP(k) ==
    /\ stage[k] = "upgrading"
    /\ hijacked' \in {hijacked, hijacked \cup {k}}
    /\ connWG' = connWG - 1
    /\ Goto(k, "freeOpen")
    /\ UNCHANGED <<open, ipOpen, conns, cancelled, saved, server>>

\* ... or fails, before or after the socket was hijacked: connWG.Done first.
UpgradeFails(k) ==
    /\ stage[k] = "upgrading"
    /\ hijacked' \in {hijacked, hijacked \cup {k}}
    /\ connWG' = connWG - 1
    /\ Goto(k, "freeIP")
    /\ UNCHANGED <<open, ipOpen, conns, cancelled, saved, server>>

\* ipConnTracker.release on a refusal ...
RefuseFreeIP(k) ==
    /\ stage[k] = "freeIP"
    /\ ipOpen' = [ipOpen EXCEPT ![IPOf[k]] = IF @ <= 1 THEN 0 ELSE @ - 1]
    /\ Goto(k, "freeOpen")
    /\ UNCHANGED <<open, connWG, sockets, server>>

\* ... and the deferred open.Add(-1).
RefuseFreeOpen(k) ==
    /\ stage[k] = "freeOpen"
    /\ open' = open - 1
    /\ Goto(k, "done")
    /\ UNCHANGED <<ipOpen, connWG, sockets, server>>

-----------------------------------------------------------------------------
(* serveWS. *)

\* Mutant: a connection registered during shutdown is served like any other.
RegisterServes(k) ==
    /\ stage[k] = "serving"
    /\ conns' = conns \cup {k}
    /\ Goto(k, "running")
    /\ UNCHANGED <<counters, hijacked, cancelled, saved, server>>

\* registerConnection, under connMu.
Register(k) ==
    /\ stage[k] = "serving"
    /\ conns' = conns \cup {k}
    /\ Goto(k, IF shuttingDown THEN "stopping" ELSE "running")
    /\ UNCHANGED <<counters, hijacked, cancelled, saved, server>>

\* ... which then shuts the connection it registered too late.
StopSelf(k) ==
    /\ stage[k] = "stopping"
    /\ cancelled' = cancelled \cup {k}
    /\ Goto(k, "running")
    /\ UNCHANGED <<counters, conns, hijacked, saved, server>>

\* The writer fails, the client is too slow, or the idle sweeper closes it.
ForceClose(k) ==
    /\ stage[k] = "running"
    /\ k \notin cancelled
    /\ cancelled' = cancelled \cup {k}
    /\ UNCHANGED <<counters, conns, hijacked, saved, stage, server>>

\* Mutant: shutting a connection down does not wake its blocked read.
ReadLoopEndsNotWoken(k) ==
    /\ stage[k] = "running" /\ k \notin cancelled
    /\ Goto(k, "persist")
    /\ UNCHANGED <<counters, sockets, server>>

\* The read loop returns: the client left, or the socket was shut down.
ReadLoopEnds(k) ==
    /\ stage[k] = "running"
    /\ Goto(k, "persist")
    /\ UNCHANGED <<counters, sockets, server>>

\* negSessions.closeAll and persistConnAuditSession.
Persist(k) ==
    /\ stage[k] = "persist"
    /\ saved' = saved \cup {k}
    /\ Goto(k, "unregister")
    /\ UNCHANGED <<counters, conns, hijacked, cancelled, server>>

\* UnregisterSender (see Subscriptions) and initiateShutdown.
Unregister(k) ==
    /\ stage[k] = "unregister"
    /\ cancelled' = cancelled \cup {k}
    /\ Goto(k, "waitWriter")
    /\ UNCHANGED <<counters, conns, hijacked, saved, server>>

\* waitWriterDone returns: the writer ended, or five seconds passed.
WriterWaited(k) ==
    /\ stage[k] = "waitWriter"
    /\ Goto(k, "endConn")
    /\ UNCHANGED <<counters, sockets, server>>

\* The deferred calls, last first: conns.Delete ...
EndConn(k) ==
    /\ stage[k] = "endConn"
    /\ conns' = conns \ {k}
    /\ Goto(k, "endIP")
    /\ UNCHANGED <<counters, hijacked, cancelled, saved, server>>

\* ... ipOpen.release ...
EndIP(k) ==
    /\ stage[k] = "endIP"
    /\ ipOpen' = [ipOpen EXCEPT ![IPOf[k]] = IF @ <= 1 THEN 0 ELSE @ - 1]
    /\ Goto(k, "endOpen")
    /\ UNCHANGED <<open, connWG, sockets, server>>

\* ... open.Add(-1) ...
EndOpen(k) ==
    /\ stage[k] = "endOpen"
    /\ open' = open - 1
    /\ Goto(k, "endWG")
    /\ UNCHANGED <<ipOpen, connWG, sockets, server>>

\* ... and connWG.Done.
EndWG(k) ==
    /\ stage[k] = "endWG"
    /\ connWG' = connWG - 1
    /\ Goto(k, "done")
    /\ UNCHANGED <<open, ipOpen, sockets, server>>

-----------------------------------------------------------------------------
(* Shutdown. *)

ShutdownFlag ==
    /\ shut = "up"
    /\ shuttingDown' = TRUE
    /\ shut' = "flagged"
    /\ UNCHANGED <<counters, sockets, stage, todo>>

\* conns.Range visits at least the entries present when it starts.
RangeStart ==
    /\ shut = "flagged"
    /\ todo' = conns
    /\ shut' = "range"
    /\ UNCHANGED <<counters, sockets, stage, shuttingDown>>

RangeVisit(k) ==
    /\ shut = "range"
    /\ k \in todo
    /\ todo' = todo \ {k}
    /\ cancelled' = cancelled \cup {k}
    /\ UNCHANGED <<counters, conns, hijacked, saved, stage, shuttingDown, shut>>

\* The queues' workers stop, then http.Shutdown begins.
RangeEnd ==
    /\ shut = "range"
    /\ todo = {}
    /\ shut' = "http"
    /\ UNCHANGED <<counters, sockets, stage, shuttingDown, todo>>

\* Mutant: Shutdown trusts the HTTP server and does not wait for connWG.
HttpDoneIsEnough ==
    /\ shut = "http"
    /\ \A k \in Attempts : stage[k] \in {"new", "done"} \/ k \in hijacked
    /\ shut' = "done"
    /\ UNCHANGED <<counters, sockets, stage, shuttingDown, todo>>

\* http.Shutdown returns when no handler it knows of is running.
HttpDone ==
    /\ shut = "http"
    /\ \A k \in Attempts : stage[k] \in {"new", "done"} \/ k \in hijacked
    /\ shut' = "wait"
    /\ UNCHANGED <<counters, sockets, stage, shuttingDown, todo>>

\* connWG.Wait returns.
WaitDone ==
    /\ shut = "wait"
    /\ connWG = 0
    /\ shut' = "done"
    /\ UNCHANGED <<counters, sockets, stage, shuttingDown, todo>>

\* The shutdown context expires first (the process then exits without cleanup).
Expire ==
    /\ shut \in {"http", "wait"}
    /\ shut' = "failed"
    /\ UNCHANGED <<counters, sockets, stage, shuttingDown, todo>>

-----------------------------------------------------------------------------
\* One attempt's goroutine, apart from what its client or the network decide.
Runs(k) ==
    \/ RateLimit(k) \/ AcquireIP(k) \/ TrackConn(k)
    \/ Upgrade(k) \/ UpgradeFails(k) \/ RefuseFreeIP(k) \/ RefuseFreeOpen(k)
    \/ Register(k) \/ StopSelf(k)
    \/ Persist(k) \/ Unregister(k) \/ WriterWaited(k)
    \/ EndConn(k) \/ EndIP(k) \/ EndOpen(k) \/ EndWG(k)

Shutdown ==
    \/ RangeStart \/ (\E k \in Attempts : RangeVisit(k)) \/ RangeEnd
    \/ HttpDone \/ WaitDone

Next ==
    \/ \E k \in Attempts : Reserve(k) \/ Runs(k) \/ ForceClose(k) \/ ReadLoopEnds(k)
    \/ ShutdownFlag \/ Shutdown \/ Expire

Spec == Init /\ [][Next]_vars

\* Goroutines run, a read loop whose socket was closed returns, and Shutdown
\* proceeds; no client leaves, nobody asks for a shutdown, no context expires
\* by assumption.
Fairness ==
    /\ \A k \in Attempts : /\ WF_vars(Runs(k))
                           /\ WF_vars(ReadLoopEnds(k) /\ k \in cancelled)
    /\ WF_vars(Shutdown)

FairSpec == Spec /\ Fairness

-----------------------------------------------------------------------------
(* Stages by what the attempt holds. *)

Handling == {"reserved", "allowed", "acquired", "upgrading", "freeIP", "freeOpen"}
Served   == {"serving", "stopping", "running", "persist", "unregister", "waitWriter",
             "endConn", "endIP", "endOpen", "endWG"}
Stages   == {"new", "done"} \cup Handling \cup Served

OpenStages == (Handling \cup Served) \ {"endWG"}
IPStages   == {"acquired", "upgrading", "freeIP"} \cup (Served \ {"endOpen", "endWG"})
WGStages   == {"upgrading"} \cup Served

Open      == {k \in Attempts : stage[k] \in OpenStages}
OpenAt(i) == {k \in Attempts : stage[k] \in IPStages /\ IPOf[k] = i}
Counted   == {k \in Attempts : stage[k] \in WGStages}

\* Every variable has its type.
TypeOK ==
    /\ open \in Nat
    /\ ipOpen \in [IPs -> Nat]
    /\ connWG \in Nat
    /\ conns \subseteq Attempts
    /\ hijacked \subseteq Attempts
    /\ cancelled \subseteq Attempts
    /\ saved \subseteq Attempts
    /\ stage \in [Attempts -> Stages]
    /\ shuttingDown \in BOOLEAN
    /\ shut \in {"up", "flagged", "range", "http", "wait", "done", "failed"}
    /\ todo \subseteq Attempts

-----------------------------------------------------------------------------
(* Properties. *)

\* The three counters are exact whatever path an attempt takes: what was taken
\* is given back once, on refusal, failed upgrade and teardown alike, and the
\* release's "no-op when already zero" never hides a double release.
CountsExact ==
    /\ open = Cardinality(Open)
    /\ \A i \in IPs : ipOpen[i] = Cardinality(OpenAt(i))
    /\ connWG = Cardinality(Counted)

\* No interleaving of upgrades passes max_open or max_open_per_ip.
CapsHold ==
    /\ Cardinality(Open) <= MaxOpen
    /\ MaxOpenPerIP > 0 => \A i \in IPs : Cardinality(OpenAt(i)) <= MaxOpenPerIP

\* What the admission of connections has to keep.
AdmissionExact == CountsExact /\ CapsHold

\* Once Shutdown has ranged over the registry, every registered connection has
\* been shut down or shuts itself down, also one that registered meanwhile.
NoneMissed ==
    shut \in {"http", "wait", "done"} =>
        \A k \in conns : k \in cancelled \/ stage[k] = "stopping"

\* A successful Shutdown means what main relies on before it closes the store:
\* no connection is being served, none will be, and every one that was served
\* has handed its session to the store.
CleanShutdown ==
    shut = "done" =>
        /\ conns = {}
        /\ \A k \in Attempts : stage[k] \notin Served \cup {"upgrading", "acquired"}
        /\ cancelled \subseteq saved

\* What main and the sessions may rely on during and after a Shutdown.
ShutdownSafe == NoneMissed /\ CleanShutdown

\* Shutdown ends, and not by running out of time only.
ShutdownEnds == shuttingDown ~> shut \in {"done", "failed"}

=============================================================================
