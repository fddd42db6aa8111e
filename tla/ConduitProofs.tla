--------------------------- MODULE ConduitProofs ---------------------------
(***************************************************************************)
(* Proofs about the Conduit relay's own parts.  RelaySync, for every set   *)
(* of events and source relays, every window and limit, and any number of  *)
(* crashes, stops and faults: the watermark passes nothing by but what a   *)
(* stop cut from its window, and the cache never goes back to an older     *)
(* version.  GiftWraps, for every set of keys, wraps, connections and      *)
(* requests: a wrap reaches its recipient only, and the registry keeps     *)
(* nobody who has left.                                                    *)
(***************************************************************************)
EXTENDS RelaySync, GiftWraps, FiniteSetTheorems, TLAPS

-----------------------------------------------------------------------------
(* The cache and its watermark. *)

\* The event is in the cache, or lost to a limit, a fault or a stop.
Settled(e) == e \in missed \/ e \in cut \/ Cached(e)

\* A process that has ended has no backfill; the window a backfill works on
\* lies before its end, and its end is past.
WindowAgrees ==
    /\ ~Running => bpc = "begin"
    /\ bpc # "begin" => end <= now
    /\ bpc \in {"loop", "fetching", "advance", "write"} => Since <= start /\ start < end
    /\ bpc \in {"fetching", "advance", "write"} => start < next /\ next <= end
    /\ bpc = "write" => mem = next

\* What lies before a watermark, before the window, and after a window is
\* settled; what the window brought is settled or at hand.
Behind(e) ==
    /\ At[e] < mem \/ At[e] < disk => Settled(e)
    /\ bpc \in {"loop", "fetching", "advance", "write"} /\ At[e] < start => Settled(e)
    /\ bpc = "fetching" /\ At[e] < next =>
          Settled(e) \/ e \in inbox["backfill"] \/ held["backfill"] = e
    /\ bpc \in {"advance", "write"} /\ At[e] < next => Settled(e)

BehindSettled == \A e \in Upstream : At[e] >= Since => Behind(e)

SyncInv == TypeOK /\ WindowAgrees /\ BehindSettled

-----------------------------------------------------------------------------
(* Versions of an address. *)

\* IsOlder orders the versions.
LEMMA OlderOrder ==
  ASSUME NEW e \in Events, NEW f \in Events, NEW g \in Events
  PROVE  /\ ~IsOlder(e, e)
         /\ IsOlder(e, f) => ~IsOlder(f, e)
         /\ IsOlder(e, f) /\ IsOlder(f, g) => IsOlder(e, g)
<1>1. e \in Nat /\ f \in Nat /\ g \in Nat /\ At[e] \in Nat /\ At[f] \in Nat /\ At[g] \in Nat
  BY SyncAssumption
<1> QED BY <1>1 DEF IsOlder

\* AddEvent.
Adds(h) ==
    store' = IF Stored(h) THEN store ELSE {f \in store : Addr[f] # Addr[h]} \cup {h}

\* AddEvent stores the event or has a later version, and loses no address.
LEMMA AddKeeps ==
  ASSUME store \subseteq Events, NEW h \in Events, Adds(h)
  PROVE  /\ store' \subseteq Events
         /\ Stored(h)'
         /\ \A e \in Events : Stored(e) => Stored(e)'
<1>1. CASE Stored(h)
  BY <1>1 DEF Adds, Stored
<1>2. CASE ~Stored(h)
  <2>1. store' = {f \in store : Addr[f] # Addr[h]} \cup {h}
    BY <1>2 DEF Adds
  <2>2. ASSUME NEW e \in Events, Stored(e) PROVE Stored(e)'
    <3>1. PICK f \in store : Addr[f] = Addr[e] /\ ~IsOlder(f, e)
      BY <2>2 DEF Stored
    <3>2. CASE Addr[f] # Addr[h]
      BY <2>1, <3>1, <3>2 DEF Stored
    <3>3. CASE Addr[f] = Addr[h]
      <4>1. IsOlder(f, h)
        BY <1>2, <3>3 DEF Stored
      <4>2. ~IsOlder(h, e)
        BY <3>1, <4>1, OlderOrder
      <4> QED BY <2>1, <3>1, <3>3, <4>2 DEF Stored
    <3> QED BY <3>2, <3>3
  <2>3. Stored(h)'
    BY <2>1, OlderOrder DEF Stored
  <2> QED BY <2>1, <2>2, <2>3
<1> QED BY <1>1, <1>2

\* What is settled stays settled, until the process ends.
LEMMA SettledStays ==
  ASSUME TypeOK, [Next]_vars, ~Ends
  PROVE  \A e \in Events : Settled(e) => Settled(e)'
<1> USE DEF disks, stats, handling, backfill, live
<1>1. ASSUME store' = store, missed \subseteq missed', cut \subseteq cut'
      PROVE  \A e \in Events : Settled(e) => Settled(e)'
  BY <1>1 DEF Settled, Cached, Stored
<1>2. ASSUME NEW p \in Procs, Add(p) PROVE \A e \in Events : Settled(e) => Settled(e)'
  <2>1. held[p] \in Events /\ Adds(held[p]) /\ missed' = missed /\ cut' = cut /\ store \subseteq Events
    BY <1>2 DEF Add, Adds, TypeOK
  <2> QED BY <2>1, AddKeeps DEF Settled, Cached
<1>3. ASSUME NEW p \in Procs, Lookup(p) \/ AddFails(p) \/ Drop(p)
      PROVE  \A e \in Events : Settled(e) => Settled(e)'
  BY <1>1, <1>3 DEF Lookup, AddFails, Drop, Cut
<1>4. CASE BackfillBegins \/ BackfillCancelled \/ WindowDone \/ AdvanceState \/ StateWritten
           \/ WriteFails \/ LiveBegins \/ LiveReceives \/ LiveLoses \/ Tick \/ Stop \/ Restart
           \/ UNCHANGED vars
  BY <1>1, <1>4 DEF BackfillBegins, BackfillCancelled, WindowDone, AdvanceState, StateWritten,
     WriteFails, LiveBegins, LiveReceives, LiveLoses, Tick, Stop, Restart, vars
<1>5. CASE BackfillFetch
  BY <1>1, <1>5 DEF BackfillFetch, Fetch
<1> QED BY <1>2, <1>3, <1>4, <1>5 DEF Next, Backfill, Handle, Crash, Exit

-----------------------------------------------------------------------------
(* Types and windows. *)

\* The constants, and the clock, as numbers.
LEMMA Numbers ==
  /\ Since \in Nat /\ Since >= 1 /\ MaxTime \in Nat /\ Window \in Nat /\ Window >= 1 /\ Since <= MaxTime
  /\ None \notin Events /\ \A e \in Events : At[e] \in Nat
  /\ Upstream \subseteq Events
BY SyncAssumption DEF None, Upstream

\* Every step of the backfill keeps types and windows.
LEMMA BackfillTypes ==
  ASSUME TypeOK, WindowAgrees, Backfill \/ WriteFails
  PROVE  TypeOK' /\ WindowAgrees'
<1> USE Numbers DEF disks, stats, handling, backfill, live, Running
<1>0. TypeOK /\ WindowAgrees /\ Running /\ process' = process
  BY DEF Backfill, BackfillBegins, BackfillFetch, BackfillCancelled, WindowDone, AdvanceState,
     StateWritten, WriteFails, Running
<1>1. CASE BackfillBegins
  <2>1. /\ start' = InitialBackfillStart /\ end' = now
        /\ bpc' = IF start' < now THEN "loop" ELSE "done"
        /\ UNCHANGED <<now, disks, process, crashes, faults, stats, handling, window, next, before,
                       live, missed, cut>>
    BY <1>1 DEF BackfillBegins
  <2>2. start' \in 0 .. MaxTime /\ Since <= start' /\ now \in 0 .. MaxTime
    BY <2>1, SyncAssumption DEF InitialBackfillStart, Max2, TypeOK
  <2> QED BY <1>0, <2>1, <2>2 DEF TypeOK, WindowAgrees
<1>2. CASE BackfillFetch
  <2>1. /\ bpc = "loop" /\ bpc' = "fetching" /\ next' = Min2(start + window, end)
        /\ before' = imported
        /\ UNCHANGED <<now, disks, process, crashes, stats, held, start, end, window, live, cut>>
    BY <1>2 DEF BackfillFetch
  <2>2. PICK down \in SUBSET Relays, reply \in [Relays -> SUBSET Events] :
          /\ faults' = faults + Cardinality(down) /\ faults' <= MaxFaults
          /\ inbox' = [inbox EXCEPT !["backfill"] = UNION {reply[r] : r \in Relays}]
          /\ missed' = missed \cup
                UNION {Matching(r, start, Min2(start + window, end) - 1) \ reply[r] : r \in Relays}
    BY <1>2 DEF BackfillFetch, Fetch
  <2>3. faults' \in 0 .. MaxFaults
    <3>1. Cardinality(down) \in Nat
      BY SyncAssumption, FS_Subset, FS_CardinalityType
    <3> QED BY <2>2, <3>1, SyncAssumption DEF TypeOK
  <2>4. missed' \subseteq Events
    <3>1. missed \subseteq Events
      BY DEF TypeOK
    <3>2. \A r \in Relays : \A x, y : Matching(r, x, y) \subseteq Events
      BY SyncAssumption DEF Matching
    <3> QED BY <2>2, <3>1, <3>2
  <2>5. inbox' \in [Procs -> SUBSET Events]
    BY <2>2 DEF TypeOK, Procs
  <2>6. next' \in 0 .. MaxTime /\ start < next' /\ next' <= end
    BY <2>1 DEF TypeOK, WindowAgrees, Min2
  <2> QED BY <1>0, <2>1, <2>3, <2>4, <2>5, <2>6 DEF TypeOK, WindowAgrees
<1>3. CASE WindowDone
  <2>1. window' \in 1 .. Window /\ bpc' \in {"loop", "advance"} /\ bpc = "fetching"
        /\ UNCHANGED <<now, disks, process, crashes, faults, stats, handling, start, end, next, before,
                       live, missed, cut>>
    <3>1. Max2(window \div 2, 1) \in 1 .. Window
      BY DEF Max2, TypeOK
    <3> QED BY <1>3, <3>1 DEF WindowDone, TypeOK
  <2> QED BY <1>0, <2>1 DEF TypeOK, WindowAgrees
<1>4. CASE AdvanceState
  BY <1>0, <1>4 DEF AdvanceState, NextWindow, TypeOK, WindowAgrees
<1>5. CASE StateWritten
  BY <1>0, <1>5 DEF StateWritten, NextWindow, TypeOK, WindowAgrees
<1>6. CASE WriteFails
  <2>1. faults' \in 0 .. MaxFaults
    BY <1>6, SyncAssumption DEF WriteFails, Fault, TypeOK
  <2> QED BY <1>0, <1>6, <2>1 DEF WriteFails, TypeOK, WindowAgrees
<1>7. CASE BackfillCancelled
  BY <1>0, <1>7 DEF BackfillCancelled, TypeOK, WindowAgrees
<1> QED BY <1>1, <1>2, <1>3, <1>4, <1>5, <1>6, <1>7 DEF Backfill

\* So does every other step.
LEMMA OtherTypes ==
  ASSUME TypeOK, WindowAgrees,
         \/ LiveBegins \/ LiveReceives \/ LiveLoses \/ Tick \/ Crash \/ Stop \/ Exit \/ Restart
         \/ \E p \in Procs : Handle(p) \/ AddFails(p) \/ Drop(p)
         \/ UNCHANGED vars
  PROVE  TypeOK' /\ WindowAgrees'
<1> USE Numbers DEF disks, stats, handling, backfill, live, Running
<1>0. TypeOK /\ WindowAgrees
  OBVIOUS
<1>1. CASE LiveBegins
  <2>1. since' \in Int
    BY <1>1, SyncAssumption DEF LiveBegins, Max2, TypeOK
  <2> QED BY <1>0, <1>1, <2>1 DEF LiveBegins, TypeOK, WindowAgrees
<1>2. CASE LiveReceives
  <2>1. PICK e \in Subscribed : /\ inbox' = [inbox EXCEPT !["live"] = @ \cup {e}]
                                /\ sent' = sent \cup {e}
    BY <1>2 DEF LiveReceives
  <2>2. e \in Events
    BY <2>1, SyncAssumption DEF Subscribed
  <2>3. inbox' \in [Procs -> SUBSET Events] /\ sent' \subseteq Events
    BY <2>1, <2>2 DEF TypeOK, Procs
  <2> QED BY <1>0, <1>2, <2>3 DEF LiveReceives, TypeOK, WindowAgrees
<1>3. ASSUME Fault PROVE faults' \in 0 .. MaxFaults
  BY <1>3, SyncAssumption DEF Fault, TypeOK
<1>4. CASE LiveLoses
  <2>1. missed' \subseteq Events /\ sent' \subseteq Events
    <3>1. PICK e \in Subscribed : missed' = missed \cup {e} /\ sent' = sent \cup {e}
      BY <1>4 DEF LiveLoses
    <3>2. e \in Events
      BY <3>1, SyncAssumption DEF Subscribed
    <3> QED BY <3>1, <3>2 DEF TypeOK
  <2> QED BY <1>0, <1>3, <1>4, <2>1 DEF LiveLoses, TypeOK, WindowAgrees
<1>5. CASE Tick
  BY <1>0, <1>5 DEF Tick, TypeOK, WindowAgrees
<1>6. CASE Crash \/ Exit
  <2>1. crashes' \in 0 .. MaxCrashes /\ faults' \in 0 .. MaxFaults
    BY <1>3, <1>6, SyncAssumption DEF Crash, Exit, Ends, TypeOK
  <2>2. Ends
    BY <1>6 DEF Crash, Exit
  <2> QED BY <2>1, <2>2 DEF Ends, TypeOK, WindowAgrees
<1>11. CASE Stop
  <2>1. crashes' \in 0 .. MaxCrashes
    BY <1>11, SyncAssumption DEF Stop, TypeOK
  <2> QED BY <1>0, <1>11, <2>1 DEF Stop, TypeOK, WindowAgrees
<1>12. ASSUME NEW p \in Procs, Drop(p) PROVE TypeOK' /\ WindowAgrees'
  <2>1. /\ inbox' = inbox \/ inbox' = [inbox EXCEPT ![p] = {}]
        /\ held' = held \/ held' = [held EXCEPT ![p] = None]
    BY <1>12 DEF Drop
  <2>2. inbox' \in [Procs -> SUBSET Events] /\ held' \in [Procs -> Events \cup {None}]
    BY <2>1 DEF TypeOK
  <2>3. cut' \subseteq Events
    BY <1>12 DEF Drop, Cut, TypeOK
  <2> QED BY <1>0, <1>12, <2>2, <2>3 DEF Drop, TypeOK, WindowAgrees
<1>7. CASE Restart
  <2>1. mem' \in 0 .. MaxTime /\ process' \in {"up", "refused"} /\ bpc = "begin"
    BY <1>7 DEF Restart, TypeOK, Torn, WindowAgrees
  <2> QED BY <1>0, <1>7, <2>1 DEF Restart, TypeOK, WindowAgrees
<1>8. ASSUME NEW p \in Procs, Lookup(p) PROVE TypeOK' /\ WindowAgrees'
  <2>1. PICK e \in inbox[p] :
          /\ inbox' = [inbox EXCEPT ![p] = @ \ {e}]
          /\ held' = IF e \in Bad \/ Stored(e) THEN held ELSE [held EXCEPT ![p] = e]
    BY <1>8 DEF Lookup
  <2>2. inbox' \in [Procs -> SUBSET Events] /\ held' \in [Procs -> Events \cup {None}]
    BY <2>1 DEF TypeOK
  <2> QED BY <1>0, <1>8, <2>2 DEF Lookup, TypeOK, WindowAgrees
<1>9. ASSUME NEW p \in Procs, Add(p) \/ AddFails(p) PROVE TypeOK' /\ WindowAgrees'
  <2>1. held[p] \in Events /\ held' = [held EXCEPT ![p] = None]
    BY <1>9 DEF Add, AddFails, TypeOK
  <2>2. held' \in [Procs -> Events \cup {None}]
    BY <2>1 DEF TypeOK
  <2>3. CASE Add(p)
    <3>1. store' \subseteq Events
      BY <2>1, <2>3, AddKeeps DEF Add, Adds, TypeOK
    <3> QED BY <1>0, <2>2, <2>3, <3>1 DEF Add, TypeOK, WindowAgrees
  <2>4. CASE AddFails(p)
    BY <1>0, <1>3, <2>1, <2>2, <2>4 DEF AddFails, TypeOK, WindowAgrees
  <2> QED BY <1>9, <2>3, <2>4
<1>10. CASE UNCHANGED vars
  BY <1>0, <1>10 DEF vars, TypeOK, WindowAgrees
<1> QED BY <1>1, <1>2, <1>4, <1>5, <1>6, <1>7, <1>8, <1>9, <1>10, <1>11, <1>12 DEF Handle

-----------------------------------------------------------------------------
(* Nothing is passed by. *)

\* Every step keeps settled what lies behind a watermark or a window.
LEMMA BehindStep ==
  ASSUME SyncInv, TypeOK', [Next]_vars
  PROVE  BehindSettled'
<1> USE DEF disks, stats, handling, backfill, live
<1> SUFFICES ASSUME NEW e \in Upstream, At[e] >= Since PROVE Behind(e)'
  BY DEF BehindSettled
<1>8. CASE Ends
  <2>1. /\ mem' = 0 /\ bpc' = "begin" /\ cut' = {f \in cut : At[f] < disk}
        /\ UNCHANGED <<disk, store, missed>>
    BY <1>8 DEF Ends
  <2>2. At[e] < disk => Settled(e)
    BY DEF SyncInv, BehindSettled, Behind
  <2>3. At[e] < disk => Settled(e)'
    BY <2>1, <2>2 DEF Settled, Cached, Stored
  <2>4. At[e] \in Nat
    BY Numbers
  <2> QED BY <2>1, <2>3, <2>4 DEF Behind
<1> SUFFICES ASSUME ~Ends PROVE Behind(e)'
  BY <1>8
<1>0. /\ e \in Events /\ (Settled(e) => Settled(e)') /\ At[e] \in Nat /\ Since \in Nat
      /\ TypeOK /\ WindowAgrees /\ Behind(e)
  BY Numbers, SettledStays DEF SyncInv, BehindSettled
<1>1. ASSUME UNCHANGED <<mem, disk, bpc, start, next>>,
             e \in inbox["backfill"] => \/ e \in inbox'["backfill"] \/ held'["backfill"] = e
                                        \/ Settled(e)',
             held["backfill"] = e => held'["backfill"] = e \/ Settled(e)'
      PROVE  Behind(e)'
  BY <1>0, <1>1 DEF Behind
<1>2. CASE BackfillBegins
  <2>1. /\ start' = InitialBackfillStart /\ bpc' \in {"loop", "done"}
        /\ UNCHANGED <<mem, disk>>
    BY <1>2 DEF BackfillBegins
  <2>2. At[e] < start' => At[e] < mem
    BY <1>0, <2>1, SyncAssumption DEF InitialBackfillStart, Max2, TypeOK
  <2> QED BY <1>0, <2>1, <2>2 DEF Behind
<1>3. CASE BackfillFetch
  <2>1. /\ bpc = "loop" /\ bpc' = "fetching" /\ next' = Min2(start + window, end)
        /\ UNCHANGED <<mem, disk, start, now>>
    BY <1>3 DEF BackfillFetch
  <2>2. PICK reply \in [Relays -> SUBSET Events] :
          /\ inbox' = [inbox EXCEPT !["backfill"] = UNION {reply[r] : r \in Relays}]
          /\ missed' = missed \cup
                UNION {Matching(r, start, Min2(start + window, end) - 1) \ reply[r] : r \in Relays}
    BY <1>3 DEF BackfillFetch, Fetch
  <2>3. next' <= now /\ next' \in Nat /\ start \in Nat /\ now \in Nat
    BY <1>0, <2>1, SyncAssumption DEF TypeOK, WindowAgrees, Min2
  <2>4. ASSUME At[e] < next', At[e] >= start PROVE Settled(e)' \/ e \in inbox'["backfill"]
    <3>1. PICK r \in Relays : e \in Holds[r]
      BY DEF Upstream
    <3>2. e \in Matching(r, start, next' - 1)
      BY <1>0, <2>3, <2>4, <3>1 DEF Matching
    <3>3. e \in reply[r] \/ e \in missed'
      BY <2>1, <2>2, <3>2
    <3>4. e \in reply[r] => e \in inbox'["backfill"]
      BY <1>0, <2>2 DEF TypeOK, Procs
    <3> QED BY <3>3, <3>4 DEF Settled
  <2>5. At[e] < start \/ At[e] >= start
    BY <1>0, <2>3
  <2> QED BY <1>0, <2>1, <2>4, <2>5 DEF Behind
<1>4. CASE WindowDone
  <2>1. /\ bpc = "fetching" /\ inbox["backfill"] = {} /\ held["backfill"] = None
        /\ bpc' \in {"loop", "advance"} /\ UNCHANGED <<mem, disk, start, next>>
    BY <1>4 DEF WindowDone
  <2> QED BY <1>0, <2>1, Numbers DEF Behind
<1>5. CASE AdvanceState
  BY <1>0, <1>5, Numbers DEF Behind, AdvanceState, NextWindow, TypeOK, Torn
<1>6. CASE StateWritten
  BY <1>0, <1>6 DEF Behind, StateWritten, NextWindow, TypeOK, WindowAgrees
<1>7. CASE WriteFails
  BY <1>0, <1>7 DEF Behind, WriteFails, TypeOK
<1>14. CASE BackfillCancelled
  BY <1>0, <1>14 DEF Behind, BackfillCancelled
<1>15. CASE Stop
  BY <1>1, <1>15 DEF Stop
<1>16. ASSUME NEW p \in Procs, Drop(p) PROVE Behind(e)'
  <2>1. UNCHANGED <<mem, disk, bpc, start, next>>
    BY <1>16 DEF Drop
  <2>2. CASE p = "backfill"
    <3>1. e \in inbox["backfill"] => e \in inbox'["backfill"] \/ e \in cut'
      BY <1>0, <1>16, <2>2 DEF Drop, Cut, TypeOK, Procs
    <3>2. held["backfill"] = e => held'["backfill"] = e \/ e \in cut'
      BY <1>0, <1>16, <2>2 DEF Drop, Cut, TypeOK, Procs
    <3> QED BY <1>1, <2>1, <3>1, <3>2 DEF Settled
  <2>3. CASE p # "backfill"
    BY <1>0, <1>1, <1>16, <2>1, <2>3 DEF Drop, TypeOK, Procs
  <2> QED BY <2>2, <2>3
<1>9. CASE Restart
  BY <1>0, <1>9 DEF Behind, Restart, TypeOK, WindowAgrees
<1>10. CASE LiveBegins \/ LiveLoses \/ Tick \/ UNCHANGED vars
  BY <1>1, <1>10 DEF LiveBegins, LiveLoses, Tick, vars
<1>11. CASE LiveReceives
  BY <1>0, <1>1, <1>11 DEF LiveReceives, TypeOK, Procs
<1>12. ASSUME NEW p \in Procs, Lookup(p) PROVE Behind(e)'
  <2>1. PICK f \in inbox[p] :
          /\ inbox' = [inbox EXCEPT ![p] = @ \ {f}]
          /\ held' = IF f \in Bad \/ Stored(f) THEN held ELSE [held EXCEPT ![p] = f]
    BY <1>12 DEF Lookup
  <2>2. held[p] = None /\ UNCHANGED <<mem, disk, bpc, start, next, store, missed>>
    BY <1>12 DEF Lookup
  <2>3. CASE p = "backfill"
    <3>1. /\ inbox'["backfill"] = inbox["backfill"] \ {f}
          /\ f \in Bad \/ Stored(f) \/ held'["backfill"] = f
      BY <1>0, <2>1, <2>3 DEF TypeOK
    <3>2. f = e => Settled(e)' \/ held'["backfill"] = e
      BY <2>2, <3>1 DEF Settled, Cached, Stored
    <3>3. held["backfill"] # e
      BY <1>0, <2>2, <2>3, Numbers
    <3> QED BY <1>1, <2>2, <3>1, <3>2, <3>3
  <2>4. CASE p # "backfill"
    BY <1>0, <1>1, <2>1, <2>2, <2>4 DEF TypeOK, Procs
  <2> QED BY <2>3, <2>4
<1>13. ASSUME NEW p \in Procs, Add(p) \/ AddFails(p) PROVE Behind(e)'
  <2>1. held[p] \in Events /\ held' = [held EXCEPT ![p] = None] /\ UNCHANGED <<mem, disk, bpc, start, next, inbox>>
    BY <1>0, <1>13 DEF Add, AddFails, TypeOK
  <2>2. held[p] = e => Settled(e)'
    <3>1. CASE Add(p)
      <4>1. PICK h \in Events : h = held[p] /\ Adds(h)
        BY <2>1, <3>1 DEF Add, Adds
      <4>2. Stored(h)'
        BY <1>0, <4>1, AddKeeps DEF TypeOK
      <4> QED BY <4>1, <4>2 DEF Settled, Cached
    <3>2. CASE AddFails(p)
      BY <3>2 DEF AddFails, Settled
    <3> QED BY <1>13, <3>1, <3>2
  <2>3. held["backfill"] = e => held'["backfill"] = e \/ Settled(e)'
    BY <1>0, <2>1, <2>2 DEF TypeOK, Procs
  <2> QED BY <1>1, <2>1, <2>3
<1> QED BY <1>2, <1>3, <1>4, <1>5, <1>6, <1>7, <1>9, <1>10, <1>11, <1>12, <1>13, <1>14, <1>15,
           <1>16
        DEF Next, Backfill, Handle, Crash, Exit

-----------------------------------------------------------------------------
(* Theorems. *)

\* The parts together are an inductive invariant.
LEMMA SyncInvHolds == Spec => []SyncInv
<1>1. ASSUME Init PROVE SyncInv
  <2>1. TypeOK
    BY <1>1, Numbers, SyncAssumption DEF Init, TypeOK, Procs
  <2>2. WindowAgrees /\ BehindSettled
    BY <1>1, Numbers DEF Init, WindowAgrees, Running, BehindSettled, Behind
  <2> QED BY <2>1, <2>2 DEF SyncInv
<1>2. ASSUME SyncInv, [Next]_vars PROVE SyncInv'
  <2>1. TypeOK' /\ WindowAgrees'
    BY <1>2, BackfillTypes, OtherTypes DEF SyncInv, Next
  <2> QED BY <1>2, <2>1, BehindStep DEF SyncInv
<1> QED BY <1>1, <1>2, PTL DEF Spec

\* The watermark, in memory and on disk, passes no event by that a source relay
\* held: what is not in the cache was lost to the limit of a reply, to a fault,
\* or to a stop in the middle of its window, never to a crash, a window
\* boundary or the live subscription.
THEOREM WatermarkPassesNothing == Spec => []WatermarkSound
<1>1. ASSUME SyncInv PROVE WatermarkSound
  <2>1. ASSUME NEW e \in Upstream \ (missed \cup cut), At[e] >= Since, At[e] < Max2(mem, disk)
        PROVE  Cached(e)
    <3>1. Behind(e) /\ (At[e] < mem \/ At[e] < disk)
      BY <1>1, <2>1 DEF SyncInv, BehindSettled, Max2
    <3> QED BY <2>1, <3>1 DEF Behind, Settled
  <2> QED BY <1>1, <2>1 DEF SyncInv, WatermarkSound, NothingSkipped
<1> QED BY <1>1, SyncInvHolds, PTL

\* No step of either goroutine replaces a version by an older one, whatever
\* both looked up before.
THEOREM CacheNeverOlder == Spec => NeverOlder
<1>1. ASSUME TypeOK, [Next]_vars
      PROVE  [\A e \in store : \E f \in store' : Addr[f] = Addr[e] /\ ~IsOlder(f, e)]_vars
  <2>1. ASSUME store' = store
        PROVE  \A e \in store : \E f \in store' : Addr[f] = Addr[e] /\ ~IsOlder(f, e)
    BY <1>1, <2>1, OlderOrder DEF TypeOK
  <2>2. ASSUME NEW p \in Procs, Add(p)
        PROVE  \A e \in store : \E f \in store' : Addr[f] = Addr[e] /\ ~IsOlder(f, e)
    <3>1. PICK h \in Events : h = held[p] /\ Adds(h)
      BY <1>1, <2>2 DEF Add, Adds, TypeOK
    <3>2. ASSUME NEW e \in store PROVE \E f \in store' : Addr[f] = Addr[e] /\ ~IsOlder(f, e)
      <4>1. e \in Events /\ store \subseteq Events
        BY <1>1 DEF TypeOK
      <4>2. Stored(e)
        BY <4>1, OlderOrder DEF Stored
      <4>3. Stored(e)'
        BY <3>1, <4>1, <4>2, AddKeeps
      <4> QED BY <4>3 DEF Stored
    <3> QED BY <3>2
  <2>3. CASE UNCHANGED store
    BY <2>1, <2>3
  <2>4. CASE \E p \in Procs : Add(p)
    BY <2>2, <2>4
  <2>5. UNCHANGED store \/ (\E p \in Procs : Add(p))
    BY <1>1 DEF Next, Backfill, Handle, BackfillBegins, BackfillFetch, BackfillCancelled, WindowDone,
       AdvanceState, StateWritten, WriteFails, LiveBegins, LiveReceives, LiveLoses, Tick, Crash, Stop,
       Exit, Ends, Restart, Lookup, AddFails, Drop, vars, disks
  <2> QED BY <2>3, <2>4, <2>5
<1>2. SyncInv => TypeOK
  BY DEF SyncInv
<1> QED BY <1>1, <1>2, SyncInvHolds, PTL DEF Spec, NeverOlder

-----------------------------------------------------------------------------
(* Gift wraps.  What is about to be written was checked some steps ago: the   *)
(* wrap is the business of a key the connection has proven since, and what    *)
(* it has proven is never taken back, whoever it is by now.                   *)

\* Listeners, also those a broadcast still holds, and requests are of known
\* connections.
WrapTypes ==
  /\ open \in [Conns -> {"new", "open", "killed", "gone"}]
  /\ identity = [c \in Conns |-> identity[c]]
  /\ proving = [c \in Conns |-> proving[c]]
  /\ proven = [c \in Conns |-> proven[c]]
  /\ saved \subseteq Wraps /\ listeners \subseteq Conns \X Requests
  /\ casting \in [Wraps -> SUBSET (Conns \X Requests)]
  /\ asked \in [Conns -> Requests \cup {NoRequest}]
  /\ reading \in [Conns -> SUBSET Wraps]
  /\ sending \subseteq Conns \X Wraps
  /\ handed \subseteq Conns \X Wraps

\* The registry names only keys the connection has proven.
IdentityProven == \A c \in Conns : identity[c] \in Keys => identity[c] \in proven[c]

\* What has passed the check is for a key the connection has proven.
CheckedForOwner ==
  mode = "enforce" => \A s \in sending : Recipient(s[2]) \in proven[s[1]]

WrapInv == WrapTypes /\ IdentityProven /\ CheckedForOwner /\ WrapsPrivate

\* The check of PreventBroadcast and of a stored wrap establishes it.
LEMMA DeliverToOwner ==
  ASSUME IdentityProven, NEW c \in Conns, NEW f, NEW w, MayDeliver(c, f, w)
  PROVE  Recipient(w) \in proven[c]
<1>1. identity[c] \in Keys /\ {Recipient(w)} = {identity[c]}
  BY DEF MayDeliver, Authorized
<1> QED BY <1>1 DEF IdentityProven

\* It holds before anybody connects.
LEMMA WrapStarts == WrapInit => WrapInv
BY WrapAssumption DEF WrapInit, WrapInv, WrapTypes, IdentityProven, CheckedForOwner,
                      WrapsPrivate, WrapsReachOwner, RegistryForgets

\* A connection that comes, proves a key or leaves.
LEMMA ConnSteps ==
  ASSUME WrapInv, NEW c \in Conns,
         \/ Connect(c) \/ Record(c) \/ Disconnect(c) \/ \E k \in Keys : Authenticate(c, k)
  PROVE  WrapInv'
<1>1. WrapTypes' /\ RegistryForgets'
  BY DEF WrapInv, WrapTypes, WrapsPrivate, RegistryForgets, Connect, Record, Disconnect,
         Authenticate, traffic
<1>2. \A b \in Conns : proven[b] \subseteq proven'[b]
  BY DEF WrapInv, WrapTypes, Connect, Record, Disconnect, Authenticate
<1>3. IdentityProven'
  BY <1>2, WrapAssumption
     DEF WrapInv, WrapTypes, IdentityProven, Connect, Record, Disconnect, Authenticate
<1>4. UNCHANGED <<mode, sending, handed>>
  BY DEF Connect, Record, Disconnect, Authenticate, traffic
<1>5. CheckedForOwner' /\ WrapsReachOwner'
  <2>1. \A s \in sending \cup handed : s[1] \in Conns
    BY DEF WrapInv, WrapTypes
  <2> QED BY <1>2, <1>4, <2>1 DEF WrapInv, CheckedForOwner, WrapsPrivate, WrapsReachOwner, Recipient
<1> QED BY <1>1, <1>3, <1>5 DEF WrapInv, WrapsPrivate

\* A step that neither checks nor writes a wrap and leaves identities alone.
LEMMA QuietTraffic ==
  ASSUME WrapInv, WrapTypes', UNCHANGED <<mode, identity, proven, sending, handed>>, RegistryForgets'
  PROVE  WrapInv'
BY DEF WrapInv, IdentityProven, CheckedForOwner, WrapsPrivate, WrapsReachOwner, Recipient

\* A check that lets a wrap pass.
LEMMA CheckedSends ==
  ASSUME WrapInv, WrapTypes', UNCHANGED <<mode, conns, handed>>,
         NEW c \in Conns, NEW f, NEW w \in Wraps,
         sending' = IF mode = "enforce" /\ ~MayDeliver(c, f, w) THEN sending
                    ELSE sending \cup {<<c, w>>}
  PROVE  WrapInv'
<1>1. UNCHANGED <<open, identity, proven>>
  BY DEF conns
<1>2. IdentityProven' /\ WrapsPrivate'
  BY <1>1 DEF WrapInv, IdentityProven, WrapsPrivate, WrapsReachOwner, RegistryForgets, Recipient
<1>3. CheckedForOwner'
  <2> SUFFICES ASSUME mode = "enforce", NEW s \in sending'
               PROVE  Recipient(s[2]) \in proven[s[1]]
    BY <1>1 DEF CheckedForOwner, Recipient
  <2>1. CASE s \in sending
    BY <2>1 DEF WrapInv, CheckedForOwner
  <2>2. CASE s \notin sending
    <3>1. s = <<c, w>> /\ MayDeliver(c, f, w)
      BY <2>2
    <3> QED BY <3>1, DeliverToOwner DEF WrapInv
  <2> QED BY <2>1, <2>2
<1> QED BY <1>2, <1>3 DEF WrapInv

\* Every step keeps it.
LEMMA WrapStep ==
  ASSUME WrapInv, [WrapNext]_wrapVars
  PROVE  WrapInv'
<1>1. ASSUME NEW c \in Conns, RemoveListeners(c) PROVE WrapInv'
  <2>1. WrapTypes'
    BY <1>1 DEF WrapInv, WrapTypes, RemoveListeners
  <2>2. RegistryForgets'
    BY <1>1 DEF WrapInv, WrapTypes, WrapsPrivate, RegistryForgets, RemoveListeners
  <2> QED BY <1>1, <2>1, <2>2, QuietTraffic DEF RemoveListeners
<1>2. ASSUME NEW c \in Conns, Listen(c) PROVE WrapInv'
  <2>1. WrapTypes'
    BY <1>2 DEF WrapInv, WrapTypes, Listen, conns
  <2> QED BY <1>2, <2>1, QuietTraffic DEF Listen, conns, WrapInv, WrapsPrivate, RegistryForgets
<1>3. ASSUME NEW c \in Conns, NEW f \in Requests, Request(c, f) PROVE WrapInv'
  <2>1. {w \in saved : Matches(f, w)} \in SUBSET Wraps
    BY DEF WrapInv, WrapTypes
  <2>2. WrapTypes'
    BY <1>3, <2>1 DEF WrapInv, WrapTypes, Request, conns
  <2> QED BY <1>3, <2>2, QuietTraffic DEF Request, conns, WrapInv, WrapsPrivate, RegistryForgets
<1>4. ASSUME NEW w \in Wraps, Publish(w) PROVE WrapInv'
  <2>1. WrapTypes'
    BY <1>4 DEF WrapInv, WrapTypes, Publish, conns
  <2> QED BY <1>4, <2>1, QuietTraffic DEF Publish, conns, WrapInv, WrapsPrivate, RegistryForgets
<1>5. ASSUME NEW c \in Conns, NEW w \in Wraps, Yield(c, w) PROVE WrapInv'
  <2>1. WrapTypes'
    BY <1>5 DEF WrapInv, WrapTypes, Yield, conns
  <2> QED BY <1>5, <2>1, CheckedSends DEF Yield
<1>6. ASSUME NEW w \in Wraps, NEW l \in casting[w], Cast(w, l) PROVE WrapInv'
  <2>1. l \in Conns \X Requests /\ l[1] \in Conns
    BY <1>6 DEF WrapInv, WrapTypes
  <2>2. WrapTypes'
    BY <1>6, <2>1 DEF WrapInv, WrapTypes, Cast, conns
  <2> QED BY <1>6, <2>1, <2>2, CheckedSends DEF Cast
<1>7. ASSUME NEW s \in sending, Write(s) PROVE WrapInv'
  <2>1. WrapTypes'
    BY <1>7 DEF WrapInv, WrapTypes, Write, conns
  <2>2. UNCHANGED <<mode, open, identity, proven>> /\ sending' \subseteq sending
        /\ handed' \subseteq handed \cup {s}
    BY <1>7 DEF Write, conns
  <2> QED BY <1>7, <2>1, <2>2 DEF WrapInv, IdentityProven, CheckedForOwner, WrapsPrivate,
                                  WrapsReachOwner, RegistryForgets, Recipient
<1>8. CASE UNCHANGED wrapVars
  BY <1>8 DEF wrapVars, conns, traffic, WrapInv, WrapTypes, IdentityProven, CheckedForOwner,
              WrapsPrivate, WrapsReachOwner, RegistryForgets, Recipient
<1> QED BY <1>1, <1>2, <1>3, <1>4, <1>5, <1>6, <1>7, <1>8, ConnSteps DEF WrapNext

\* A gift wrap is written only to a connection that has authenticated as its
\* recipient, however its identity changes between check and WriteJSON, and
\* the registry forgets a connection whose AUTH is still being handled when it
\* leaves.
THEOREM WrapsStayPrivate == WrapSpec => []WrapsPrivate
<1>1. WrapInv => WrapsPrivate
  BY DEF WrapInv
<1> QED BY <1>1, WrapStarts, WrapStep, PTL DEF WrapSpec

=============================================================================
