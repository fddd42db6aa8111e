------------------------- MODULE ConnectionsProofs -------------------------
(***************************************************************************)
(* Proofs about Connections, for every finite set of upgrade requests,     *)
(* every set of addresses and every pair of caps.                          *)
(***************************************************************************)
EXTENDS Connections, FiniteSetTheorems, TLAPS

Bit(b) == IF b THEN 1 ELSE 0

-----------------------------------------------------------------------------
(* Counting. *)

\* A set of attempts is finite; adding or removing one changes its size by one.
LEMMA SizeStep ==
  ASSUME NEW S, S \subseteq Attempts, NEW k \in Attempts
  PROVE  /\ Cardinality(S) \in Nat
         /\ k \in S => /\ Cardinality(S) >= 1
                       /\ Cardinality(S \cup {k}) = Cardinality(S)
                       /\ Cardinality(S \ {k}) = Cardinality(S) - 1
         /\ k \notin S => /\ Cardinality(S \cup {k}) = Cardinality(S) + 1
                          /\ Cardinality(S \ {k}) = Cardinality(S)
  <1>1. IsFiniteSet(S) /\ IsFiniteSet(S \ {k})
    BY ConnectionsAssumption, FS_Subset
  <1>2. Cardinality(S) \in Nat /\ Cardinality(S \ {k}) \in Nat
    BY <1>1, FS_CardinalityType
  <1>3. Cardinality(S \cup {k}) = IF k \in S THEN Cardinality(S) ELSE Cardinality(S) + 1
    BY <1>1, FS_AddElement
  <1>4. Cardinality(S \ {k}) = IF k \in S THEN Cardinality(S) - 1 ELSE Cardinality(S)
    BY <1>1, FS_RemoveElement
  <1> QED BY <1>2, <1>3, <1>4

\* A step of one attempt keeps the counters exact when each changes by what
\* the attempt takes or gives back.
LEMMA MoveCounts ==
  ASSUME TypeOK, CountsExact, NEW k \in Attempts, NEW s \in Stages, Goto(k, s),
         open' = open + Bit(s \in OpenStages) - Bit(stage[k] \in OpenStages),
         ipOpen' = [ipOpen EXCEPT ![IPOf[k]] =
                      @ + Bit(s \in IPStages) - Bit(stage[k] \in IPStages)],
         connWG' = connWG + Bit(s \in WGStages) - Bit(stage[k] \in WGStages)
  PROVE  CountsExact'
  <1>0. IPOf[k] \in IPs
    BY ConnectionsAssumption
  <1>1. /\ stage' = [stage EXCEPT ![k] = s] /\ stage \in [Attempts -> Stages]
        /\ stage'[k] = s /\ \A q \in Attempts \ {k} : stage'[q] = stage[q]
    BY DEF Goto, TypeOK
  <1>2. Open' = IF s \in OpenStages THEN Open \cup {k} ELSE Open \ {k}
    BY <1>1 DEF Open
  <1>3. Counted' = IF s \in WGStages THEN Counted \cup {k} ELSE Counted \ {k}
    BY <1>1 DEF Counted
  <1>4. OpenAt(IPOf[k])' = IF s \in IPStages THEN OpenAt(IPOf[k]) \cup {k}
                                             ELSE OpenAt(IPOf[k]) \ {k}
    BY <1>1 DEF OpenAt
  <1>5. \A i \in IPs : i # IPOf[k] => OpenAt(i)' = OpenAt(i)
    BY <1>1 DEF OpenAt
  <1>6. open' = Cardinality(Open')
    <2>1. Open \subseteq Attempts /\ (k \in Open <=> stage[k] \in OpenStages)
      BY DEF Open
    <2>2. open = Cardinality(Open) /\ open \in Nat
      BY DEF CountsExact, TypeOK
    <2>3. /\ k \in Open => /\ Cardinality(Open \cup {k}) = Cardinality(Open)
                       /\ Cardinality(Open \ {k}) = Cardinality(Open) - 1
          /\ k \notin Open => /\ Cardinality(Open \cup {k}) = Cardinality(Open) + 1
                          /\ Cardinality(Open \ {k}) = Cardinality(Open)
      BY <2>1, SizeStep
    <2>4. CASE s \in OpenStages
      BY <1>2, <2>1, <2>2, <2>3, <2>4 DEF Bit
    <2>5. CASE s \notin OpenStages
      BY <1>2, <2>1, <2>2, <2>3, <2>5 DEF Bit
    <2> QED BY <2>4, <2>5
  <1>7. connWG' = Cardinality(Counted')
    <2>1. Counted \subseteq Attempts /\ (k \in Counted <=> stage[k] \in WGStages)
      BY DEF Counted
    <2>2. connWG = Cardinality(Counted) /\ connWG \in Nat
      BY DEF CountsExact, TypeOK
    <2>3. /\ k \in Counted => /\ Cardinality(Counted \cup {k}) = Cardinality(Counted)
                       /\ Cardinality(Counted \ {k}) = Cardinality(Counted) - 1
          /\ k \notin Counted => /\ Cardinality(Counted \cup {k}) = Cardinality(Counted) + 1
                          /\ Cardinality(Counted \ {k}) = Cardinality(Counted)
      BY <2>1, SizeStep
    <2>4. CASE s \in WGStages
      BY <1>3, <2>1, <2>2, <2>3, <2>4 DEF Bit
    <2>5. CASE s \notin WGStages
      BY <1>3, <2>1, <2>2, <2>3, <2>5 DEF Bit
    <2> QED BY <2>4, <2>5
  <1>8. ipOpen'[IPOf[k]] = Cardinality(OpenAt(IPOf[k])')
    <2>1. /\ OpenAt(IPOf[k]) \subseteq Attempts
          /\ k \in OpenAt(IPOf[k]) <=> stage[k] \in IPStages
      BY DEF OpenAt
    <2>2. ipOpen[IPOf[k]] = Cardinality(OpenAt(IPOf[k]))
      BY <1>0 DEF CountsExact
    <2>3. ipOpen'[IPOf[k]] = ipOpen[IPOf[k]] + Bit(s \in IPStages) - Bit(stage[k] \in IPStages)
      BY <1>0 DEF TypeOK
    <2> DEFINE A == OpenAt(IPOf[k])
    <2>4. /\ k \in A => /\ Cardinality(A \cup {k}) = Cardinality(A)
                       /\ Cardinality(A \ {k}) = Cardinality(A) - 1
          /\ k \notin A => /\ Cardinality(A \cup {k}) = Cardinality(A) + 1
                          /\ Cardinality(A \ {k}) = Cardinality(A)
      BY <2>1, SizeStep
    <2>5. ipOpen[IPOf[k]] \in Nat
      BY <1>0 DEF TypeOK
    <2>6. CASE s \in IPStages
      BY <1>4, <2>1, <2>2, <2>3, <2>4, <2>5, <2>6 DEF Bit
    <2>7. CASE s \notin IPStages
      BY <1>4, <2>1, <2>2, <2>3, <2>4, <2>5, <2>7 DEF Bit
    <2> QED BY <2>6, <2>7
  <1>9. \A i \in IPs : ipOpen'[i] = Cardinality(OpenAt(i)')
    <2> SUFFICES ASSUME NEW i \in IPs PROVE ipOpen'[i] = Cardinality(OpenAt(i)')
      OBVIOUS
    <2>1. CASE i = IPOf[k]
      BY <1>8, <2>1
    <2>2. CASE i # IPOf[k]
      BY <1>5, <2>2 DEF CountsExact, TypeOK
    <2> QED BY <2>1, <2>2
  <1> QED BY <1>6, <1>7, <1>9 DEF CountsExact

\* The size of a set of attempts is a natural number.
LEMMA SizeNat == \A S \in SUBSET Attempts : Cardinality(S) \in Nat
  BY ConnectionsAssumption, FS_Subset, FS_CardinalityType

\* An attempt that holds a place has been counted.
LEMMA HeldIsCounted ==
  ASSUME TypeOK, CountsExact, NEW k \in Attempts
  PROVE  /\ stage[k] \in OpenStages => open >= 1
         /\ stage[k] \in WGStages => connWG >= 1
         /\ stage[k] \in IPStages => ipOpen[IPOf[k]] >= 1
  <1>1. /\ Open \subseteq Attempts /\ Counted \subseteq Attempts
        /\ OpenAt(IPOf[k]) \subseteq Attempts /\ IPOf[k] \in IPs
    BY ConnectionsAssumption DEF Open, Counted, OpenAt
  <1>2. stage[k] \in OpenStages => k \in Open
    BY DEF Open
  <1>3. stage[k] \in WGStages => k \in Counted
    BY DEF Counted
  <1>4. stage[k] \in IPStages => k \in OpenAt(IPOf[k])
    BY DEF OpenAt
  <1> QED BY <1>1, <1>2, <1>3, <1>4, SizeStep DEF CountsExact

\* Steps of the goroutines that serve attempts, on the three counters.
LEMMA CountsStep ==
  ASSUME TypeOK, CountsExact, NEW k \in Attempts, Reserve(k) \/ Runs(k) \/ ReadLoopEnds(k)
  PROVE  CountsExact'
  <1> USE DEF Stages, OpenStages, IPStages, WGStages, Handling, Served, Bit
  <1>0. /\ open \in Nat /\ connWG \in Nat /\ ipOpen \in [IPs -> Nat] /\ IPOf[k] \in IPs
        /\ ipOpen[IPOf[k]] \in Nat /\ stage[k] \in Stages
    BY ConnectionsAssumption DEF TypeOK
  <1>1. UNCHANGED ipOpen => ipOpen' = [ipOpen EXCEPT ![IPOf[k]] = @ + 0 - 0]
                         /\ ipOpen' = [ipOpen EXCEPT ![IPOf[k]] = @ + 1 - 1]
    BY <1>0
  <1>2. CASE Reserve(k)
    <2>1. CASE open < MaxOpen
      BY <1>0, <1>1, <1>2, <2>1, MoveCounts DEF Reserve
    <2>2. CASE ~(open < MaxOpen)
      BY <1>0, <1>1, <1>2, <2>2, MoveCounts DEF Reserve
    <2> QED BY <2>1, <2>2
  <1>3. CASE RateLimit(k)
    BY <1>0, <1>1, <1>3, MoveCounts DEF RateLimit, counters
  <1>4. CASE AcquireIP(k)
    <2>1. CASE UNCHANGED ipOpen /\ Goto(k, "freeOpen")
      BY <1>0, <1>1, <1>4, <2>1, MoveCounts DEF AcquireIP
    <2>2. CASE ipOpen' = [ipOpen EXCEPT ![IPOf[k]] = @ + 1] /\ Goto(k, "acquired")
      <3>1. stage[k] = "allowed" /\ UNCHANGED <<open, connWG>>
        BY <1>4 DEF AcquireIP
      <3>2. Bit("acquired" \in IPStages) = 1 /\ Bit(stage[k] \in IPStages) = 0
        BY <3>1
      <3>3. ipOpen' = [ipOpen EXCEPT ![IPOf[k]] =
                         @ + Bit("acquired" \in IPStages) - Bit(stage[k] \in IPStages)]
        <4>1. ipOpen[IPOf[k]] + 1 = ipOpen[IPOf[k]] + Bit("acquired" \in IPStages)
                                                    - Bit(stage[k] \in IPStages)
          BY <1>0, <3>2
        <4> HIDE DEF Bit
        <4> QED BY <2>2, <4>1
      <3>4. /\ open' = open + Bit("acquired" \in OpenStages) - Bit(stage[k] \in OpenStages)
            /\ connWG' = connWG + Bit("acquired" \in WGStages) - Bit(stage[k] \in WGStages)
        BY <1>0, <3>1
      <3>5. "acquired" \in Stages
        OBVIOUS
      <3> HIDE DEF Bit, Stages, OpenStages, IPStages, WGStages
      <3> QED BY <2>2, <3>3, <3>4, <3>5, MoveCounts
    <2> QED BY <1>4, <2>1, <2>2 DEF AcquireIP
  <1>5. CASE TrackConn(k)
    <2>1. CASE shuttingDown
      BY <1>0, <1>1, <1>5, <2>1, MoveCounts DEF TrackConn
    <2>2. CASE ~shuttingDown
      BY <1>0, <1>1, <1>5, <2>2, MoveCounts DEF TrackConn
    <2> QED BY <2>1, <2>2
  <1>6. CASE Upgrade(k)
    BY <1>0, <1>1, <1>6, MoveCounts DEF Upgrade, counters
  <1>7. CASE UpgradeFails(k)
    BY <1>0, <1>1, <1>7, MoveCounts DEF UpgradeFails
  <1>8. CASE RefuseFreeIP(k) \/ EndIP(k)
    <2>1. ipOpen[IPOf[k]] >= 1
      BY <1>8, HeldIsCounted DEF RefuseFreeIP, EndIP
    <2>2. ipOpen' = [ipOpen EXCEPT ![IPOf[k]] = @ + 0 - 1]
      BY <1>0, <1>8, <2>1 DEF RefuseFreeIP, EndIP
    <2>3. CASE RefuseFreeIP(k)
      <3>1. stage[k] = "freeIP" /\ Goto(k, "freeOpen") /\ UNCHANGED <<open, connWG>>
        BY <2>3 DEF RefuseFreeIP
      <3>2. Bit("freeOpen" \in IPStages) = 0 /\ Bit(stage[k] \in IPStages) = 1
        BY <3>1
      <3>3. ipOpen' = [ipOpen EXCEPT ![IPOf[k]] =
                         @ + Bit("freeOpen" \in IPStages) - Bit(stage[k] \in IPStages)]
        <4> HIDE DEF Bit
        <4> QED BY <1>0, <2>2, <3>2
      <3>4. /\ open' = open + Bit("freeOpen" \in OpenStages) - Bit(stage[k] \in OpenStages)
            /\ connWG' = connWG + Bit("freeOpen" \in WGStages) - Bit(stage[k] \in WGStages)
        BY <1>0, <3>1
      <3>5. "freeOpen" \in Stages
        OBVIOUS
      <3> HIDE DEF Bit, Stages, OpenStages, IPStages, WGStages
      <3> QED BY <3>1, <3>3, <3>4, <3>5, MoveCounts
    <2>4. CASE EndIP(k)
      <3>1. stage[k] = "endIP" /\ Goto(k, "endOpen") /\ UNCHANGED <<open, connWG>>
        BY <2>4 DEF EndIP
      <3>2. Bit("endOpen" \in IPStages) = 0 /\ Bit(stage[k] \in IPStages) = 1
        BY <3>1
      <3>3. ipOpen' = [ipOpen EXCEPT ![IPOf[k]] =
                         @ + Bit("endOpen" \in IPStages) - Bit(stage[k] \in IPStages)]
        <4> HIDE DEF Bit
        <4> QED BY <1>0, <2>2, <3>2
      <3>4. /\ open' = open + Bit("endOpen" \in OpenStages) - Bit(stage[k] \in OpenStages)
            /\ connWG' = connWG + Bit("endOpen" \in WGStages) - Bit(stage[k] \in WGStages)
        BY <1>0, <3>1
      <3>5. "endOpen" \in Stages
        OBVIOUS
      <3> HIDE DEF Bit, Stages, OpenStages, IPStages, WGStages
      <3> QED BY <3>1, <3>3, <3>4, <3>5, MoveCounts
    <2> QED BY <1>8, <2>3, <2>4
  <1>9. CASE RefuseFreeOpen(k)
    BY <1>0, <1>1, <1>9, MoveCounts DEF RefuseFreeOpen
  <1>10. CASE Register(k) \/ StopSelf(k)
    <2>1. PICK s \in {"stopping", "running"} : Goto(k, s)
      BY <1>10 DEF Register, StopSelf
    <2> QED BY <1>0, <1>1, <1>10, <2>1, MoveCounts DEF Register, StopSelf, counters
  <1>11. CASE ReadLoopEnds(k)
    BY <1>0, <1>1, <1>11, MoveCounts DEF ReadLoopEnds, counters
  <1>12. CASE Persist(k)
    BY <1>0, <1>1, <1>12, MoveCounts DEF Persist, counters
  <1>13. CASE Unregister(k)
    BY <1>0, <1>1, <1>13, MoveCounts DEF Unregister, counters
  <1>14. CASE WriterWaited(k)
    BY <1>0, <1>1, <1>14, MoveCounts DEF WriterWaited, counters
  <1>15. CASE EndConn(k)
    BY <1>0, <1>1, <1>15, MoveCounts DEF EndConn, counters
  <1>16. CASE EndOpen(k)
    BY <1>0, <1>1, <1>16, MoveCounts DEF EndOpen
  <1>17. CASE EndWG(k)
    BY <1>0, <1>1, <1>17, MoveCounts DEF EndWG
  <1> QED BY <1>2, <1>3, <1>4, <1>5, <1>6, <1>7, <1>8, <1>9, <1>10, <1>11, <1>12, <1>13,
             <1>14, <1>15, <1>16, <1>17 DEF Runs

-----------------------------------------------------------------------------
(* The inductive invariant. *)

Registered == {"stopping", "running", "persist", "unregister", "waitWriter", "endConn"}

\* The counters themselves respect the caps.
CountersCapped ==
    /\ open <= MaxOpen
    /\ MaxOpenPerIP > 0 => \A i \in IPs : ipOpen[i] <= MaxOpenPerIP

\* The registry and the sockets follow the stages.
StagesAgree ==
    /\ conns = {k \in Attempts : stage[k] \in Registered}
    /\ \A k \in Attempts :
         /\ stage[k] \in Served => k \in hijacked
         /\ k \in hijacked => stage[k] \in Served \cup {"freeIP", "freeOpen", "done"}
         /\ stage[k] \in Served \ {"serving", "stopping", "running", "persist"} => k \in saved
         /\ k \in cancelled \cup todo => k \in saved \/ stage[k] \in {"stopping", "running", "persist"}

\* What Shutdown has achieved in each of its phases.
PhasesAgree ==
    /\ shut # "up" => shuttingDown
    /\ shut = "range" => \A k \in conns : k \in cancelled \cup todo \/ stage[k] = "stopping"
    /\ NoneMissed
    /\ shut \in {"wait", "done"} => \A k \in Attempts : stage[k] \in {"new", "done"} \/ k \in hijacked
    /\ shut = "done" => \A k \in Attempts : stage[k] \notin WGStages

ConnInv == TypeOK /\ CountsExact /\ CountersCapped /\ StagesAgree /\ PhasesAgree

\* The caps hold on the counters after every step of an attempt.
LEMMA CapsStep ==
  ASSUME TypeOK, CountersCapped, NEW k \in Attempts, Reserve(k) \/ Runs(k) \/ ReadLoopEnds(k)
  PROVE  CountersCapped'
  <1>0. /\ open \in Nat /\ ipOpen \in [IPs -> Nat] /\ IPOf[k] \in IPs
        /\ MaxOpen \in Nat /\ MaxOpenPerIP \in Nat
    BY ConnectionsAssumption DEF TypeOK
  <1>1. CASE Reserve(k)
    BY <1>0, <1>1 DEF Reserve, CountersCapped
  <1>2. CASE AcquireIP(k)
    BY <1>0, <1>2 DEF AcquireIP, CountersCapped
  <1>3. CASE RefuseFreeIP(k) \/ EndIP(k)
    BY <1>0, <1>3 DEF RefuseFreeIP, EndIP, CountersCapped
  <1>4. CASE RefuseFreeOpen(k) \/ EndOpen(k)
    BY <1>0, <1>4 DEF RefuseFreeOpen, EndOpen, CountersCapped
  <1>5. CASE UNCHANGED <<open, ipOpen>>
    BY <1>5 DEF CountersCapped
  <1> QED BY <1>1, <1>2, <1>3, <1>4, <1>5
          DEF Runs, RateLimit, TrackConn, Upgrade, UpgradeFails, Register, StopSelf,
              ReadLoopEnds, Persist, Unregister, WriterWaited, EndConn, EndWG, counters

\* A step of an attempt moves it to a stage, and changes nobody else's.
LEMMA TypeStep ==
  ASSUME TypeOK, CountsExact', NEW k \in Attempts, Reserve(k) \/ Runs(k) \/ ReadLoopEnds(k)
  PROVE  TypeOK'
  <1>1. stage' \in [Attempts -> Stages]
    BY DEF TypeOK, Stages, Handling, Served, Goto, Runs, Reserve, RateLimit, AcquireIP, TrackConn,
           Upgrade, UpgradeFails, RefuseFreeIP, RefuseFreeOpen, Register, StopSelf,
           ReadLoopEnds, Persist, Unregister, WriterWaited, EndConn, EndIP, EndOpen, EndWG
  <1>2. /\ conns' \subseteq Attempts /\ hijacked' \subseteq Attempts
        /\ cancelled' \subseteq Attempts /\ saved' \subseteq Attempts
    BY DEF TypeOK, Runs, Reserve, RateLimit, AcquireIP, TrackConn,
           Upgrade, UpgradeFails, RefuseFreeIP, RefuseFreeOpen, Register, StopSelf,
           ReadLoopEnds, Persist, Unregister, WriterWaited, EndConn, EndIP, EndOpen, EndWG, sockets
  <1>3. UNCHANGED server
    BY DEF Runs, Reserve, RateLimit, AcquireIP, TrackConn,
           Upgrade, UpgradeFails, RefuseFreeIP, RefuseFreeOpen, Register, StopSelf,
           ReadLoopEnds, Persist, Unregister, WriterWaited, EndConn, EndIP, EndOpen, EndWG
  <1>4. open' \in Nat /\ connWG' \in Nat /\ \A i \in IPs : ipOpen'[i] \in Nat
    <2>1. /\ Open' \in SUBSET Attempts /\ Counted' \in SUBSET Attempts
          /\ \A i \in IPs : OpenAt(i)' \in SUBSET Attempts
      BY DEF Open, Counted, OpenAt
    <2> QED BY <2>1, SizeNat DEF CountsExact
  <1>5. \E f : ipOpen' = [i \in IPs |-> f[i]]
    BY DEF TypeOK, Runs, Reserve, RateLimit, AcquireIP, TrackConn,
           Upgrade, UpgradeFails, RefuseFreeIP, RefuseFreeOpen, Register, StopSelf,
           ReadLoopEnds, Persist, Unregister, WriterWaited, EndConn, EndIP, EndOpen, EndWG, counters
  <1>6. ipOpen' \in [IPs -> Nat]
    BY <1>4, <1>5
  <1> QED BY <1>1, <1>2, <1>3, <1>4, <1>6 DEF TypeOK, server

\* Each step of an attempt keeps the registry and the sockets in agreement with
\* the stages.
LEMMA StagesStep ==
  ASSUME TypeOK, StagesAgree, NEW k \in Attempts, Reserve(k) \/ Runs(k) \/ ReadLoopEnds(k)
  PROVE  StagesAgree'
  <1> USE DEF StagesAgree, Registered, Served, Goto, TypeOK, counters, sockets, server
  <1>1. CASE Reserve(k)
    BY <1>1 DEF Reserve
  <1>2. CASE RateLimit(k)
    BY <1>2 DEF RateLimit
  <1>3. CASE AcquireIP(k)
    BY <1>3 DEF AcquireIP
  <1>4. CASE TrackConn(k)
    BY <1>4 DEF TrackConn
  <1>5. CASE Upgrade(k)
    BY <1>5 DEF Upgrade
  <1>6. CASE UpgradeFails(k)
    BY <1>6 DEF UpgradeFails
  <1>7. CASE RefuseFreeIP(k)
    BY <1>7 DEF RefuseFreeIP
  <1>8. CASE RefuseFreeOpen(k)
    BY <1>8 DEF RefuseFreeOpen
  <1>9. CASE Register(k)
    BY <1>9 DEF Register
  <1>10. CASE StopSelf(k)
    BY <1>10 DEF StopSelf
  <1>11. CASE ReadLoopEnds(k)
    BY <1>11 DEF ReadLoopEnds
  <1>12. CASE Persist(k)
    BY <1>12 DEF Persist
  <1>13. CASE Unregister(k)
    BY <1>13 DEF Unregister
  <1>14. CASE WriterWaited(k)
    BY <1>14 DEF WriterWaited
  <1>15. CASE EndConn(k)
    BY <1>15 DEF EndConn
  <1>16. CASE EndIP(k)
    BY <1>16 DEF EndIP
  <1>17. CASE EndOpen(k)
    BY <1>17 DEF EndOpen
  <1>18. CASE EndWG(k)
    BY <1>18 DEF EndWG
  <1> QED BY <1>1, <1>2, <1>3, <1>4, <1>5, <1>6, <1>7, <1>8, <1>9, <1>10, <1>11, <1>12, <1>13, <1>14, <1>15, <1>16, <1>17, <1>18 DEF Runs

\* ... and what Shutdown has achieved.
LEMMA PhasesStep ==
  ASSUME TypeOK, StagesAgree, PhasesAgree, NEW k \in Attempts,
         Reserve(k) \/ Runs(k) \/ ReadLoopEnds(k)
  PROVE  PhasesAgree'
  <1> USE DEF StagesAgree, PhasesAgree, NoneMissed, Registered, Served, WGStages, Goto, TypeOK,
              counters, sockets, server
  <1>1. CASE Reserve(k)
    BY <1>1 DEF Reserve
  <1>2. CASE RateLimit(k)
    BY <1>2 DEF RateLimit
  <1>3. CASE AcquireIP(k)
    BY <1>3 DEF AcquireIP
  <1>4. CASE TrackConn(k)
    BY <1>4 DEF TrackConn
  <1>5. CASE Upgrade(k)
    BY <1>5 DEF Upgrade
  <1>6. CASE UpgradeFails(k)
    BY <1>6 DEF UpgradeFails
  <1>7. CASE RefuseFreeIP(k)
    BY <1>7 DEF RefuseFreeIP
  <1>8. CASE RefuseFreeOpen(k)
    BY <1>8 DEF RefuseFreeOpen
  <1>9. CASE Register(k)
    BY <1>9 DEF Register
  <1>10. CASE StopSelf(k)
    BY <1>10 DEF StopSelf
  <1>11. CASE ReadLoopEnds(k)
    BY <1>11 DEF ReadLoopEnds
  <1>12. CASE Persist(k)
    BY <1>12 DEF Persist
  <1>13. CASE Unregister(k)
    BY <1>13 DEF Unregister
  <1>14. CASE WriterWaited(k)
    BY <1>14 DEF WriterWaited
  <1>15. CASE EndConn(k)
    BY <1>15 DEF EndConn
  <1>16. CASE EndIP(k)
    BY <1>16 DEF EndIP
  <1>17. CASE EndOpen(k)
    BY <1>17 DEF EndOpen
  <1>18. CASE EndWG(k)
    BY <1>18 DEF EndWG
  <1> QED BY <1>1, <1>2, <1>3, <1>4, <1>5, <1>6, <1>7, <1>8, <1>9, <1>10, <1>11, <1>12, <1>13, <1>14, <1>15, <1>16, <1>17, <1>18 DEF Runs

\* The relay starts in ConnInv: nothing is open.
LEMMA ConnInit == Init => ConnInv
  <1> SUFFICES ASSUME Init PROVE ConnInv
    OBVIOUS
  <1>1. TypeOK
    BY DEF Init, TypeOK, Stages
  <1>2. CountsExact
    <2>1. Open = {} /\ Counted = {} /\ \A i \in IPs : OpenAt(i) = {}
      BY DEF Init, Open, Counted, OpenAt, OpenStages, WGStages, IPStages, Handling, Served
    <2> QED BY <2>1, FS_EmptySet DEF Init, CountsExact
  <1>3. CountersCapped
    BY ConnectionsAssumption DEF Init, CountersCapped
  <1>4. StagesAgree /\ PhasesAgree
    BY DEF Init, StagesAgree, PhasesAgree, NoneMissed, Registered, Served
  <1> QED BY <1>1, <1>2, <1>3, <1>4 DEF ConnInv

\* A step that moves no counter and no attempt keeps the counts and the caps.
LEMMA CountsStay ==
  ASSUME CountsExact, CountersCapped, open' = open, ipOpen' = ipOpen, connWG' = connWG, stage' = stage
  PROVE  CountsExact' /\ CountersCapped'
  <1>1. Open' = Open /\ Counted' = Counted /\ \A i \in IPs : OpenAt(i)' = OpenAt(i)
    BY DEF Open, Counted, OpenAt
  <1>2. CountsExact'
    BY <1>1 DEF CountsExact
  <1>3. CountersCapped'
    BY DEF CountersCapped
  <1> QED BY <1>2, <1>3

\* The connection's own forced close and the steps of Shutdown keep the types.
LEMMA OtherTypes ==
  ASSUME TypeOK,
         \/ \E k \in Attempts : ForceClose(k) \/ RangeVisit(k)
         \/ ShutdownFlag \/ RangeStart \/ RangeEnd \/ HttpDone \/ WaitDone \/ Expire
  PROVE  TypeOK' /\ UNCHANGED <<open, ipOpen, connWG, stage, conns, saved, hijacked>>
  <1> USE DEF TypeOK, counters, sockets, server
  <1>1. ASSUME NEW k \in Attempts, ForceClose(k) \/ RangeVisit(k)
        PROVE  TypeOK' /\ UNCHANGED <<open, ipOpen, connWG, stage, conns, saved, hijacked>>
    BY <1>1 DEF ForceClose, RangeVisit
  <1>2. CASE ShutdownFlag
    BY <1>2 DEF ShutdownFlag
  <1>3. CASE RangeStart
    BY <1>3 DEF RangeStart
  <1>4. CASE RangeEnd
    BY <1>4 DEF RangeEnd
  <1>5. CASE HttpDone
    BY <1>5 DEF HttpDone
  <1>6. CASE WaitDone
    BY <1>6 DEF WaitDone
  <1>7. CASE Expire
    BY <1>7 DEF Expire
  <1> QED BY <1>1, <1>2, <1>3, <1>4, <1>5, <1>6, <1>7

\* Every step keeps ConnInv.
LEMMA ConnNext == ConnInv /\ [Next]_vars => ConnInv'
  <1> SUFFICES ASSUME ConnInv, [Next]_vars PROVE ConnInv'
    OBVIOUS
  <1>0. TypeOK /\ CountsExact /\ CountersCapped /\ StagesAgree /\ PhasesAgree
    BY DEF ConnInv
  <1>1. ASSUME NEW k \in Attempts, Reserve(k) \/ Runs(k) \/ ReadLoopEnds(k) PROVE ConnInv'
    BY <1>0, <1>1, CountsStep, CapsStep, TypeStep, StagesStep, PhasesStep DEF ConnInv
  <1>2. ASSUME \/ \E k \in Attempts : ForceClose(k) \/ RangeVisit(k)
               \/ ShutdownFlag \/ RangeStart \/ RangeEnd \/ HttpDone \/ WaitDone \/ Expire
        PROVE  ConnInv'
    <2>1. TypeOK' /\ UNCHANGED <<open, ipOpen, connWG, stage, conns, saved, hijacked>>
      BY <1>0, <1>2, OtherTypes
    <2>2. CountsExact' /\ CountersCapped'
      BY <1>0, <2>1, CountsStay
    <2>3. StagesAgree'
      <3>1. ASSUME NEW k \in Attempts, ForceClose(k) \/ RangeVisit(k) PROVE StagesAgree'
        <4>1. cancelled' = cancelled \cup {k} /\ todo' \subseteq todo
          BY <3>1 DEF ForceClose, RangeVisit, server
        <4>2. k \in todo \/ stage[k] = "running"
          BY <3>1 DEF ForceClose, RangeVisit
        <4> QED BY <1>0, <2>1, <4>1, <4>2 DEF StagesAgree
      <3>2. ASSUME ShutdownFlag \/ RangeStart \/ RangeEnd \/ HttpDone \/ WaitDone \/ Expire
            PROVE  StagesAgree'
        <4>1. cancelled' = cancelled /\ todo' \subseteq todo \cup conns
          BY <3>2 DEF ShutdownFlag, RangeStart, RangeEnd, HttpDone, WaitDone, Expire, sockets
        <4>2. \A k \in conns : k \in saved \/ stage[k] \in {"stopping", "running", "persist"}
          BY <1>0 DEF StagesAgree, Registered, Served
        <4> QED BY <1>0, <2>1, <4>1, <4>2 DEF StagesAgree
      <3> QED BY <1>2, <3>1, <3>2
    <2>4. PhasesAgree'
      <3>1. ASSUME NEW k \in Attempts, ForceClose(k) \/ RangeVisit(k) PROVE PhasesAgree'
        BY <1>0, <2>1, <3>1 DEF PhasesAgree, TypeOK, NoneMissed, ForceClose, RangeVisit, server
      <3>2. CASE ShutdownFlag
        BY <1>0, <2>1, <3>2 DEF PhasesAgree, NoneMissed, ShutdownFlag, sockets
      <3>3. CASE RangeStart
        BY <1>0, <2>1, <3>3 DEF PhasesAgree, StagesAgree, NoneMissed, RangeStart, sockets
      <3>4. CASE RangeEnd
        BY <1>0, <2>1, <3>4 DEF PhasesAgree, NoneMissed, RangeEnd, sockets
      <3>5. CASE HttpDone
        BY <1>0, <2>1, <3>5 DEF PhasesAgree, StagesAgree, NoneMissed, HttpDone, sockets
      <3>6. CASE WaitDone
        <4>1. \A k \in Attempts : stage[k] \notin WGStages
          BY <1>0, <3>6, HeldIsCounted DEF WaitDone
        <4> QED BY <1>0, <2>1, <3>6, <4>1 DEF PhasesAgree, NoneMissed, WaitDone, sockets
      <3>7. CASE Expire
        BY <1>0, <2>1, <3>7 DEF PhasesAgree, NoneMissed, Expire, sockets
      <3> QED BY <1>2, <3>1, <3>2, <3>3, <3>4, <3>5, <3>6, <3>7
    <2> QED BY <2>1, <2>2, <2>3, <2>4 DEF ConnInv
  <1>3. CASE UNCHANGED vars
    <2>1. UNCHANGED <<open, ipOpen, connWG, conns, hijacked, cancelled, saved, stage,
                      shuttingDown, shut, todo>>
      BY <1>3 DEF vars, counters, sockets, server
    <2>2. CountsExact' /\ CountersCapped'
      BY <1>0, <2>1, CountsStay
    <2>3. TypeOK'
      BY <1>0, <2>1 DEF TypeOK
    <2>4. StagesAgree'
      BY <1>0, <2>1 DEF StagesAgree
    <2>5. PhasesAgree'
      BY <1>0, <2>1 DEF PhasesAgree, NoneMissed
    <2> QED BY <2>2, <2>3, <2>4, <2>5 DEF ConnInv
  <1> QED BY <1>1, <1>2, <1>3 DEF Next, Shutdown

\* ConnInv holds of every reachable state.
LEMMA ConnInvariant == Spec => []ConnInv
  BY ConnInit, ConnNext, PTL DEF Spec

-----------------------------------------------------------------------------
(* The theorems. *)

\* The counters stay natural numbers (no path releases what it did not take) and
\* every other variable keeps its type.
THEOREM ConnTypeCorrect == Spec => []TypeOK
  <1>1. ConnInv => TypeOK
    BY DEF ConnInv
  <1> QED BY <1>1, ConnInvariant, PTL

\* Whatever the interleaving of upgrades, refusals, failures and teardowns, the
\* relay's three connection counters equal what is really open.
THEOREM CountersAreExact == Spec => []CountsExact
  <1>1. ConnInv => CountsExact
    BY DEF ConnInv
  <1> QED BY <1>1, ConnInvariant, PTL

\* max_open and max_open_per_ip bound the connections really open, upgrades in
\* progress included.
THEOREM CapsAreKept == Spec => []CapsHold
  <1>1. ConnInv => CapsHold
    BY DEF ConnInv, CountsExact, CountersCapped, CapsHold
  <1> QED BY <1>1, ConnInvariant, PTL

\* No connection escapes Shutdown by registering while it ranges.
THEOREM ShutdownMissesNone == Spec => []NoneMissed
  <1>1. ConnInv => NoneMissed
    BY DEF ConnInv, PhasesAgree
  <1> QED BY <1>1, ConnInvariant, PTL

\* When Shutdown returns without error no connection is or will be served, and
\* every one that was served has handed its session to the store.
THEOREM ShutdownIsClean == Spec => []CleanShutdown
  <1>1. ASSUME ConnInv PROVE CleanShutdown
    <2> SUFFICES ASSUME shut = "done" PROVE CleanShutdown!2
      BY DEF CleanShutdown
    <2>1. \A k \in Attempts : stage[k] \notin WGStages
      BY <1>1 DEF ConnInv, PhasesAgree
    <2>2. conns = {}
      BY <1>1, <2>1 DEF ConnInv, StagesAgree, Registered, WGStages, Served
    <2>3. \A k \in Attempts : stage[k] # "acquired"
      BY <1>1 DEF ConnInv, PhasesAgree, StagesAgree, Served
    <2>4. cancelled \subseteq saved
      BY <1>1, <2>1 DEF ConnInv, TypeOK, StagesAgree, WGStages, Served
    <2> QED BY <2>1, <2>2, <2>3, <2>4 DEF WGStages
  <1> QED BY <1>1, ConnInvariant, PTL

\* The counters are exact and both caps hold, whatever upgrades race.
THEOREM AdmissionIsExact == Spec => []AdmissionExact
  BY CountersAreExact, CapsAreKept, PTL DEF AdmissionExact

\* Shutdown misses no connection and, when it succeeds, leaves none behind.
THEOREM ShutdownIsSafe == Spec => []ShutdownSafe
  BY ShutdownMissesNone, ShutdownIsClean, PTL DEF ShutdownSafe

=============================================================================
