------------------------- MODULE NegSessionsProofs -------------------------
(***************************************************************************)
(* Proofs about NegSessions for every set of connections and ids, every    *)
(* limit and every queue capacity: types, exact slot accounting, and the   *)
(* order of the answers to successive sessions of an id.                   *)
(***************************************************************************)
EXTENDS NegSessions, FiniteSetTheorems, TLAPS

\* What every step but the counted ones leaves to show: the map names each
\* session where the session says it is, and a reservation under way holds its
\* place empty.
KeysAgree ==
    \A k \in Keys : byID[k] # 0 => byID[k] \in 1 .. opened /\ key[byID[k]] = k
TakeAgrees ==
    \A c \in Conns : pc[c] = "take" =>
        /\ byID[<<c, cur[c].sub>>] = 0
        /\ key[cur[c].sess] = <<c, cur[c].sub>>
SessAgrees ==
    \A c \in Conns : pc[c] \in {"take", "enqueue"} => cur[c].sess \in 1 .. opened

NegInv == TypeOK /\ KeysAgree /\ TakeAgrees /\ SessAgrees /\ SlotsExact

-----------------------------------------------------------------------------
(* Types. *)

\* There is a key, and its parts are a connection and a subscription id.
LEMMA AnyKeyType == AnyKey \in Keys /\ AnyKey[2] \in SubIDs
  <1>1. \E k \in Keys : TRUE
    <2>1. PICK c \in Conns, s \in SubIDs : TRUE
      BY NegAssumption
    <2>2. <<c, s>> \in Keys
      BY DEF Keys
    <2> QED BY <2>2
  <1> QED BY <1>1 DEF AnyKey, Keys

\* The components of a key.
LEMMA KeyParts ==
  ASSUME NEW k \in Keys
  PROVE  k[1] \in Conns /\ k[2] \in SubIDs
  BY DEF Keys

\* A frame of a session keeps the type of wire, accepted or not.
LEMMA EnqueueType ==
  ASSUME TypeOK, NEW c \in Conns, NEW kind \in {"msg", "err", "idle"},
         NEW s \in SubIDs, NEW x \in Sessions, Enqueue(c, kind, s, x)
  PROVE  wire' \in [Conns -> Seq([kind : {"msg", "err", "idle"}, sub : SubIDs, sess : Sessions])]
  <1>1. [kind |-> kind, sub |-> s, sess |-> x]
           \in [kind : {"msg", "err", "idle"}, sub : SubIDs, sess : Sessions]
    OBVIOUS
  <1>2. wire[c] \in Seq([kind : {"msg", "err", "idle"}, sub : SubIDs, sess : Sessions])
    BY DEF TypeOK
  <1>3. Append(wire[c], [kind |-> kind, sub |-> s, sess |-> x])
           \in Seq([kind : {"msg", "err", "idle"}, sub : SubIDs, sess : Sessions])
    BY <1>1, <1>2
  <1> QED BY <1>3 DEF TypeOK, Enqueue

\* Closing a session keeps the types of the map and of the timers ...
LEMMA CloseType ==
  ASSUME TypeOK, NEW x, CloseSession(x)
  PROVE  byID' \in [Keys -> 0 .. MaxOpens] /\ timer' \in SUBSET Sessions
  <1>1. 0 \in 0 .. MaxOpens
    BY NegAssumption
  <1> QED BY <1>1 DEF TypeOK, CloseSession

\* ... and so does arming a timer ...
LEMMA ScheduleType ==
  ASSUME TypeOK, NEW x, ScheduleNegIdle(x)
  PROVE  timer' \in SUBSET Sessions
  <1>1. Current(x) => x \in Sessions
    BY NegAssumption DEF TypeOK, Current, Sessions
  <1> QED BY <1>1 DEF TypeOK, ScheduleNegIdle

\* ... and removeIf.
LEMMA RemoveIfType ==
  ASSUME TypeOK, NEW x, RemoveIf(x)
  PROVE  byID' \in [Keys -> 0 .. MaxOpens] /\ timer' \in SUBSET Sessions
  BY CloseType DEF TypeOK, RemoveIf

\* The initial state has the types.
LEMMA InitTypes == Init => TypeOK
  <1> SUFFICES ASSUME Init PROVE TypeOK
    OBVIOUS
  <1>1. 0 \in 0 .. MaxOpens /\ 0 \in 0 .. MaxMsgs
    BY NegAssumption
  <1>2. [sub |-> AnyKey[2], sess |-> 0] \in [sub : SubIDs, sess : 0 .. MaxOpens]
    BY <1>1, AnyKeyType
  <1>3. cur \in [Conns -> [sub : SubIDs, sess : 0 .. MaxOpens]]
    BY <1>2 DEF Init
  <1>4. key \in [Sessions -> Keys]
    BY AnyKeyType DEF Init
  <1>5. wire \in [Conns -> Seq([kind : {"msg", "err", "idle"}, sub : SubIDs, sess : Sessions])]
    BY DEF Init
  <1>6. pc \in [Conns -> Labels] /\ jobs \in Seq(Sessions) /\ byID \in [Keys -> 0 .. MaxOpens]
    BY <1>1 DEF Init, Labels
  <1> QED BY <1>1, <1>3, <1>4, <1>5, <1>6 DEF Init, TypeOK

\* The session a handler or job names is one of Sessions when it is not 0.
LEMMA SessionRange ==
  ASSUME NEW x \in 0 .. MaxOpens, x # 0
  PROVE  x \in Sessions
  BY NegAssumption DEF Sessions

\* Everything but the counter keeps its type.
TypeButActive ==
    /\ byID \in [Keys -> 0 .. MaxOpens]
    /\ opened \in 0 .. MaxOpens
    /\ key \in [Sessions -> Keys]
    /\ ready \subseteq Sessions
    /\ timer \subseteq Sessions
    /\ fired \subseteq Sessions
    /\ late \subseteq Sessions
    /\ jobs \in Seq(Sessions)
    /\ load \in 0 .. MaxOpens
    /\ loaded \in BOOLEAN
    /\ pc \in [Conns -> Labels]
    /\ cur \in [Conns -> [sub : SubIDs, sess : 0 .. MaxOpens]]
    /\ msgs \in 0 .. MaxMsgs
    /\ wire \in [Conns -> Seq([kind : {"msg", "err", "idle"}, sub : SubIDs,
                               sess : Sessions])]

\* The steps of a read loop and of its client keep the types.
LEMMA ReaderTypes ==
  ASSUME TypeOK, SessAgrees, NEW c \in Conns, Client(c) \/ Handle(c)
  PROVE  TypeButActive'
  <1> USE NegAssumption DEF TypeOK, TypeButActive, Labels, Goto, maps, timers, worker, readers
  <1>1. ASSUME NEW s \in SubIDs, OpenReplace(c, s) PROVE TypeButActive'
    <2>1. <<c, s>> \in Keys /\ opened + 1 \in Sessions
      BY <1>1 DEF OpenReplace, Keys, Sessions
    <2>2. byID' \in [Keys -> 0 .. MaxOpens] /\ timer' \subseteq Sessions
      BY <1>1, <2>1, CloseType DEF OpenReplace
    <2>3. key' \in [Sessions -> Keys] /\ opened' \in 0 .. MaxOpens
      BY <1>1, <2>1 DEF OpenReplace, Sessions
    <2>4. cur' \in [Conns -> [sub : SubIDs, sess : 0 .. MaxOpens]]
      <3>1. [sub |-> s, sess |-> opened + 1] \in [sub : SubIDs, sess : 0 .. MaxOpens]
        BY <2>1 DEF Sessions
      <3> QED BY <1>1, <3>1 DEF OpenReplace
    <2> QED BY <1>1, <2>2, <2>3, <2>4 DEF OpenReplace
  <1>2. CASE OpenTake(c)
    <2>1. <<c, cur[c].sub>> \in Keys /\ cur[c].sess \in 0 .. MaxOpens
      BY DEF Keys
    <2> QED BY <1>2, <2>1 DEF OpenTake
  <1>3. CASE OpenRefused(c)
    BY <1>3 DEF OpenRefused
  <1>4. CASE OpenEnqueue(c)
    <2>1. cur[c].sess \in Sessions
      BY <1>4 DEF OpenEnqueue, SessAgrees, Sessions
    <2>2. jobs' \in Seq(Sessions)
      <3>1. Append(jobs, cur[c].sess) \in Seq(Sessions)
        BY <2>1
      <3> QED BY <1>4, <3>1 DEF OpenEnqueue
    <2> QED BY <1>4, <2>2 DEF OpenEnqueue
  <1>5. ASSUME NEW s \in SubIDs, MsgGet(c, s) PROVE TypeButActive'
    <2>1. byID[<<c, s>>] \in 0 .. MaxOpens
      BY DEF Keys
    <2>2. cur' \in [Conns -> [sub : SubIDs, sess : 0 .. MaxOpens]]
      <3>1. [sub |-> s, sess |-> byID[<<c, s>>]] \in [sub : SubIDs, sess : 0 .. MaxOpens]
        BY <2>1
      <3> QED BY <1>5, <3>1 DEF MsgGet
    <2>3. pc' \in [Conns -> Labels] /\ msgs' \in 0 .. MaxMsgs
      BY <1>5 DEF MsgGet
    <2> QED BY <1>5, <2>2, <2>3 DEF MsgGet
  <1>6. CASE MsgSchedule(c)
    <2>1. timer' \subseteq Sessions
      BY <1>6, ScheduleType DEF MsgSchedule
    <2> QED BY <1>6, <2>1 DEF MsgSchedule
  <1>7. CASE MsgReconcile(c)
    BY <1>7 DEF MsgReconcile
  <1>8. CASE MsgDrop(c)
    BY <1>8, RemoveIfType DEF MsgDrop
  <1>9. CASE MsgFinish(c)
    BY <1>9, RemoveIfType DEF MsgFinish
  <1>10. CASE Answer(c)
    <2>1. wire' \in [Conns -> Seq([kind : {"msg", "err", "idle"}, sub : SubIDs, sess : Sessions])]
      <3>1. CASE cur[c].sess = 0
        BY <1>10, <3>1 DEF Answer
      <3>2. CASE cur[c].sess # 0
        <4>1. cur[c].sess \in Sessions /\ cur[c].sub \in SubIDs
          BY <3>2, SessionRange
        <4> QED BY <1>10, <3>2, <4>1, EnqueueType DEF Answer
      <3> QED BY <3>1, <3>2
    <2> QED BY <1>10, <2>1 DEF Answer
  <1>11. ASSUME NEW s \in SubIDs, NegClose(c, s) PROVE TypeButActive'
    <2>1. byID' \in [Keys -> 0 .. MaxOpens] /\ timer' \subseteq Sessions
      BY <1>11, CloseType DEF NegClose
    <2> QED BY <1>11, <2>1 DEF NegClose
  <1>12. CASE CloseAll(c)
    <2>1. byID' \in [Keys -> 0 .. MaxOpens] /\ timer' \subseteq Sessions
      BY <1>12 DEF CloseAll
    <2> QED BY <1>12, <2>1 DEF CloseAll
  <1> QED BY <1>1, <1>2, <1>3, <1>4, <1>5, <1>6, <1>7, <1>8, <1>9, <1>10, <1>11, <1>12
          DEF Client, Handle

\* ... and so do the worker's and the timers'.
LEMMA BackgroundTypes ==
  ASSUME TypeOK, Worker \/ \E x \in Sessions : Timer(x)
  PROVE  TypeButActive'
  <1> USE NegAssumption DEF TypeOK, TypeButActive, maps, timers, worker, readers
  <1>1. ASSUME load # 0
        PROVE  load \in Sessions /\ key[load][1] \in Conns /\ key[load][2] \in SubIDs
    BY <1>1, SessionRange, KeyParts
  <1>2. CASE LoadTake
    <2>1. Head(jobs) \in Sessions /\ Tail(jobs) \in Seq(Sessions)
      BY <1>2 DEF LoadTake
    <2>2. load' \in 0 .. MaxOpens
      BY <1>2, <2>1 DEF LoadTake, Sessions
    <2> QED BY <1>2, <2>1, <2>2 DEF LoadTake
  <1>3. CASE LoadFails
    <2>1. wire' \in [Conns -> Seq([kind : {"msg", "err", "idle"}, sub : SubIDs, sess : Sessions])]
      BY <1>1, <1>3, EnqueueType DEF LoadFails
    <2>2. byID' \in [Keys -> 0 .. MaxOpens] /\ timer' \subseteq Sessions
      BY <1>3, RemoveIfType DEF LoadFails
    <2>3. load' \in 0 .. MaxOpens
      BY <1>3 DEF LoadFails
    <2> QED BY <1>3, <2>1, <2>2, <2>3 DEF LoadFails
  <1>4. CASE LoadAnswers
    <2>1. wire' \in [Conns -> Seq([kind : {"msg", "err", "idle"}, sub : SubIDs, sess : Sessions])]
      BY <1>1, <1>4, EnqueueType DEF LoadAnswers
    <2>2. byID' \in [Keys -> 0 .. MaxOpens] /\ timer' \subseteq Sessions
      BY <1>4, CloseType DEF LoadAnswers
    <2>3. load' \in 0 .. MaxOpens /\ loaded' \in BOOLEAN /\ ready' \subseteq Sessions
      BY <1>1, <1>4 DEF LoadAnswers
    <2> QED BY <1>4, <2>1, <2>2, <2>3 DEF LoadAnswers
  <1>5. CASE LoadStale
    <2>1. load' \in 0 .. MaxOpens
      BY <1>5 DEF LoadStale
    <2> QED BY <1>5, <2>1 DEF LoadStale
  <1>6. CASE LoadSchedule
    <2>1. timer' \subseteq Sessions
      BY <1>6, ScheduleType DEF LoadSchedule
    <2>2. load' \in 0 .. MaxOpens
      BY <1>6 DEF LoadSchedule
    <2>3. loaded' \in BOOLEAN
      BY <1>6 DEF LoadSchedule
    <2> QED BY <1>6, <2>1, <2>2, <2>3 DEF LoadSchedule
  <1>7. ASSUME NEW x \in Sessions, TimerFires(x) PROVE TypeButActive'
    BY <1>7 DEF TimerFires
  <1>8. ASSUME NEW x \in Sessions, IdleRemove(x) PROVE TypeButActive'
    <2>1. byID' \in [Keys -> 0 .. MaxOpens] /\ timer' \subseteq Sessions
      BY <1>8, RemoveIfType DEF IdleRemove
    <2> QED BY <1>8, <2>1 DEF IdleRemove
  <1>9. ASSUME NEW x \in Sessions, IdleError(x) PROVE TypeButActive'
    <2>1. wire' \in [Conns -> Seq([kind : {"msg", "err", "idle"}, sub : SubIDs, sess : Sessions])]
      BY <1>9, KeyParts, EnqueueType DEF IdleError
    <2> QED BY <1>9, <2>1 DEF IdleError
  <1> QED BY <1>2, <1>3, <1>4, <1>5, <1>6, <1>7, <1>8, <1>9 DEF Worker, Timer

-----------------------------------------------------------------------------
(* What a step does to the map and the counter: nothing, or it closes one    *)
(* session, admits one, or closes all of a connection.                       *)

Quiet == UNCHANGED <<byID, active>>
Closes(k) ==
    /\ byID[k] # 0
    /\ byID' = [byID EXCEPT ![k] = 0]
    /\ active' = active - 1
Admits(k) ==
    /\ byID[k] = 0
    /\ active < MaxSessions
    /\ active' = active + 1
    /\ \E x \in 1 .. opened : key[x] = k /\ byID' = [byID EXCEPT ![k] = x]
ClosesAll(c) ==
    /\ byID' = [k \in Keys |-> IF k \in {c} \X SubIDs THEN 0 ELSE byID[k]]
    /\ active' = active - Cardinality({k \in {c} \X SubIDs : byID[k] # 0})

\* removeIf closes the session or does nothing.
LEMMA RemoveIfKind ==
  ASSUME TypeOK, NEW x, RemoveIf(x)
  PROVE  Quiet \/ \E k \in Keys : Closes(k)
  <1>1. CASE Current(x)
    <2>1. x \in Sessions /\ key[x] \in Keys /\ byID[key[x]] # 0
      BY <1>1, NegAssumption DEF Current, TypeOK, Sessions
    <2> QED BY <1>1, <2>1 DEF RemoveIf, CloseSession, Closes
  <1>2. CASE ~Current(x)
    BY <1>2 DEF RemoveIf, Quiet
  <1> QED BY <1>1, <1>2

\* Closing the session named in the map closes that entry.
LEMMA CloseKind ==
  ASSUME TypeOK, KeysAgree, NEW k \in Keys, byID[k] # 0, CloseSession(byID[k])
  PROVE  Closes(k)
  BY DEF KeysAgree, CloseSession, Closes

\* Every step of a read loop or its client is of one of the four kinds.
LEMMA ReaderKinds ==
  ASSUME TypeOK, KeysAgree, TakeAgrees, SessAgrees, NEW c \in Conns, Client(c) \/ Handle(c)
  PROVE  \/ Quiet \/ ClosesAll(c)
         \/ \E k \in Keys : Closes(k) \/ (Admits(k) /\ k[1] = c)
  <1> USE DEF maps
  <1>1. ASSUME NEW s \in SubIDs, OpenReplace(c, s) PROVE Quiet \/ \E k \in Keys : Closes(k)
    <2>1. <<c, s>> \in Keys
      BY DEF Keys
    <2> QED BY <1>1, <2>1, CloseKind DEF OpenReplace, Quiet
  <1>2. CASE OpenTake(c)
    <2>1. <<c, cur[c].sub>> \in Keys
      BY DEF Keys, TypeOK
    <2>2. cur[c].sess \in 1 .. opened /\ key[cur[c].sess] = <<c, cur[c].sub>>
      BY <1>2 DEF OpenTake, TakeAgrees, SessAgrees
    <2>3. Admits(<<c, cur[c].sub>>)
      BY <1>2, <2>2 DEF OpenTake, TakeAgrees, Admits
    <2> QED BY <2>1, <2>3
  <1>3. CASE OpenRefused(c) \/ OpenEnqueue(c) \/ MsgSchedule(c) \/ MsgReconcile(c) \/ Answer(c)
    BY <1>3 DEF OpenRefused, OpenEnqueue, MsgSchedule, MsgReconcile, Answer, Quiet
  <1>4. ASSUME NEW s \in SubIDs, MsgGet(c, s) PROVE Quiet
    BY <1>4 DEF MsgGet, Quiet
  <1>5. CASE MsgDrop(c) \/ MsgFinish(c)
    BY <1>5, RemoveIfKind DEF MsgDrop, MsgFinish
  <1>6. ASSUME NEW s \in SubIDs, NegClose(c, s) PROVE \E k \in Keys : Closes(k)
    <2>1. <<c, s>> \in Keys
      BY DEF Keys
    <2> QED BY <1>6, <2>1, CloseKind DEF NegClose
  <1>7. CASE CloseAll(c)
    <2>1. byID' = [k \in Keys |-> IF k \in {c} \X SubIDs THEN 0 ELSE byID[k]]
      BY <1>7 DEF CloseAll, TypeOK
    <2> QED BY <1>7, <2>1 DEF CloseAll, ClosesAll
  <1> QED BY <1>1, <1>2, <1>3, <1>4, <1>5, <1>6, <1>7 DEF Client, Handle

\* The worker's and the timers' steps close one session or none.
LEMMA BackgroundKinds ==
  ASSUME TypeOK, Worker \/ \E x \in Sessions : Timer(x)
  PROVE  Quiet \/ \E k \in Keys : Closes(k)
  <1> USE DEF maps
  <1>1. CASE LoadTake \/ LoadStale \/ LoadSchedule
    BY <1>1 DEF LoadTake, LoadStale, LoadSchedule, Quiet
  <1>2. CASE LoadFails
    BY <1>2, RemoveIfKind DEF LoadFails
  <1>3. CASE LoadAnswers
    <2>1. Quiet \/ RemoveIf(load)
      BY <1>3 DEF LoadAnswers, RemoveIf, Quiet
    <2> QED BY <2>1, RemoveIfKind
  <1>4. ASSUME NEW x \in Sessions, TimerFires(x) \/ IdleError(x) PROVE Quiet
    BY <1>4 DEF TimerFires, IdleError, Quiet
  <1>5. ASSUME NEW x \in Sessions, IdleRemove(x) PROVE Quiet \/ \E k \in Keys : Closes(k)
    BY <1>5, RemoveIfKind DEF IdleRemove
  <1> QED BY <1>1, <1>2, <1>3, <1>4, <1>5 DEF Worker, Timer

-----------------------------------------------------------------------------
(* Counting. *)

\* The keys in use are finitely many.
LEMMA HeldFinite ==
  /\ IsFiniteSet(Held)
  /\ Cardinality(Held) \in Nat
  <1>1. IsFiniteSet(Keys)
    BY NegAssumption, FS_Product DEF Keys
  <1>2. IsFiniteSet(Held)
    BY <1>1, FS_Subset DEF Held
  <1> QED BY <1>2, FS_CardinalityType

\* A step of any of the four kinds keeps the count and the limit.
LEMMA CountStep ==
  ASSUME TypeOK, SlotsExact, TypeButActive',
         NEW c \in Conns, Quiet \/ (\E k \in Keys : Closes(k) \/ Admits(k)) \/ ClosesAll(c)
  PROVE  SlotsExact' /\ active' \in Nat
  <1>0. /\ IsFiniteSet(Held) /\ Cardinality(Held) \in Nat
        /\ active = Cardinality(Held) /\ active <= MaxSessions /\ MaxSessions \in Nat
    BY HeldFinite, NegAssumption DEF SlotsExact
  <1>1. CASE Quiet
    BY <1>0, <1>1 DEF Quiet, SlotsExact, Held
  <1>2. ASSUME NEW k \in Keys, Closes(k) PROVE SlotsExact' /\ active' \in Nat
    <2>1. Held' = Held \ {k} /\ k \in Held
      BY <1>2 DEF Closes, Held, TypeOK
    <2>2. Cardinality(Held \ {k}) = Cardinality(Held) - 1 /\ Cardinality(Held \ {k}) \in Nat
      BY <1>0, <2>1, FS_RemoveElement, FS_CardinalityType
    <2> QED BY <1>0, <1>2, <2>1, <2>2 DEF Closes, SlotsExact
  <1>3. ASSUME NEW k \in Keys, Admits(k) PROVE SlotsExact' /\ active' \in Nat
    <2>1. Held' = Held \cup {k} /\ k \notin Held
      BY <1>3 DEF Admits, Held, TypeOK
    <2>2. Cardinality(Held \cup {k}) = Cardinality(Held) + 1
      BY <1>0, <2>1, FS_AddElement
    <2> QED BY <1>0, <1>3, <2>1, <2>2 DEF Admits, SlotsExact
  <1>4. CASE ClosesAll(c)
    <2> DEFINE mine == {k \in {c} \X SubIDs : byID[k] # 0}
    <2>1. mine \subseteq Held /\ Held' = Held \ mine
      BY <1>4 DEF ClosesAll, Held, Keys, TypeOK
    <2>2. Cardinality(Held \ mine) = Cardinality(Held) - Cardinality(Held \cap mine)
      BY <1>0, FS_Difference
    <2>3. Held \cap mine = mine
      BY <2>1
    <2>4. Cardinality(Held \ mine) \in Nat
      BY <1>0, FS_Difference, FS_CardinalityType
    <2>5. Cardinality(mine) \in Nat
      BY <1>0, <2>1, FS_Subset, FS_CardinalityType
    <2>6. active' = active - Cardinality(mine)
      BY <1>4 DEF ClosesAll
    <2>7. active' = Cardinality(Held') /\ active' \in Nat
      BY <1>0, <2>1, <2>2, <2>3, <2>4, <2>6
    <2>8. active' <= MaxSessions
      BY <1>0, <2>5, <2>6
    <2> QED BY <2>7, <2>8 DEF SlotsExact
  <1> QED BY <1>1, <1>2, <1>3, <1>4

-----------------------------------------------------------------------------
(* The map, the sessions' keys and the reservations under way. *)

\* The map stays in agreement with the sessions' keys: a step that starts a
\* session gives it a number not in use.
LEMMA KeysStep ==
  ASSUME TypeOK, KeysAgree, NEW c \in Conns,
         Quiet \/ (\E k \in Keys : Closes(k) \/ Admits(k)) \/ ClosesAll(c),
         \/ opened' = opened /\ key' = key
         \/ /\ opened' = opened + 1 /\ opened' \in Sessions
            /\ \E d \in Keys : key' = [key EXCEPT ![opened + 1] = d]
  PROVE  KeysAgree'
  <1>0. /\ opened \in Nat /\ opened' \in Nat /\ opened <= opened'
        /\ \A x \in 1 .. opened : x \in 1 .. opened' /\ key'[x] = key[x]
    <2>1. opened \in Nat /\ opened <= MaxOpens /\ key \in [Sessions -> Keys]
      BY NegAssumption DEF TypeOK
    <2>2. CASE opened' = opened /\ key' = key
      BY <2>1, <2>2
    <2>3. ASSUME opened' = opened + 1, opened' \in Sessions, NEW d \in Keys,
                 key' = [key EXCEPT ![opened + 1] = d]
          PROVE  /\ opened' \in Nat /\ opened <= opened'
                 /\ \A x \in 1 .. opened : x \in 1 .. opened' /\ key'[x] = key[x]
      BY <2>1, <2>3, NegAssumption DEF Sessions
    <2> QED BY <2>1, <2>2, <2>3
  <1>1. ASSUME NEW k \in Keys, byID'[k] # 0
        PROVE  byID'[k] \in 1 .. opened /\ key[byID'[k]] = k
    <2>1. CASE Quiet
      BY <1>1, <2>1 DEF Quiet, KeysAgree
    <2>2. ASSUME NEW j \in Keys, Closes(j) PROVE byID'[k] \in 1 .. opened /\ key[byID'[k]] = k
      BY <1>1, <2>2 DEF Closes, KeysAgree, TypeOK
    <2>3. ASSUME NEW j \in Keys, Admits(j) PROVE byID'[k] \in 1 .. opened /\ key[byID'[k]] = k
      BY <1>1, <2>3 DEF Admits, KeysAgree, TypeOK
    <2>4. CASE ClosesAll(c)
      BY <1>1, <2>4 DEF ClosesAll, KeysAgree
    <2> QED BY <2>1, <2>2, <2>3, <2>4
  <1> QED BY <1>0, <1>1 DEF KeysAgree

\* A read loop only moves itself; only NEG-OPEN numbers a session and takes the
\* map's lock, and only a granted slot leads to the queue.
LEMMA ReaderLocal ==
  ASSUME TypeOK, NEW c \in Conns, Client(c) \/ Handle(c)
  PROVE  /\ \A d \in Conns \ {c} : pc'[d] = pc[d] /\ cur'[d] = cur[d]
         /\ \/ opened' = opened /\ key' = key /\ pc'[c] # "take"
            \/ \E s \in SubIDs : OpenReplace(c, s)
         /\ pc'[c] = "enqueue" => OpenTake(c)
  <1> USE DEF Goto, maps, readers
  <1>0. pc \in [Conns -> Labels] /\ cur \in [Conns -> [sub : SubIDs, sess : 0 .. MaxOpens]]
    BY DEF TypeOK
  <1>1. ASSUME NEW s \in SubIDs, OpenReplace(c, s)
        PROVE  /\ \A d \in Conns \ {c} : pc'[d] = pc[d] /\ cur'[d] = cur[d]
               /\ pc'[c] = "take"
    BY <1>0, <1>1 DEF OpenReplace
  <1>2. CASE OpenTake(c)
    BY <1>0, <1>2 DEF OpenTake
  <1>3. CASE OpenRefused(c)
    BY <1>0, <1>3 DEF OpenRefused
  <1>4. CASE OpenEnqueue(c)
    BY <1>0, <1>4 DEF OpenEnqueue
  <1>5. ASSUME NEW s \in SubIDs, MsgGet(c, s)
        PROVE  /\ \A d \in Conns \ {c} : pc'[d] = pc[d] /\ cur'[d] = cur[d]
               /\ opened' = opened /\ key' = key /\ pc'[c] \notin {"take", "enqueue"}
    BY <1>0, <1>5 DEF MsgGet
  <1>6. CASE MsgSchedule(c)
    BY <1>0, <1>6 DEF MsgSchedule
  <1>7. CASE MsgReconcile(c)
    BY <1>0, <1>7 DEF MsgReconcile
  <1>8. CASE MsgDrop(c)
    BY <1>0, <1>8 DEF MsgDrop
  <1>9. CASE MsgFinish(c)
    BY <1>0, <1>9 DEF MsgFinish
  <1>10. CASE Answer(c)
    BY <1>0, <1>10 DEF Answer
  <1>11. ASSUME NEW s \in SubIDs, NegClose(c, s)
         PROVE  /\ \A d \in Conns \ {c} : pc'[d] = pc[d] /\ cur'[d] = cur[d]
                /\ opened' = opened /\ key' = key /\ pc'[c] \notin {"take", "enqueue"}
    BY <1>0, <1>11 DEF NegClose
  <1>12. CASE CloseAll(c)
    BY <1>0, <1>12 DEF CloseAll
  <1> QED BY <1>1, <1>2, <1>3, <1>4, <1>5, <1>6, <1>7, <1>8, <1>9, <1>10, <1>11, <1>12
          DEF Client, Handle

\* The worker and the timers move no read loop and number no session.
LEMMA BackgroundLocal ==
  ASSUME Worker \/ \E x \in Sessions : Timer(x)
  PROVE  UNCHANGED <<pc, cur, opened, key>>
  BY DEF Worker, LoadTake, LoadFails, LoadAnswers, LoadStale, LoadSchedule,
         Timer, TimerFires, IdleRemove, IdleError, readers, maps

\* A reservation under way keeps its place empty: everyone else only closes
\* sessions of its connection, or works on another connection.
LEMMA ReaderAgrees ==
  ASSUME TypeOK, KeysAgree, TakeAgrees, SessAgrees, NEW c \in Conns, Client(c) \/ Handle(c),
         TypeButActive'
  PROVE  TakeAgrees' /\ SessAgrees'
  <1>1. /\ \A d \in Conns \ {c} : pc'[d] = pc[d] /\ cur'[d] = cur[d]
        /\ \/ opened' = opened /\ key' = key /\ pc'[c] # "take"
           \/ \E s \in SubIDs : OpenReplace(c, s)
        /\ pc'[c] = "enqueue" => OpenTake(c)
    BY ReaderLocal
  <1>2. opened \in Nat /\ opened <= MaxOpens /\ MaxOpens \in Nat
    BY NegAssumption DEF TypeOK
  <1>3. \A x \in 1 .. opened : x \in 1 .. opened' /\ key'[x] = key[x]
    <2>1. ASSUME NEW s \in SubIDs, OpenReplace(c, s)
          PROVE  \A x \in 1 .. opened : x \in 1 .. opened' /\ key'[x] = key[x]
      BY <1>2, <2>1 DEF OpenReplace, TypeOK, Sessions
    <2> QED BY <1>1, <2>1
  <1>4. ASSUME NEW d \in Conns \ {c}, pc[d] = "take"
        PROVE  byID'[<<d, cur[d].sub>>] = 0
    <2>1. <<d, cur[d].sub>> \in Keys /\ byID[<<d, cur[d].sub>>] = 0
      BY <1>4 DEF Keys, TypeOK, TakeAgrees
    <2>2. CASE Quiet
      BY <2>1, <2>2 DEF Quiet
    <2>3. CASE ClosesAll(c)
      BY <2>1, <2>3 DEF ClosesAll
    <2>4. ASSUME NEW k \in Keys, Closes(k) PROVE byID'[<<d, cur[d].sub>>] = 0
      BY <2>1, <2>4 DEF Closes, TypeOK
    <2>5. ASSUME NEW k \in Keys, Admits(k), k[1] = c PROVE byID'[<<d, cur[d].sub>>] = 0
      <3>1. k # <<d, cur[d].sub>>
        BY <1>4, <2>5
      <3> QED BY <2>1, <2>5, <3>1 DEF Admits, TypeOK
    <2> QED BY <2>2, <2>3, <2>4, <2>5, ReaderKinds
  <1>5. ASSUME NEW s \in SubIDs, OpenReplace(c, s)
        PROVE  /\ byID'[<<c, s>>] = 0 /\ cur'[c] = [sub |-> s, sess |-> opened + 1]
               /\ opened' = opened + 1 /\ key'[opened + 1] = <<c, s>>
    <2>1. <<c, s>> \in Keys /\ opened + 1 \in Sessions
      BY <1>2, <1>5 DEF Keys, OpenReplace, Sessions
    <2>2. byID'[<<c, s>>] = 0
      <3>1. CASE byID[<<c, s>>] = 0
        BY <1>5, <3>1 DEF OpenReplace
      <3>2. CASE byID[<<c, s>>] # 0
        <4>1. Closes(<<c, s>>)
          BY <1>5, <2>1, <3>2, CloseKind DEF OpenReplace
        <4> QED BY <2>1, <4>1 DEF Closes, TypeOK
      <3> QED BY <3>1, <3>2
    <2> QED BY <1>5, <2>1, <2>2 DEF OpenReplace, TypeOK
  <1>6. TakeAgrees'
    <2> SUFFICES ASSUME NEW d \in Conns, pc'[d] = "take"
                 PROVE  /\ byID'[<<d, cur'[d].sub>>] = 0
                        /\ key'[cur'[d].sess] = <<d, cur'[d].sub>>
      BY DEF TakeAgrees
    <2>1. CASE d # c
      BY <1>1, <1>3, <1>4, <2>1 DEF TakeAgrees, SessAgrees
    <2>2. CASE d = c
      <3>1. PICK s \in SubIDs : OpenReplace(c, s)
        BY <1>1, <2>2
      <3>2. /\ byID'[<<c, s>>] = 0 /\ cur'[c] = [sub |-> s, sess |-> opened + 1]
            /\ key'[opened + 1] = <<c, s>>
        BY <1>5, <3>1
      <3> QED BY <2>2, <3>2
    <2> QED BY <2>1, <2>2
  <1>7. SessAgrees'
    <2> SUFFICES ASSUME NEW d \in Conns, pc'[d] \in {"take", "enqueue"}
                 PROVE  cur'[d].sess \in 1 .. opened'
      BY DEF SessAgrees
    <2>1. CASE d # c
      BY <1>1, <1>3, <2>1 DEF SessAgrees
    <2>2. CASE d = c /\ pc'[c] = "take"
      <3>1. PICK s \in SubIDs : OpenReplace(c, s)
        BY <1>1, <2>2
      <3>2. cur'[c] = [sub |-> s, sess |-> opened + 1] /\ opened' = opened + 1
        BY <1>5, <3>1
      <3> QED BY <1>2, <2>2, <3>2
    <2>3. CASE d = c /\ pc'[c] = "enqueue"
      BY <1>1, <1>3, <2>3 DEF OpenTake, SessAgrees
    <2> QED BY <2>1, <2>2, <2>3
  <1> QED BY <1>6, <1>7

-----------------------------------------------------------------------------
(* The invariant. *)

\* The relay starts with empty maps.
LEMMA NegInit == Init => NegInv
  <1> SUFFICES ASSUME Init PROVE NegInv
    OBVIOUS
  <1>1. Held = {}
    BY DEF Init, Held
  <1>2. SlotsExact
    BY <1>1, FS_EmptySet, NegAssumption DEF Init, SlotsExact
  <1>3. KeysAgree /\ TakeAgrees /\ SessAgrees
    BY DEF Init, KeysAgree, TakeAgrees, SessAgrees
  <1> QED BY <1>2, <1>3, InitTypes DEF NegInv

\* The counter is a number when everything else has its type.
LEMMA TypesTogether ==
  ASSUME TypeButActive', active' \in Nat
  PROVE  TypeOK'
  BY DEF TypeButActive, TypeOK

\* Every step keeps the invariant.
LEMMA NegNext == NegInv /\ [Next]_vars => NegInv'
  <1> SUFFICES ASSUME NegInv, [Next]_vars PROVE NegInv'
    OBVIOUS
  <1>0. TypeOK /\ KeysAgree /\ TakeAgrees /\ SessAgrees /\ SlotsExact
    BY DEF NegInv
  <1>1. ASSUME NEW c \in Conns, Client(c) \/ Handle(c) PROVE NegInv'
    <2>1. TypeButActive'
      BY <1>0, <1>1, ReaderTypes
    <2>2. Quiet \/ (\E k \in Keys : Closes(k) \/ Admits(k)) \/ ClosesAll(c)
      BY <1>0, <1>1, ReaderKinds
    <2>3. SlotsExact' /\ active' \in Nat
      BY <1>0, <2>1, <2>2, CountStep
    <2>4. \/ opened' = opened /\ key' = key
          \/ /\ opened' = opened + 1 /\ opened' \in Sessions
             /\ \E d \in Keys : key' = [key EXCEPT ![opened + 1] = d]
      <3>1. ASSUME NEW s \in SubIDs, OpenReplace(c, s)
            PROVE  /\ opened' = opened + 1 /\ opened' \in Sessions
                   /\ \E d \in Keys : key' = [key EXCEPT ![opened + 1] = d]
        <4>1. <<c, s>> \in Keys /\ opened + 1 \in Sessions
          BY <1>0, <3>1, NegAssumption DEF Keys, OpenReplace, Sessions, TypeOK
        <4> QED BY <3>1, <4>1 DEF OpenReplace
      <3> QED BY <1>0, <1>1, <3>1, ReaderLocal
    <2>5. KeysAgree'
      BY <1>0, <2>2, <2>4, KeysStep
    <2>6. TakeAgrees' /\ SessAgrees'
      BY <1>0, <1>1, <2>1, ReaderAgrees
    <2> QED BY <2>1, <2>3, <2>5, <2>6, TypesTogether DEF NegInv
  <1>2. ASSUME Worker \/ \E x \in Sessions : Timer(x) PROVE NegInv'
    <2>0. PICK c \in Conns : TRUE
      BY NegAssumption
    <2>1. TypeButActive'
      BY <1>0, <1>2, BackgroundTypes
    <2>2. Quiet \/ \E k \in Keys : Closes(k)
      BY <1>0, <1>2, BackgroundKinds
    <2>3. SlotsExact' /\ active' \in Nat
      BY <1>0, <2>1, <2>2, CountStep
    <2>4. UNCHANGED <<pc, cur, opened, key>>
      BY <1>2, BackgroundLocal
    <2>5. KeysAgree'
      BY <1>0, <2>2, <2>4, KeysStep
    <2>6. SessAgrees'
      BY <1>0, <2>4 DEF SessAgrees
    <2>7. \A k \in Keys : byID[k] = 0 => byID'[k] = 0
      <3>1. ASSUME NEW j \in Keys, Closes(j) PROVE \A k \in Keys : byID[k] = 0 => byID'[k] = 0
        BY <1>0, <3>1 DEF Closes, TypeOK
      <3> QED BY <2>2, <3>1 DEF Quiet
    <2>8. TakeAgrees'
      <3>1. \A d \in Conns : <<d, cur[d].sub>> \in Keys
        BY <1>0 DEF TypeOK, Keys
      <3> QED BY <1>0, <2>4, <2>7, <3>1 DEF TakeAgrees
    <2> QED BY <2>1, <2>3, <2>5, <2>6, <2>8, TypesTogether DEF NegInv
  <1>3. CASE UNCHANGED vars
    <2>1. UNCHANGED <<byID, active, opened, key, ready, timer, fired, late, jobs, load, loaded,
                      pc, cur, msgs, wire>>
      BY <1>3 DEF vars, maps, timers, worker, readers
    <2>2. TypeOK'
      BY <1>0, <2>1 DEF TypeOK
    <2>3. KeysAgree' /\ TakeAgrees' /\ SessAgrees'
      BY <1>0, <2>1 DEF KeysAgree, TakeAgrees, SessAgrees
    <2>4. SlotsExact'
      BY <1>0, <2>1 DEF SlotsExact, Held
    <2> QED BY <2>2, <2>3, <2>4 DEF NegInv
  <1> QED BY <1>1, <1>2, <1>3 DEF Next

\* The invariant holds of every reachable state.
LEMMA NegInvariant == Spec => []NegInv
  BY NegInit, NegNext, PTL DEF Spec

-----------------------------------------------------------------------------
(* The theorem. *)

\* Whoever ends a session (client, replacement, failed or superseded load, idle
\* timer, teardown), its slot is released exactly once, and no interleaving of
\* reservations exceeds max_concurrent_sessions.
THEOREM SlotsAreExact == Spec => []SlotsExact
  <1>1. NegInv => SlotsExact
    BY DEF NegInv
  <1> QED BY <1>1, NegInvariant, PTL

\* Every variable keeps its type; in particular the counter never goes below 0.
THEOREM NegTypeCorrect == Spec => []TypeOK
  <1>1. NegInv => TypeOK
    BY DEF NegInv
  <1> QED BY <1>1, NegInvariant, PTL

\* The sessions that a step takes out of the map.
Ends(x) == Current(x) /\ byID'[key[x]] # x

\* removeIf(y) ends y or nothing.
LEMMA RemoveIfEnds ==
  ASSUME TypeOK, NEW x \in Sessions, NEW y, RemoveIf(y), Ends(x)
  PROVE  x = y
  <1>1. CASE Current(y)
    <2>1. byID' = [byID EXCEPT ![key[y]] = 0] /\ byID[key[y]] = y
      BY <1>1 DEF RemoveIf, CloseSession, Current
    <2>2. byID[key[x]] = x /\ key[x] \in Keys
      BY DEF Ends, Current, TypeOK
    <2>3. CASE key[x] = key[y]
      BY <2>1, <2>2, <2>3
    <2>4. CASE key[x] # key[y]
      BY <2>1, <2>2, <2>4 DEF Ends, TypeOK
    <2> QED BY <2>3, <2>4
  <1>2. CASE ~Current(y)
    BY <1>2 DEF RemoveIf, Ends, Current
  <1> QED BY <1>1, <1>2

\* A timer or a load job ends no session but its own, never one that has
\* reused the subscription id it still knows.
THEOREM StaleOnesSpareNewer == Spec => OnlyOwnEnds
  <1>1. ASSUME NegInv, [Next]_vars
        PROVE  [\A x \in Sessions : Current(x) /\ byID'[key[x]] # x =>
                   /\ fired' # fired => x \in fired \ fired'
                   /\ load' # load => x = load]_vars
    <2> SUFFICES ASSUME Next, NEW x \in Sessions, Ends(x)
                 PROVE  /\ fired' # fired => x \in fired \ fired'
                        /\ load' # load => x = load
      BY <1>1 DEF Ends
    <2>0. TypeOK
      BY <1>1 DEF NegInv
    <2>1. ASSUME NEW c \in Conns, Client(c) \/ Handle(c) PROVE fired' = fired /\ load' = load
      BY <2>1 DEF Client, Handle, OpenReplace, OpenTake, OpenRefused, OpenEnqueue, MsgGet,
                  MsgSchedule, MsgReconcile, MsgDrop, MsgFinish, Answer, NegClose, CloseAll,
                  timers, worker
    <2>2. CASE LoadTake \/ LoadStale \/ LoadSchedule
      BY <2>2 DEF LoadTake, LoadStale, LoadSchedule, Ends, Current, maps
    <2>3. CASE LoadFails
      BY <2>0, <2>3, RemoveIfEnds DEF LoadFails
    <2>4. CASE LoadAnswers
      <3>1. RemoveIf(load) \/ byID' = byID
        BY <2>4 DEF LoadAnswers, RemoveIf
      <3>2. x = load
        BY <2>0, <3>1, RemoveIfEnds DEF Ends, Current
      <3> QED BY <2>4, <3>2 DEF LoadAnswers
    <2>5. ASSUME NEW y \in Sessions, TimerFires(y) \/ IdleError(y)
          PROVE  byID' = byID
      BY <2>5 DEF TimerFires, IdleError, maps
    <2>6. ASSUME NEW y \in Sessions, IdleRemove(y)
          PROVE  load' = load /\ x \in fired \ fired'
      BY <2>0, <2>6, RemoveIfEnds DEF IdleRemove, worker
    <2> QED BY <2>1, <2>2, <2>3, <2>4, <2>5, <2>6 DEF Next, Worker, Timer, Ends, Current
  <1> QED BY <1>1, NegInvariant, PTL DEF Spec, OnlyOwnEnds

-----------------------------------------------------------------------------
(* Answers come in the order of the sessions: whoever may still answer for a  *)
(* session works for the newest one of its id, or says only that it timed     *)
(* out.                                                                        *)

Newest(k, x) == \A y \in 1 .. opened : key[y] = k => y <= x

\* The map holds the newest session of an id, or none.
HeldNewest == \A k \in Keys : byID[k] # 0 => Newest(k, byID[k])

\* A handler under way works for the newest session of its id: only the same
\* read loop could open a newer one.
HandNewest ==
    \A c \in Conns : pc[c] \notin {"idle", "gone"} /\ cur[c].sess # 0 =>
        /\ cur[c].sess \in 1 .. opened
        /\ key[cur[c].sess] = <<c, cur[c].sub>>
        /\ Newest(<<c, cur[c].sub>>, cur[c].sess)

\* A timer reports, and a frame names, a session by its own key.
LateNamed == late \subseteq 1 .. opened
WireNamed ==
    \A c \in Conns : \A i \in DOMAIN wire[c] :
        /\ wire[c][i].sess \in 1 .. opened
        /\ key[wire[c][i].sess] = <<c, wire[c][i].sub>>

OrderInv == HeldNewest /\ HandNewest /\ LateNamed /\ WireNamed /\ AnswersInOrder

\* A frame of the newest session, or of a timer, keeps the frames in order.
LEMMA SendInOrder ==
  ASSUME TypeOK, WireNamed, AnswersInOrder, opened' = opened, key' = key,
         NEW c \in Conns, NEW kind \in {"msg", "err", "idle"}, NEW s \in SubIDs,
         NEW x \in 1 .. opened, key[x] = <<c, s>>,
         kind # "idle" => Newest(<<c, s>>, x),
         Enqueue(c, kind, s, x)
  PROVE  WireNamed' /\ AnswersInOrder'
  <1>1. CASE UNCHANGED wire
    BY <1>1 DEF WireNamed, AnswersInOrder
  <1>2. CASE wire' = [wire EXCEPT ![c] = Append(@, [kind |-> kind, sub |-> s, sess |-> x])]
    <2> DEFINE f == [kind |-> kind, sub |-> s, sess |-> x]
               n == Len(wire[c]) + 1
    <2>1. wire[c] \in Seq([kind : {"msg", "err", "idle"}, sub : SubIDs, sess : Sessions])
      BY DEF TypeOK
    <2>2. /\ wire'[c] = Append(wire[c], f)
          /\ \A d \in Conns \ {c} : wire'[d] = wire[d]
      BY <1>2 DEF TypeOK
    <2>3. /\ DOMAIN wire[c] = 1 .. Len(wire[c]) /\ Len(wire[c]) \in Nat
          /\ DOMAIN wire'[c] = 1 .. n
          /\ wire'[c][n] = f
          /\ \A i \in DOMAIN wire[c] : wire'[c][i] = wire[c][i]
      BY <2>1, <2>2
    <2> HIDE DEF n
    <2>4. \A i \in DOMAIN wire'[c] : i \in DOMAIN wire[c] \/ i = n
      BY <2>3 DEF n
    <2>5. \A i \in DOMAIN wire[c] : i < n
      BY <2>3 DEF n
    <2>6. WireNamed'
      <3>1. ASSUME NEW i \in DOMAIN wire'[c]
            PROVE  /\ wire'[c][i].sess \in 1 .. opened
                   /\ key[wire'[c][i].sess] = <<c, wire'[c][i].sub>>
        <4>1. CASE i \in DOMAIN wire[c]
          BY <2>3, <4>1 DEF WireNamed
        <4>2. CASE i = n
          BY <2>3, <4>2
        <4> QED BY <2>4, <4>1, <4>2
      <3>2. ASSUME NEW d \in Conns \ {c}, NEW i \in DOMAIN wire'[d]
            PROVE  /\ wire'[d][i].sess \in 1 .. opened
                   /\ key[wire'[d][i].sess] = <<d, wire'[d][i].sub>>
        <4>1. wire'[d] = wire[d] /\ d \in Conns
          BY <2>2
        <4>2. i \in DOMAIN wire[d]
          BY <3>2, <4>1
        <4> QED BY <4>1, <4>2 DEF WireNamed
      <3>3. ASSUME NEW d \in Conns, NEW i \in DOMAIN wire'[d]
            PROVE  /\ wire'[d][i].sess \in 1 .. opened
                   /\ key[wire'[d][i].sess] = <<d, wire'[d][i].sub>>
        BY <3>1, <3>2, <3>3
      <3> QED BY <3>3 DEF WireNamed
    <2>7. ASSUME NEW i \in DOMAIN wire'[c], NEW j \in DOMAIN wire'[c], i < j,
                 wire'[c][i].sub = wire'[c][j].sub, wire'[c][j].kind # "idle"
          PROVE  wire'[c][i].sess <= wire'[c][j].sess
      <3>0. i \in DOMAIN wire[c]
        <4>1. i \in Nat /\ j \in Nat /\ n \in Nat /\ j <= n
          BY <2>3 DEF n
        <4>2. i # n
          BY <2>7, <4>1
        <4> QED BY <2>4, <4>2
      <3>1. CASE j \in DOMAIN wire[c]
        BY <2>3, <2>7, <3>0, <3>1 DEF AnswersInOrder
      <3>2. CASE j = n
        <4>0. wire[c][i].sub = s
          BY <2>3, <2>7, <3>0, <3>2
        <4>1. wire[c][i].sess \in 1 .. opened /\ key[wire[c][i].sess] = <<c, s>>
          BY <3>0, <4>0 DEF WireNamed
        <4>2. Newest(<<c, s>>, x)
          BY <2>3, <2>7, <3>2
        <4> QED BY <2>3, <3>0, <3>2, <4>1, <4>2 DEF Newest
      <3> QED BY <2>4, <3>1, <3>2
    <2>8. AnswersInOrder'
      BY <2>2, <2>7 DEF AnswersInOrder
    <2> QED BY <2>6, <2>8
  <1> QED BY <1>1, <1>2 DEF Enqueue

\* A session in the map is the newest of its id, and so may be answered for.
LEMMA CurrentSends ==
  ASSUME TypeOK, OrderInv, NEW x, Current(x), NEW kind \in {"msg", "err", "idle"},
         Enqueue(key[x][1], kind, key[x][2], x), opened' = opened, key' = key
  PROVE  WireNamed' /\ AnswersInOrder'
  <1>1. x \in 1 .. opened /\ x \in Sessions /\ byID[key[x]] = x /\ x # 0
    BY NegAssumption DEF Current, TypeOK, Sessions
  <1>2. key[x] \in Keys
    BY <1>1 DEF TypeOK
  <1>3. PICK c \in Conns, s \in SubIDs : key[x] = <<c, s>>
    BY <1>2 DEF Keys
  <1>4. Newest(<<c, s>>, x)
    BY <1>1, <1>2, <1>3 DEF OrderInv, HeldNewest
  <1>5. Enqueue(c, kind, s, x)
    BY <1>3
  <1> QED BY <1>1, <1>3, <1>4, <1>5, SendInOrder DEF OrderInv

-----------------------------------------------------------------------------
\* Nothing enters the map.
Falls == \A k \in Keys : byID'[k] \in {0, byID[k]}

\* removeIf and close only take out.
LEMMA RemoveFalls ==
  ASSUME TypeOK, NEW x, RemoveIf(x) \/ CloseSession(x)
  PROVE  Falls
  BY DEF RemoveIf, CloseSession, Falls, TypeOK

\* With no session opened and none entered, the map still holds the newest ones.
LEMMA HeldStays ==
  ASSUME HeldNewest, Falls, opened' = opened, key' = key
  PROVE  HeldNewest'
  BY DEF HeldNewest, Falls, Newest

\* The worker and the timers take out, and answer for sessions in the map.
LEMMA BackgroundInOrder ==
  ASSUME TypeOK, OrderInv, Worker \/ \E x \in Sessions : Timer(x)
  PROVE  OrderInv'
  <1> USE DEF maps, timers
  <1>0. UNCHANGED <<pc, cur, opened, key>>
    BY BackgroundLocal
  <1>1. HandNewest'
    BY <1>0 DEF OrderInv, HandNewest, Newest
  <1>2. SUFFICES Falls /\ LateNamed' /\ WireNamed' /\ AnswersInOrder'
    BY <1>0, <1>1, HeldStays DEF OrderInv
  <1>3. UNCHANGED wire => WireNamed' /\ AnswersInOrder'
    BY <1>0 DEF OrderInv, WireNamed, AnswersInOrder
  <1>4. UNCHANGED late => LateNamed'
    BY <1>0 DEF OrderInv, LateNamed
  <1>5. UNCHANGED byID => Falls
    BY DEF Falls
  <1>6. CASE LoadTake \/ LoadStale \/ LoadSchedule
    BY <1>3, <1>4, <1>5, <1>6 DEF LoadTake, LoadStale, LoadSchedule
  <1>7. CASE LoadFails
    <2>1. Falls /\ LateNamed'
      BY <1>4, <1>7, RemoveFalls DEF LoadFails
    <2> QED BY <1>0, <1>3, <1>7, <2>1, CurrentSends DEF LoadFails
  <1>8. CASE LoadAnswers
    <2>1. Current(load) /\ Enqueue(key[load][1], "msg", key[load][2], load)
          /\ UNCHANGED late /\ (CloseSession(load) \/ UNCHANGED byID)
      BY <1>8 DEF LoadAnswers
    <2> QED BY <1>0, <1>4, <1>5, <2>1, CurrentSends, RemoveFalls
  <1>9. ASSUME NEW x \in Sessions, TimerFires(x)
        PROVE  Falls /\ LateNamed' /\ WireNamed' /\ AnswersInOrder'
    BY <1>3, <1>4, <1>5, <1>9 DEF TimerFires
  <1>10. ASSUME NEW x \in Sessions, IdleRemove(x)
         PROVE  Falls /\ LateNamed' /\ WireNamed' /\ AnswersInOrder'
    <2>1. LateNamed'
      BY <1>0, <1>10 DEF IdleRemove, LateNamed, OrderInv, Current
    <2> QED BY <1>3, <1>10, <2>1, RemoveFalls DEF IdleRemove
  <1>11. ASSUME NEW x \in Sessions, IdleError(x)
         PROVE  Falls /\ LateNamed' /\ WireNamed' /\ AnswersInOrder'
    <2>1. x \in 1 .. opened /\ key[x] \in Keys
      BY <1>11 DEF IdleError, OrderInv, LateNamed, TypeOK
    <2>2. PICK c \in Conns, s \in SubIDs : key[x] = <<c, s>>
      BY <2>1 DEF Keys
    <2>3. Enqueue(c, "idle", s, x)
      BY <1>11, <2>2 DEF IdleError
    <2>4. WireNamed' /\ AnswersInOrder'
      BY <1>0, <2>1, <2>2, <2>3, SendInOrder DEF OrderInv
    <2>5. LateNamed'
      BY <1>0, <1>11 DEF IdleError, OrderInv, LateNamed
    <2> QED BY <1>5, <1>11, <2>4, <2>5 DEF IdleError
  <1> QED BY <1>6, <1>7, <1>8, <1>9, <1>10, <1>11 DEF Worker, Timer

-----------------------------------------------------------------------------
\* NEG-OPEN numbers a session beyond all others and empties its place.
LEMMA OpenInOrder ==
  ASSUME NegInv, OrderInv, NEW c \in Conns, NEW s \in SubIDs, OpenReplace(c, s)
  PROVE  OrderInv'
  <1>0. TypeOK /\ KeysAgree
    BY DEF NegInv
  <1>1. opened \in Nat /\ opened + 1 \in Sessions /\ <<c, s>> \in Keys
    BY <1>0, NegAssumption DEF TypeOK, OpenReplace, Sessions, Keys
  <1>2. /\ opened' = opened + 1
        /\ key' = [key EXCEPT ![opened + 1] = <<c, s>>]
        /\ UNCHANGED <<late, wire>>
        /\ pc'[c] = "take" /\ cur'[c] = [sub |-> s, sess |-> opened + 1]
        /\ \A d \in Conns \ {c} : pc'[d] = pc[d] /\ cur'[d] = cur[d]
    BY <1>0, <1>1 DEF OpenReplace, Goto, TypeOK
  <1>3. /\ key'[opened + 1] = <<c, s>>
        /\ \A y \in 1 .. opened : y \in 1 .. opened' /\ key'[y] = key[y]
        /\ \A y \in 1 .. opened' : y \in 1 .. opened \/ y = opened + 1
    BY <1>0, <1>1, <1>2 DEF TypeOK, Sessions
  <1>4. /\ byID'[<<c, s>>] = 0
        /\ \A k \in Keys \ {<<c, s>>} : byID'[k] = byID[k]
    <2>1. CASE byID[<<c, s>>] = 0
      BY <2>1 DEF OpenReplace
    <2>2. CASE byID[<<c, s>>] # 0
      <3>1. Closes(<<c, s>>)
        BY <1>0, <1>1, <2>2, CloseKind DEF OpenReplace
      <3> QED BY <1>0, <1>1, <3>1 DEF Closes, TypeOK
    <2> QED BY <2>1, <2>2
  <1>5. \A k \in Keys \ {<<c, s>>}, x \in Nat :
            Newest(k, x) => \A y \in 1 .. opened' : key'[y] = k => y <= x
    BY <1>3 DEF Newest
  <1>6. HeldNewest'
    <2>1. ASSUME NEW k \in Keys, byID'[k] # 0
          PROVE  \A y \in 1 .. opened' : key'[y] = k => y <= byID'[k]
      <3>1. k \in Keys \ {<<c, s>>} /\ byID'[k] = byID[k] /\ byID[k] \in Nat
        <4>1. k # <<c, s>>
          BY <1>4, <2>1
        <4>2. byID[k] \in 0 .. MaxOpens
          BY <1>0 DEF TypeOK
        <4> QED BY <1>4, <4>1, <4>2, NegAssumption
      <3>2. Newest(k, byID[k])
        BY <2>1, <3>1 DEF OrderInv, HeldNewest
      <3> QED BY <1>5, <3>1, <3>2
    <2> QED BY <2>1 DEF HeldNewest, Newest
  <1>7. HandNewest'
    <2>1. ASSUME NEW d \in Conns, pc'[d] \notin {"idle", "gone"}, cur'[d].sess # 0
          PROVE  /\ cur'[d].sess \in 1 .. opened'
                 /\ key'[cur'[d].sess] = <<d, cur'[d].sub>>
                 /\ \A y \in 1 .. opened' : key'[y] = <<d, cur'[d].sub>> => y <= cur'[d].sess
      <3>1. CASE d = c
        <4>1. opened' \in Nat /\ \A y \in 1 .. opened' : y <= opened + 1
          BY <1>1, <1>2
        <4> QED BY <1>1, <1>2, <1>3, <3>1, <4>1
      <3>2. CASE d # c
        <4>1. /\ cur'[d] = cur[d] /\ cur[d].sess \in 1 .. opened
              /\ key[cur[d].sess] = <<d, cur[d].sub>>
              /\ Newest(<<d, cur[d].sub>>, cur[d].sess)
          BY <1>2, <2>1, <3>2 DEF OrderInv, HandNewest
        <4>2. <<d, cur[d].sub>> \in Keys \ {<<c, s>>}
          BY <1>0, <3>2 DEF TypeOK, Keys
        <4>3. cur[d].sess \in Nat
          BY <1>1, <4>1
        <4>4. \A y \in 1 .. opened' : key'[y] = <<d, cur[d].sub>> => y <= cur[d].sess
          BY <1>5, <4>1, <4>2, <4>3
        <4> QED BY <1>3, <4>1, <4>4
      <3> QED BY <3>1, <3>2
    <2> QED BY <2>1 DEF HandNewest, Newest
  <1>8. LateNamed'
    BY <1>2, <1>3 DEF OrderInv, LateNamed
  <1>9. WireNamed' /\ AnswersInOrder'
    BY <1>2, <1>3 DEF OrderInv, WireNamed, AnswersInOrder
  <1> QED BY <1>6, <1>7, <1>8, <1>9 DEF OrderInv

\* A handler that opens no session keeps its own, or takes the one in the map.
LEMMA HandStays ==
  ASSUME TypeOK, OrderInv, opened' = opened, key' = key, NEW c \in Conns,
         \A d \in Conns \ {c} : pc'[d] = pc[d] /\ cur'[d] = cur[d],
         \/ pc'[c] \in {"idle", "gone"}
         \/ cur'[c] = cur[c] /\ pc[c] \notin {"idle", "gone"}
  PROVE  HandNewest'
  BY DEF OrderInv, HandNewest, Newest

\* Every step of a read loop keeps the order.
LEMMA ReaderInOrder ==
  ASSUME NegInv, OrderInv, NEW c \in Conns, Client(c) \/ Handle(c)
  PROVE  OrderInv'
  <1> USE DEF maps, timers, readers, Goto
  <1>0. TypeOK /\ KeysAgree
    BY DEF NegInv
  <1>1. pc \in [Conns -> Labels] /\ cur \in [Conns -> [sub : SubIDs, sess : 0 .. MaxOpens]]
    BY <1>0 DEF TypeOK
  <1>2. ASSUME NEW s \in SubIDs, OpenReplace(c, s) PROVE OrderInv'
    BY <1>2, OpenInOrder
  <1>3. ASSUME UNCHANGED <<opened, key, late>>, Falls, HandNewest',
               UNCHANGED wire \/ (WireNamed' /\ AnswersInOrder')
        PROVE  OrderInv'
    <2>1. HeldNewest'
      BY <1>3, HeldStays DEF OrderInv
    <2>2. LateNamed'
      BY <1>3 DEF OrderInv, LateNamed
    <2>3. WireNamed' /\ AnswersInOrder'
      BY <1>3 DEF OrderInv, WireNamed, AnswersInOrder
    <2> QED BY <1>3, <2>1, <2>2, <2>3 DEF OrderInv
  <1>4. UNCHANGED byID => Falls
    BY DEF Falls
  <1>5. CASE OpenTake(c)
    <2>1. HandNewest'
      BY <1>0, <1>1, <1>5, HandStays DEF OpenTake
    <2>2. /\ UNCHANGED <<opened, key, late, wire>>
          /\ pc[c] = "take" /\ byID' = [byID EXCEPT ![<<c, cur[c].sub>>] = cur[c].sess]
      BY <1>5 DEF OpenTake
    <2>3. HeldNewest'
      <3>1. cur[c].sess # 0 => Newest(<<c, cur[c].sub>>, cur[c].sess)
        BY <2>2 DEF OrderInv, HandNewest
      <3>2. ASSUME NEW k \in Keys, byID'[k] # 0 PROVE Newest(k, byID'[k])
        <4>1. CASE k = <<c, cur[c].sub>>
          BY <1>0, <2>2, <3>1, <3>2, <4>1 DEF TypeOK
        <4>2. CASE k # <<c, cur[c].sub>>
          BY <1>0, <2>2, <3>2, <4>2 DEF TypeOK, OrderInv, HeldNewest
        <4> QED BY <4>1, <4>2
      <3> QED BY <2>2, <3>2 DEF HeldNewest, Newest
    <2>4. LateNamed' /\ WireNamed' /\ AnswersInOrder'
      BY <2>2 DEF OrderInv, LateNamed, WireNamed, AnswersInOrder
    <2> QED BY <2>1, <2>3, <2>4 DEF OrderInv
  <1>6. CASE OpenRefused(c) \/ OpenEnqueue(c) \/ MsgSchedule(c) \/ MsgReconcile(c)
    <2>1. HandNewest'
      BY <1>0, <1>1, <1>6, HandStays DEF OpenRefused, OpenEnqueue, MsgSchedule, MsgReconcile
    <2> QED BY <1>3, <1>4, <1>6, <2>1 DEF OpenRefused, OpenEnqueue, MsgSchedule, MsgReconcile
  <1>7. CASE MsgDrop(c) \/ MsgFinish(c)
    <2>1. HandNewest'
      BY <1>0, <1>1, <1>7, HandStays DEF MsgDrop, MsgFinish
    <2>2. Falls
      BY <1>0, <1>7, RemoveFalls DEF MsgDrop, MsgFinish
    <2> QED BY <1>3, <1>7, <2>1, <2>2 DEF MsgDrop, MsgFinish
  <1>8. ASSUME NEW s \in SubIDs, MsgGet(c, s) PROVE OrderInv'
    <2>1. /\ UNCHANGED <<opened, key, late, wire, byID>>
          /\ cur'[c] = [sub |-> s, sess |-> byID[<<c, s>>]]
          /\ \A d \in Conns \ {c} : pc'[d] = pc[d] /\ cur'[d] = cur[d]
      BY <1>1, <1>8 DEF MsgGet
    <2>2. <<c, s>> \in Keys
      BY DEF Keys
    <2>3. byID[<<c, s>>] # 0 =>
             /\ byID[<<c, s>>] \in 1 .. opened /\ key[byID[<<c, s>>]] = <<c, s>>
             /\ Newest(<<c, s>>, byID[<<c, s>>])
      BY <1>0, <2>2 DEF KeysAgree, OrderInv, HeldNewest
    <2>4. HandNewest'
      BY <2>1, <2>3 DEF OrderInv, HandNewest, Newest
    <2> QED BY <1>3, <1>4, <2>1, <2>4
  <1>9. CASE Answer(c)
    <2>1. HandNewest'
      BY <1>0, <1>1, <1>9, HandStays DEF Answer
    <2>2. UNCHANGED wire \/ (WireNamed' /\ AnswersInOrder')
      <3>1. CASE cur[c].sess = 0
        BY <1>9, <3>1 DEF Answer
      <3>2. CASE cur[c].sess # 0
        <4>1. PICK kind \in {"msg", "err"} : Enqueue(c, kind, cur[c].sub, cur[c].sess)
          BY <1>9, <3>2 DEF Answer
        <4>2. /\ cur[c].sess \in 1 .. opened /\ cur[c].sub \in SubIDs
              /\ key[cur[c].sess] = <<c, cur[c].sub>>
              /\ Newest(<<c, cur[c].sub>>, cur[c].sess)
          BY <1>1, <1>9, <3>2 DEF Answer, OrderInv, HandNewest
        <4>3. opened' = opened /\ key' = key
          BY <1>9 DEF Answer
        <4> QED BY <1>0, <4>1, <4>2, <4>3, SendInOrder DEF OrderInv
      <3> QED BY <3>1, <3>2
    <2> QED BY <1>3, <1>4, <1>9, <2>1, <2>2 DEF Answer
  <1>10. ASSUME NEW s \in SubIDs, NegClose(c, s) PROVE OrderInv'
    <2>1. HandNewest'
      BY <1>0, <1>1, <1>10, HandStays DEF NegClose
    <2> QED BY <1>0, <1>3, <1>10, <2>1, RemoveFalls DEF NegClose
  <1>11. CASE CloseAll(c)
    <2>1. HandNewest'
      BY <1>0, <1>1, <1>11, HandStays DEF CloseAll
    <2>2. Falls
      BY <1>11 DEF CloseAll, Falls
    <2> QED BY <1>3, <1>11, <2>1, <2>2 DEF CloseAll
  <1> QED BY <1>2, <1>5, <1>6, <1>7, <1>8, <1>9, <1>10, <1>11 DEF Client, Handle

\* OrderInv is inductive relative to NegInv.
LEMMA OrderNext == NegInv /\ OrderInv /\ [Next]_vars => OrderInv'
  <1> SUFFICES ASSUME NegInv, OrderInv, [Next]_vars PROVE OrderInv'
    OBVIOUS
  <1>0. TypeOK
    BY DEF NegInv
  <1>1. CASE UNCHANGED vars
    BY <1>1 DEF vars, maps, timers, readers, OrderInv, HeldNewest, HandNewest, LateNamed,
                WireNamed, AnswersInOrder, Newest
  <1>2. CASE Next
    BY <1>0, <1>2, ReaderInOrder, BackgroundInOrder DEF Next
  <1> QED BY <1>1, <1>2

\* Once a newer session has been answered under an id, neither the worker nor a
\* read loop answers an older one there: a superseded load stays silent, a
\* handler answers before its own loop opens another session, and only the idle
\* timer, which gives up its lock before it reports, may come late.
THEOREM NewestAnswersLast == Spec => []AnswersInOrder
  <1>1. Init => OrderInv
    BY DEF Init, OrderInv, HeldNewest, HandNewest, LateNamed, WireNamed, AnswersInOrder
  <1>2. OrderInv => AnswersInOrder
    BY DEF OrderInv
  <1> QED BY <1>1, <1>2, OrderNext, NegInvariant, PTL DEF Spec

=============================================================================
