------------------------ MODULE SubscriptionsProofs ------------------------
(***************************************************************************)
(* Proofs about Subscriptions, for every number of connections, ids,       *)
(* events, generations and every capacity: types, the order and the        *)
(* ownership of the frames of a generation, and what is delivered: gift    *)
(* wraps to their recipient only, and every stored event across the        *)
(* hand-over from snapshot to live stream.                                 *)
(***************************************************************************)
EXTENDS Subscriptions, FiniteSetTheorems, SequenceTheorems, WellFoundedInduction, TLAPS

-----------------------------------------------------------------------------
(* Facts about the operators the actions are built from. *)

\* The idle job and the empty entry are well-typed.
LEMMA NoJobType == NoJob \in Jobs
  BY ConstantsAssumption DEF NoJob, NewJob, Jobs, NoFilter

\* ... and so is the empty entry.
LEMMA NoEntryType == NoEntry \in Entries
  BY ConstantsAssumption, EmptySeq DEF NoEntry, NewEntry, Entries, NoFilter

\* A set of events is finite, and a non-empty one has a last event.
LEMMA EventSetFinite ==
  ASSUME NEW S, S \subseteq Events
  PROVE  IsFiniteSet(S) /\ Cardinality(S) \in Nat
  <1>1. IsFiniteSet(Events)
    BY ConstantsAssumption, FS_Interval DEF Events
  <1> QED BY <1>1, FS_Subset, FS_CardinalityType

\* A non-empty set of events has a last event.
LEMMA EventSetMax ==
  ASSUME NEW S, S \subseteq Events, S # {}
  PROVE  \E e \in S : \A d \in S : d <= e
  <1> DEFINE T == {n \in Nat : \E e \in S : n = NumEvents - e}
             R == OpToRel(<, Nat)
  <1>0. \A e \in S : NumEvents - e \in T
    BY ConstantsAssumption DEF Events
  <1>1. T # {} /\ T \subseteq Nat
    BY <1>0
  <1>2. \A m, n \in Nat : m < n => <<m, n>> \in R
    BY DEF OpToRel
  <1>3. PICK n \in T : \A m \in T : ~(m < n)
    <2> HIDE DEF T
    <2>1. IsWellFoundedOn(R, Nat)
      BY NatLessThanWellFounded
    <2> HIDE DEF R
    <2> QED BY <1>1, <1>2, <2>1, WFMin, Zenon
  <1>4. PICK e \in S : n = NumEvents - e
    BY <1>3
  <1>5. \A m \in T : n <= m
    BY <1>3
  <1> QED BY <1>0, <1>4, <1>5, ConstantsAssumption DEF Events

\* fetchREQPage keeps a job well-typed.
LEMMA FetchedType ==
  ASSUME NEW j \in Jobs
  PROVE  Fetched(j) \in Jobs
  <1>1. Page(j) \subseteq Events
    BY DEF Page, Candidates, Jobs
  <1>2. Cardinality(Page(j)) \in Nat
    BY <1>1, EventSetFinite
  <1>3. AdvancedCursor(j) \in 0 .. NumEvents
    <2>1. CASE Page(j) = {}
      BY <2>1 DEF AdvancedCursor, Jobs
    <2>2. CASE Page(j) # {}
      <3>1. \E e \in Page(j) : \A d \in Page(j) : d <= e
        BY <1>1, <2>2, EventSetMax
      <3>2. AdvancedCursor(j) \in Page(j)
        BY <2>2, <3>1 DEF AdvancedCursor
      <3> QED BY <1>1, <3>2, ConstantsAssumption DEF Events
    <2> QED BY <2>1, <2>2
  <1>4. j.left \in Nat /\ (j.left > Cardinality(Page(j)) => j.left - Cardinality(Page(j)) \in Nat)
    BY <1>2 DEF Jobs
  <1> HIDE DEF Page, AdvancedCursor
  <1> QED BY <1>1, <1>2, <1>3, <1>4 DEF Fetched, Jobs

\* What Add puts into the map and into the read loop's job.
LEMMA NewEntryType ==
  ASSUME NEW g \in 0 .. MaxGen, NEW f \in Filters
  PROVE  NewEntry(g, f) \in Entries
  BY ConstantsAssumption, EmptySeq DEF NewEntry, Entries

\* ... and the job the read loop starts with.
LEMMA NewJobType ==
  ASSUME NEW c \in Conns, NEW s \in SubIDs, NEW f \in Filters
  PROVE  NewJob(c, s, f) \in Jobs
  BY ConstantsAssumption DEF NewJob, Jobs

\* Updating one field of an entry, or of a job, keeps its type.
LEMMA EntryUpdateType ==
  ASSUME NEW en \in Entries
  PROVE  /\ [en EXCEPT !.skipped = TRUE] \in Entries
         /\ [en EXCEPT !.eoseLost = TRUE] \in Entries
         /\ [en EXCEPT !.done = TRUE, !.pending = <<>>] \in Entries
         /\ \A e \in Events : [en EXCEPT !.pending = Append(@, e)] \in Entries
  <1>1. [en EXCEPT !.skipped = TRUE] \in Entries /\ [en EXCEPT !.eoseLost = TRUE] \in Entries
    BY DEF Entries
  <1>2. [en EXCEPT !.done = TRUE, !.pending = <<>>] \in Entries
    BY EmptySeq DEF Entries
  <1>3. ASSUME NEW e \in Events
        PROVE  [en EXCEPT !.pending = Append(@, e)] \in Entries
    <2>1. Append(en.pending, e) \in Seq(Events)
      BY AppendProperties DEF Entries
    <2> QED BY <2>1 DEF Entries
  <1> QED BY <1>1, <1>2, <1>3

\* Updating one field of a job keeps its type.
LEMMA JobUpdateType ==
  ASSUME NEW j \in Jobs
  PROVE  /\ [j EXCEPT !.sync = TRUE] \in Jobs
         /\ \A g \in 0 .. MaxGen : [j EXCEPT !.gen = g] \in Jobs
         /\ \A s \in SubIDs : [j EXCEPT !.sub = s] \in Jobs
         /\ \A e : [j EXCEPT !.page = @ \ {e}] \in Jobs
  BY DEF Jobs

\* One frame more in a channel with room, and the connection's shutdown else.
LEMMA EnqueueType ==
  ASSUME TypeOK, NEW c \in Conns, NEW f \in Frames, Enqueue(c, f) \/ EnqueueFails(c)
  PROVE  wire' \in [Conns -> Seq(Frames)] /\ queued' \in [Conns -> 0 .. SendCap]
  <1>1. CASE EnqueueFails(c)
    BY <1>1 DEF TypeOK, EnqueueFails
  <1>2. CASE Enqueue(c, f)
    <2>1. Append(wire[c], f) \in Seq(Frames)
      BY AppendProperties DEF TypeOK
    <2>2. wire' \in [Conns -> Seq(Frames)]
      BY <1>2, <2>1 DEF TypeOK, Enqueue
    <2>3. queued[c] \in 0 .. SendCap /\ SendCap - queued[c] > 0
      BY <1>2, ConstantsAssumption DEF TypeOK, Enqueue, Room
    <2>4. queued[c] + 1 \in 0 .. SendCap
      BY <2>3, ConstantsAssumption
    <2>5. queued' \in [Conns -> 0 .. SendCap]
      BY <1>2, <2>4 DEF TypeOK, Enqueue
    <2> QED BY <2>2, <2>5
  <1> QED BY <1>1, <1>2

\* Frames are built from their parts.
LEMMA FrameType ==
  ASSUME NEW k \in {"snap", "live", "eose", "closed", "ack"}, NEW s \in SubIDs,
         NEW g \in Gens, NEW e \in 0 .. NumEvents
  PROVE  Frame(k, s, g, e) \in Frames
  BY DEF Frame, Frames

\* A generation that passes withSnapshot's check is a real one.
LEMMA SameSnapshotGen ==
  ASSUME TypeOK, NEW c \in Conns, NEW s \in SubIDs, NEW g, SameSnapshot(c, s, g)
  PROVE  g \in Gens /\ g = subs[c][s].gen /\ g \notin closed
  BY ConstantsAssumption DEF SameSnapshot, TypeOK, Entries, Gens

\* An event can stand in a frame.
LEMMA EventsInRange == Events \subseteq 0 .. NumEvents
  BY ConstantsAssumption DEF Events

\* Removing an entry keeps the manager well-typed.
LEMMA RemoveLockedType ==
  ASSUME TypeOK, NEW c \in Conns, NEW s \in SubIDs, RemoveLocked(c, s)
  PROVE  subs' \in [Conns -> [SubIDs -> Entries]] /\ closed' \subseteq Gens
  <1>1. subs[c][s].gen \in 0 .. MaxGen
    BY DEF TypeOK, Entries
  <1>2. closed' \subseteq Gens
    <2>1. subs[c][s].gen # 0 => subs[c][s].gen \in Gens
      BY <1>1, ConstantsAssumption DEF Gens
    <2> QED BY <2>1 DEF TypeOK, RemoveLocked
  <1>3. subs' \in [Conns -> [SubIDs -> Entries]]
    BY NoEntryType DEF TypeOK, RemoveLocked
  <1> QED BY <1>2, <1>3

\* A handler that returns leaves no job behind.
LEMMA ReturnType ==
  ASSUME TypeOK, NEW a \in Actors, Return(a)
  PROVE  pc' \in [Actors -> Labels] /\ job' \in [Actors -> Jobs]
  BY NoJobType DEF TypeOK, Return, Labels

-----------------------------------------------------------------------------
(* Every action preserves the type invariant. *)

\* RegisterSender keeps every variable in its type.
LEMMA TypeRegisterSender ==
  ASSUME TypeOK, NEW c \in Conns, RegisterSender(c)
  PROVE  TypeOK'
  BY DEF TypeOK, RegisterSender, mgr, out, tasks, events

\* Authenticate keeps every variable in its type.
LEMMA TypeAuthenticate ==
  ASSUME TypeOK, NEW c \in Conns, Authenticate(c)
  PROVE  TypeOK'
  <1>1. auth' \in [Conns -> [key : {"none", "recipient", "other"}, late : SUBSET Events]]
    BY DEF TypeOK, Authenticate, NewAuth
  <1> QED BY <1>1 DEF TypeOK, Authenticate, mgr, out, tasks, events

\* SwitchIdentity keeps every variable in its type.
LEMMA TypeSwitchIdentity ==
  ASSUME TypeOK, NEW c \in Conns, SwitchIdentity(c)
  PROVE  TypeOK'
  <1>1. auth' \in [Conns -> [key : {"none", "recipient", "other"}, late : SUBSET Events]]
    BY DEF TypeOK, SwitchIdentity, NewAuth
  <1>2. ASSUME NEW s \in SubIDs PROVE Withholding(subs[c][s]) \in Entries
    <2>1. subs[c][s] \in Entries
      BY DEF TypeOK
    <2>2. [subs[c][s] EXCEPT !.skipped = TRUE] \in Entries
      BY <2>1, EntryUpdateType
    <2> QED BY <2>1, <2>2 DEF Withholding
  <1>3. subs' \in [Conns -> [SubIDs -> Entries]]
    BY <1>2 DEF TypeOK, SwitchIdentity
  <1> QED BY <1>1, <1>3 DEF TypeOK, SwitchIdentity, mgr, out, tasks, events

\* SweepIdle keeps every variable in its type.
LEMMA TypeSweepIdle ==
  ASSUME TypeOK, NEW c \in Conns, SweepIdle(c)
  PROVE  TypeOK'
  BY DEF TypeOK, SweepIdle, mgr, out, tasks, events

\* WriteFails keeps every variable in its type.
LEMMA TypeWriteFails ==
  ASSUME TypeOK, NEW c \in Conns, WriteFails(c)
  PROVE  TypeOK'
  BY DEF TypeOK, WriteFails, mgr, out, tasks, events

\* WriteFrame keeps every variable in its type.
LEMMA TypeWriteFrame ==
  ASSUME TypeOK, NEW c \in Conns, WriteFrame(c)
  PROVE  TypeOK'
  BY ConstantsAssumption DEF TypeOK, WriteFrame, mgr, out, tasks, events

\* OtherFrame keeps every variable in its type.
LEMMA TypeOtherFrame ==
  ASSUME TypeOK, NEW c \in Conns, OtherFrame(c)
  PROVE  TypeOK'
  BY ConstantsAssumption DEF TypeOK, OtherFrame, Room, mgr, out, tasks, events

\* The CLOSED frames of a teardown: one per open subscription, while they fit.
LEMMA TeardownFrames ==
  ASSUME TypeOK, NEW c \in Conns, Teardown(c)
  PROVE  \E fs \in Seq(Frames) :
            /\ wire' = [wire EXCEPT ![c] = @ \o fs]
            /\ queued' = [queued EXCEPT ![c] = @ + Len(fs)]
            /\ Len(fs) <= Room(c)
            /\ \A i \in 1 .. Len(fs) : /\ fs[i].kind = "closed"
                                       /\ fs[i].ev = 0
                                       /\ fs[i].gen = subs[c][fs[i].sub].gen
            /\ \A i, j \in 1 .. Len(fs) : fs[i].sub = fs[j].sub => i = j
  <1> DEFINE fits(o) == SubSeq(o, 1, IF Room(c) < Len(o) THEN Room(c) ELSE Len(o))
             fs(o) == [i \in 1 .. Len(fits(o)) |->
                          Frame("closed", fits(o)[i], subs[c][fits(o)[i]].gen, 0)]
  <1>1. PICK o \in Orders(OpenSubs(c)) :
            /\ wire' = [wire EXCEPT ![c] = @ \o fs(o)]
            /\ queued' = [queued EXCEPT ![c] = @ + Len(fits(o))]
    BY DEF Teardown
  <1>2. Cardinality(OpenSubs(c)) \in Nat
    BY ConstantsAssumption, FS_Subset, FS_CardinalityType DEF OpenSubs
  <1>3. /\ o \in Seq(OpenSubs(c))
        /\ \A i, j \in 1 .. Len(o) : o[i] = o[j] => i = j
    BY <1>2 DEF Orders
  <1>4. Room(c) \in 0 .. SendCap
    BY ConstantsAssumption DEF Room, TypeOK
  <1>5. /\ fits(o) \in Seq(OpenSubs(c))
        /\ Len(fits(o)) \in 0 .. Room(c)
        /\ \A i, j \in 1 .. Len(fits(o)) : fits(o)[i] = fits(o)[j] => i = j
    <2> DEFINE m == IF Room(c) < Len(o) THEN Room(c) ELSE Len(o)
    <2>1. m \in Nat /\ m <= Len(o) /\ m <= Room(c) /\ Len(o) \in Nat
      BY <1>3, <1>4, ConstantsAssumption
    <2>2. \A i \in 1 .. m : o[i] \in OpenSubs(c)
      BY <1>3, <2>1
    <2> HIDE DEF m
    <2>3. /\ SubSeq(o, 1, m) \in Seq(OpenSubs(c)) /\ Len(SubSeq(o, 1, m)) = m
          /\ \A i \in 1 .. m : SubSeq(o, 1, m)[i] = o[i]
      BY <2>1, <2>2, SubSeqProperties
    <2>4. fits(o) = SubSeq(o, 1, m)
      BY DEF m
    <2> HIDE DEF fits
    <2> QED BY <1>3, <1>4, <2>1, <2>3, <2>4
  <1> HIDE DEF fits
  <1>6. ASSUME NEW i \in 1 .. Len(fits(o))
        PROVE  Frame("closed", fits(o)[i], subs[c][fits(o)[i]].gen, 0) \in Frames
    <2>1. fits(o)[i] \in OpenSubs(c)
      BY <1>5
    <2>2. fits(o)[i] \in SubIDs /\ subs[c][fits(o)[i]].gen \in Gens
      <3>1. fits(o)[i] \in SubIDs /\ subs[c][fits(o)[i]].gen # 0
        BY <2>1 DEF OpenSubs
      <3>2. subs[c][fits(o)[i]] \in Entries
        BY <3>1 DEF TypeOK
      <3>3. subs[c][fits(o)[i]].gen \in 0 .. MaxGen
        BY <3>2 DEF Entries
      <3> QED BY <3>1, <3>3, ConstantsAssumption DEF Gens
    <2>3. 0 \in 0 .. NumEvents
      BY ConstantsAssumption
    <2> QED BY <2>2, <2>3, FrameType
  <1>7. fs(o) \in Seq(Frames) /\ Len(fs(o)) = Len(fits(o))
    BY <1>5, <1>6
  <1>8. \A i \in 1 .. Len(fs(o)) : /\ fs(o)[i].kind = "closed"
                                   /\ fs(o)[i].sub = fits(o)[i]
                                   /\ fs(o)[i].ev = 0
                                   /\ fs(o)[i].gen = subs[c][fits(o)[i]].gen
    BY <1>7 DEF Frame
  <1>9. \A i, j \in 1 .. Len(fs(o)) : fs(o)[i].sub = fs(o)[j].sub => i = j
    BY <1>5, <1>7, <1>8
  <1>10. Len(fs(o)) <= Room(c)
    BY <1>4, <1>5, <1>7, ConstantsAssumption
  <1>11. /\ wire' = [wire EXCEPT ![c] = @ \o fs(o)]
         /\ queued' = [queued EXCEPT ![c] = @ + Len(fs(o))]
    BY <1>1, <1>7
  <1> HIDE DEF fs
  <1> USE <1>7
  <1> WITNESS fs(o) \in Seq(Frames)
  <1> QED BY <1>8, <1>9, <1>10, <1>11

\* Teardown keeps every variable in its type.
LEMMA TypeTeardown ==
  ASSUME TypeOK, NEW c \in Conns, Teardown(c)
  PROVE  TypeOK'
  <1>1. subs' \in [Conns -> [SubIDs -> Entries]]
    BY NoEntryType DEF Teardown, TypeOK
  <1>2. closed' \subseteq Gens
    <2>1. ASSUME NEW s \in OpenSubs(c) PROVE subs[c][s].gen \in Gens
      <3>1. s \in SubIDs /\ subs[c][s].gen # 0
        BY DEF OpenSubs
      <3>2. subs[c][s] \in Entries
        BY <3>1 DEF TypeOK
      <3>3. subs[c][s].gen \in 0 .. MaxGen
        BY <3>2 DEF Entries
      <3> QED BY <3>1, <3>3, ConstantsAssumption DEF Gens
    <2> QED BY <2>1 DEF Teardown, TypeOK
  <1>3. PICK fs \in Seq(Frames) : /\ wire' = [wire EXCEPT ![c] = @ \o fs]
                                  /\ queued' = [queued EXCEPT ![c] = @ + Len(fs)]
                                  /\ Len(fs) <= Room(c)
    BY TeardownFrames
  <1>4. wire' \in [Conns -> Seq(Frames)]
    BY <1>3 DEF TypeOK
  <1>5. queued' \in [Conns -> 0 .. SendCap]
    <2>1. queued[c] \in 0 .. SendCap /\ Len(fs) \in Nat
      BY <1>3 DEF TypeOK
    <2>2. queued[c] + Len(fs) \in 0 .. SendCap
      BY <1>3, <2>1, ConstantsAssumption DEF Room
    <2> QED BY <1>3, <2>2 DEF TypeOK
  <1> QED BY <1>1, <1>2, <1>4, <1>5 DEF Teardown, TypeOK, tasks, events

\* ReqAdd keeps every variable in its type.
LEMMA TypeReqAdd ==
  ASSUME TypeOK, NEW c \in Conns, NEW s \in SubIDs, NEW f \in Filters, ReqAdd(c, s, f)
  PROVE  TypeOK'
  <1>1. nextGen' \in 0 .. MaxGen
    BY ConstantsAssumption DEF TypeOK, ReqAdd
  <1>2. subs' \in [Conns -> [SubIDs -> Entries]]
    <2>1. NewEntry(nextGen + 1, f) \in Entries
      BY <1>1, NewEntryType DEF ReqAdd
    <2> QED BY <2>1 DEF TypeOK, ReqAdd
  <1>3. closed' \subseteq Gens
    <2>1. subs[c][s].gen \in 0 .. MaxGen
      BY DEF TypeOK, Entries
    <2>2. subs[c][s].gen # 0 => subs[c][s].gen \in Gens
      BY <2>1, ConstantsAssumption DEF Gens
    <2> QED BY <2>2 DEF TypeOK, ReqAdd
  <1>4. job' \in [Actors -> Jobs]
    BY NewJobType DEF TypeOK, ReqAdd
  <1>5. pc' \in [Actors -> Labels]
    BY DEF TypeOK, ReqAdd, Goto, Labels, Actors
  <1> QED BY <1>1, <1>2, <1>3, <1>4, <1>5 DEF TypeOK, ReqAdd, out, events

\* ReqGeneration keeps every variable in its type.
LEMMA TypeReqGeneration ==
  ASSUME TypeOK, NEW c \in Conns, ReqGeneration(c)
  PROVE  TypeOK'
  <1>1. c \in Actors /\ job[c] \in Jobs /\ job[c].sub \in SubIDs
    BY DEF TypeOK, Actors, Jobs
  <1>2. subs[c][job[c].sub].gen \in 0 .. MaxGen /\ 0 \in 0 .. MaxGen
    BY <1>1, ConstantsAssumption DEF TypeOK, Entries
  <1>3. job' \in [Actors -> Jobs]
    BY <1>1, <1>2, JobUpdateType DEF TypeOK, ReqGeneration
  <1>4. pc' \in [Actors -> Labels]
    BY DEF TypeOK, ReqGeneration, Goto, Labels
  <1> QED BY <1>3, <1>4 DEF TypeOK, ReqGeneration, mgr, out, events

\* ReqNote keeps every variable in its type.
LEMMA TypeReqNote ==
  ASSUME TypeOK, NEW c \in Conns, ReqNote(c)
  PROVE  TypeOK'
  BY DEF TypeOK, ReqNote, NoteCount, Goto, Labels, mgr, out, events

\* CloseSend keeps every variable in its type.
LEMMA TypeCloseSend ==
  ASSUME TypeOK, NEW c \in Conns, NEW s \in SubIDs, CloseSend(c, s)
  PROVE  TypeOK'
  <1>1. c \in Actors /\ job[c] \in Jobs
    BY DEF TypeOK, Actors
  <1>2. subs[c][s].gen \in Gens
    <2>1. subs[c][s].gen \in 0 .. MaxGen
      BY DEF TypeOK, Entries
    <2>2. subs[c][s].gen # 0
      BY DEF CloseSend
    <2> QED BY <2>1, <2>2, ConstantsAssumption DEF Gens
  <1>3. Frame("ack", s, subs[c][s].gen, 0) \in Frames
    BY <1>2, FrameType, ConstantsAssumption
  <1>4. wire' \in [Conns -> Seq(Frames)] /\ queued' \in [Conns -> 0 .. SendCap]
    BY <1>3, EnqueueType DEF CloseSend
  <1>5. job' \in [Actors -> Jobs]
    BY <1>1, JobUpdateType DEF TypeOK, CloseSend
  <1>6. pc' \in [Actors -> Labels]
    BY DEF TypeOK, CloseSend, Goto, Labels
  <1> QED BY <1>4, <1>5, <1>6 DEF TypeOK, CloseSend, mgr, events

\* CloseRemove keeps every variable in its type.
LEMMA TypeCloseRemove ==
  ASSUME TypeOK, NEW c \in Conns, CloseRemove(c)
  PROVE  TypeOK'
  <1>1. job[c].sub \in SubIDs
    BY DEF TypeOK, Actors, Jobs
  <1>2. subs' \in [Conns -> [SubIDs -> Entries]] /\ closed' \subseteq Gens
    BY <1>1, RemoveLockedType DEF CloseRemove
  <1>3. pc' \in [Actors -> Labels]
    BY DEF TypeOK, CloseRemove, Goto, Labels
  <1> QED BY <1>2, <1>3 DEF TypeOK, CloseRemove, out, events

\* CloseNote keeps every variable in its type.
LEMMA TypeCloseNote ==
  ASSUME TypeOK, NEW c \in Conns, CloseNote(c)
  PROVE  TypeOK'
  <1>1. c \in Actors
    BY DEF Actors
  <1>2. pc' \in [Actors -> Labels] /\ job' \in [Actors -> Jobs]
    BY <1>1, ReturnType DEF CloseNote
  <1> QED BY <1>2 DEF TypeOK, CloseNote, NoteCount, mgr, out, events

\* WorkerTake keeps every variable in its type.
LEMMA TypeWorkerTake ==
  ASSUME TypeOK, WorkerTake
  PROVE  TypeOK'
  <1>1. jobs \in Seq(Jobs) /\ jobs # <<>> /\ Len(jobs) <= QueueCap
    BY DEF TypeOK, WorkerTake
  <1>2. Head(jobs) \in Jobs /\ Tail(jobs) \in Seq(Jobs) /\ Len(Tail(jobs)) <= QueueCap
    BY <1>1, ConstantsAssumption
  <1>3. jobs' \in Seq(Jobs) /\ Len(jobs') <= QueueCap
    BY <1>2 DEF WorkerTake
  <1>4. job' \in [Actors -> Jobs] /\ pc' \in [Actors -> Labels]
    BY <1>2 DEF TypeOK, WorkerTake, Goto, Labels
  <1> QED BY <1>3, <1>4 DEF TypeOK, WorkerTake, mgr, out, events

\* FetchPage keeps every variable in its type.
LEMMA TypeFetchPage ==
  ASSUME TypeOK, NEW a \in Actors, FetchPage(a)
  PROVE  TypeOK'
  <1>1. job' \in [Actors -> Jobs]
    <2>1. job[a] \in Jobs
      BY DEF TypeOK
    <2>2. Fetched(job[a]) \in Jobs
      BY <2>1, FetchedType
    <2> QED BY <2>2 DEF TypeOK, FetchPage
  <1>2. pc' \in [Actors -> Labels]
    BY DEF TypeOK, FetchPage, Goto, Labels
  <1> QED BY <1>1, <1>2 DEF TypeOK, FetchPage, mgr, out, events

\* FetchFails keeps every variable in its type.
LEMMA TypeFetchFails ==
  ASSUME TypeOK, NEW a \in Actors, FetchFails(a)
  PROVE  TypeOK'
  BY DEF TypeOK, FetchFails, Goto, Labels, mgr, out, events

\* CloseOnQueryError keeps every variable in its type.
LEMMA TypeCloseOnQueryError ==
  ASSUME TypeOK, NEW a \in Actors, CloseOnQueryError(a)
  PROVE  TypeOK'
  <1> DEFINE c == job[a].conn
             s == job[a].sub
  <1>1. job[a] \in Jobs /\ job[a].conn \in Conns /\ job[a].sub \in SubIDs
    BY DEF TypeOK, Jobs
  <1>2. pc' \in [Actors -> Labels] /\ job' \in [Actors -> Jobs]
    BY ReturnType DEF CloseOnQueryError
  <1>3. CASE SameSnapshot(c, s, job[a].gen)
    <2>1. Frame("closed", s, job[a].gen, 0) \in Frames
      BY <1>1, <1>3, SameSnapshotGen, FrameType, ConstantsAssumption
    <2>2. Enqueue(c, Frame("closed", s, job[a].gen, 0)) \/ EnqueueFails(c)
      BY <1>3 DEF CloseOnQueryError
    <2>3. RemoveLocked(c, s)
      BY <1>3 DEF CloseOnQueryError
    <2> HIDE DEF c, s
    <2>4. wire' \in [Conns -> Seq(Frames)] /\ queued' \in [Conns -> 0 .. SendCap]
      BY <1>1, <2>1, <2>2, EnqueueType DEF c, s
    <2>5. subs' \in [Conns -> [SubIDs -> Entries]] /\ closed' \subseteq Gens
      BY <1>1, <2>3, RemoveLockedType DEF c, s
    <2> QED BY <1>2, <2>4, <2>5 DEF TypeOK, CloseOnQueryError, events
  <1>4. CASE ~SameSnapshot(c, s, job[a].gen)
    BY <1>2, <1>4 DEF TypeOK, CloseOnQueryError, events
  <1> QED BY <1>3, <1>4

\* SendInvisible keeps every variable in its type.
LEMMA TypeSendInvisible ==
  ASSUME TypeOK, NEW a \in Actors, NEW e \in Events, SendInvisible(a, e)
  PROVE  TypeOK'
  <1>1. job[a] \in Jobs /\ job[a].conn \in Conns /\ job[a].sub \in SubIDs
    BY DEF TypeOK, Jobs
  <1>2. job' \in [Actors -> Jobs]
    BY <1>1, JobUpdateType DEF TypeOK, SendInvisible
  <1> QED BY <1>2 DEF TypeOK, SendInvisible, mgr, out, events

\* SendVisible keeps every variable in its type.
LEMMA TypeSendVisible ==
  ASSUME TypeOK, NEW a \in Actors, NEW e \in Events, SendVisible(a, e)
  PROVE  TypeOK'
  BY DEF TypeOK, SendVisible, Goto, Labels, mgr, out, events

\* SendEvent keeps every variable in its type.
LEMMA TypeSendEvent ==
  ASSUME TypeOK, NEW a \in Actors, NEW e \in Events, SendEvent(a, e)
  PROVE  TypeOK'
  <1> DEFINE c == job[a].conn
             s == job[a].sub
  <1>1. job[a] \in Jobs /\ job[a].conn \in Conns /\ job[a].sub \in SubIDs
    BY DEF TypeOK, Jobs
  <1>2. Frame("snap", s, job[a].gen, e) \in Frames
    BY <1>1, SameSnapshotGen, FrameType, EventsInRange DEF SendEvent
  <1>3. wire' \in [Conns -> Seq(Frames)] /\ queued' \in [Conns -> 0 .. SendCap]
    BY <1>1, <1>2, EnqueueType DEF SendEvent
  <1>4. job' \in [Actors -> Jobs]
    BY <1>1, JobUpdateType DEF TypeOK, SendEvent
  <1>5. subs' \in [Conns -> [SubIDs -> Entries]]
    <2>1. subs[c][s] \in Entries
      BY <1>1 DEF TypeOK
    <2>2. CASE UNCHANGED subs
      BY <2>2 DEF TypeOK
    <2>3. CASE subs' = [subs EXCEPT ![c][s].skipped = TRUE]
      BY <1>1, <2>1, <2>3, EntryUpdateType DEF TypeOK
    <2> QED BY <2>2, <2>3 DEF SendEvent
  <1>6. pc' \in [Actors -> Labels]
    BY DEF TypeOK, SendEvent, Goto, Labels
  <1> QED BY <1>3, <1>4, <1>5, <1>6 DEF TypeOK, SendEvent, events

\* SendStops keeps every variable in its type.
LEMMA TypeSendStops ==
  ASSUME TypeOK, NEW a \in Actors, SendStops(a)
  PROVE  TypeOK'
  BY ReturnType DEF TypeOK, SendStops, mgr, out, events

\* PageSent keeps every variable in its type.
LEMMA TypePageSent ==
  ASSUME TypeOK, NEW a \in Actors, PageSent(a)
  PROVE  TypeOK'
  BY DEF TypeOK, PageSent, Goto, Labels, mgr, out, events

\* EnqueueJob keeps every variable in its type.
LEMMA TypeEnqueueJob ==
  ASSUME TypeOK, NEW a \in Actors, EnqueueJob(a)
  PROVE  TypeOK'
  <1>1. job[a] \in Jobs /\ job[a].conn \in Conns /\ job[a].sub \in SubIDs
    BY DEF TypeOK, Jobs
  <1>2. CASE Len(jobs) < QueueCap
    <2>1. jobs' = Append(jobs, job[a]) /\ jobs \in Seq(Jobs) /\ Len(jobs) \in Nat
      BY <1>2 DEF TypeOK, EnqueueJob
    <2>2. jobs' \in Seq(Jobs) /\ Len(jobs') <= QueueCap
      BY <1>1, <1>2, <2>1, AppendProperties, ConstantsAssumption
    <2>3. pc' \in [Actors -> Labels] /\ job' \in [Actors -> Jobs]
      BY <1>2, ReturnType DEF EnqueueJob
    <2> QED BY <2>2, <2>3 DEF TypeOK, EnqueueJob, mgr, out, events
  <1>3. CASE ~(Len(jobs) < QueueCap)
    <2>1. job' \in [Actors -> Jobs]
      BY <1>1, <1>3, JobUpdateType DEF TypeOK, EnqueueJob
    <2>2. pc' \in [Actors -> Labels]
      <3>1. pc \in [Actors -> Labels] /\ "drain" \in Labels
        BY DEF TypeOK, Labels
      <3>2. pc' = [pc EXCEPT ![a] = "drain"]
        BY <1>3 DEF EnqueueJob, Goto
      <3> QED BY <3>1, <3>2
    <2> QED BY <1>3, <2>1, <2>2 DEF TypeOK, EnqueueJob, mgr, out, events
  <1> QED BY <1>2, <1>3

\* DrainNext keeps every variable in its type.
LEMMA TypeDrainNext ==
  ASSUME TypeOK, NEW a \in Actors, DrainNext(a)
  PROVE  TypeOK'
  <1>1. pc' \in [Actors -> Labels] /\ job' \in [Actors -> Jobs]
    <2>1. CASE SameSnapshot(job[a].conn, job[a].sub, job[a].gen)
      BY <2>1 DEF TypeOK, DrainNext, Goto, Labels
    <2>2. CASE ~SameSnapshot(job[a].conn, job[a].sub, job[a].gen)
      BY <2>2, ReturnType DEF DrainNext
    <2> QED BY <2>1, <2>2
  <1> QED BY <1>1 DEF TypeOK, DrainNext, mgr, out, events

\* The frames finishSnapshotLocked makes of the live buffer.
LEMMA LiveFramesType ==
  ASSUME TypeOK, NEW c \in Conns, NEW s \in SubIDs, subs[c][s].gen \in Gens
  PROVE  /\ LiveFrames(s, subs[c][s]) \in Seq(Frames)
         /\ \A i \in 1 .. Len(LiveFrames(s, subs[c][s])) :
               /\ LiveFrames(s, subs[c][s])[i].gen = subs[c][s].gen
               /\ LiveFrames(s, subs[c][s])[i].sub = s
               /\ LiveFrames(s, subs[c][s])[i].ev = subs[c][s].pending[i]
         /\ Len(LiveFrames(s, subs[c][s])) = Len(subs[c][s].pending)
  <1>1. subs[c][s].pending \in Seq(Events)
    BY DEF TypeOK, Entries
  <1>2. ASSUME NEW i \in 1 .. Len(subs[c][s].pending)
        PROVE  Frame("live", s, subs[c][s].gen, subs[c][s].pending[i]) \in Frames
    <2>1. subs[c][s].pending[i] \in 0 .. NumEvents
      BY <1>1, EventsInRange
    <2> QED BY <2>1, FrameType
  <1>3. LiveFrames(s, subs[c][s]) \in Seq(Frames)
    BY <1>1, <1>2 DEF LiveFrames
  <1>4. Len(LiveFrames(s, subs[c][s])) = Len(subs[c][s].pending)
    BY <1>1 DEF LiveFrames
  <1> QED BY <1>1, <1>3, <1>4 DEF LiveFrames, Frame

\* CompleteSnapshot keeps every variable in its type.
LEMMA TypeCompleteSnapshot ==
  ASSUME TypeOK, NEW a \in Actors, CompleteSnapshot(a)
  PROVE  TypeOK'
  <1> DEFINE c  == job[a].conn
             s  == job[a].sub
             fs == <<Frame("eose", s, job[a].gen, 0)>> \o LiveFrames(s, subs[c][s])
             n  == IF Room(c) < Len(fs) THEN Room(c) ELSE Len(fs)
  <1>1. c \in Conns /\ s \in SubIDs
    BY DEF TypeOK, Jobs
  <1>2. job[a].gen \in Gens /\ job[a].gen = subs[c][s].gen
    BY <1>1, SameSnapshotGen DEF CompleteSnapshot
  <1>3. fs \in Seq(Frames)
    <2>1. LiveFrames(s, subs[c][s]) \in Seq(Frames)
      BY <1>1, <1>2, LiveFramesType
    <2>2. Frame("eose", s, job[a].gen, 0) \in Frames
      BY <1>1, <1>2, FrameType, ConstantsAssumption
    <2> HIDE DEF c, s
    <2> QED BY <2>1, <2>2
  <1> HIDE DEF fs
  <1>4. Room(c) \in 0 .. SendCap /\ (Room(c) # 0 => queued[c] + Room(c) = SendCap)
    BY <1>1, ConstantsAssumption DEF Room, TypeOK
  <1>5. n \in 0 .. Room(c) /\ n <= Len(fs) /\ n \in Nat /\ Len(fs) \in Nat
    BY <1>3, <1>4, ConstantsAssumption
  <1> HIDE DEF n
  <1>6. SubSeq(fs, 1, n) \in Seq(Frames)
    BY <1>3, <1>5
  <1>7. /\ wire' = [wire EXCEPT ![c] = @ \o SubSeq(fs, 1, n)]
        /\ queued' = [queued EXCEPT ![c] = @ + n]
        /\ cancelled' = IF n < Len(fs) THEN cancelled \cup {c} ELSE cancelled
        /\ subs' = [subs EXCEPT ![c][s] = [@ EXCEPT !.done = TRUE, !.pending = <<>>]]
    BY DEF CompleteSnapshot, fs, n
  <1> HIDE DEF c, s
  <1>8. wire' \in [Conns -> Seq(Frames)]
    BY <1>1, <1>6, <1>7 DEF TypeOK
  <1>9. queued' \in [Conns -> 0 .. SendCap]
    <2>1. queued[c] \in 0 .. SendCap
      BY <1>1 DEF TypeOK
    <2>2. queued[c] + n \in 0 .. SendCap
      BY <1>4, <1>5, <2>1, ConstantsAssumption
    <2> QED BY <1>1, <1>7, <2>2 DEF TypeOK
  <1>10. subs' \in [Conns -> [SubIDs -> Entries]]
    <2>1. subs[c][s] \in Entries
      BY <1>1 DEF TypeOK
    <2> QED BY <1>1, <1>7, <2>1, EntryUpdateType DEF TypeOK
  <1>11. cancelled' \subseteq Conns
    BY <1>1, <1>7 DEF TypeOK
  <1>12. pc' \in [Actors -> Labels] /\ job' \in [Actors -> Jobs]
    BY ReturnType DEF CompleteSnapshot
  <1> QED BY <1>8, <1>9, <1>10, <1>11, <1>12 DEF TypeOK, CompleteSnapshot, events

\* CompleteLost keeps every variable in its type.
LEMMA TypeCompleteLost ==
  ASSUME TypeOK, NEW a \in Actors, CompleteLost(a)
  PROVE  TypeOK'
  <1>1. job[a].conn \in Conns /\ job[a].sub \in SubIDs
    BY DEF TypeOK, Jobs
  <1>2. subs[job[a].conn][job[a].sub] \in Entries
    BY <1>1 DEF TypeOK
  <1>3. subs' \in [Conns -> [SubIDs -> Entries]]
    BY <1>1, <1>2, EntryUpdateType DEF TypeOK, CompleteLost
  <1>4. pc' \in [Actors -> Labels] /\ job' \in [Actors -> Jobs]
    BY ReturnType DEF CompleteLost
  <1> QED BY <1>3, <1>4 DEF TypeOK, CompleteLost, out, events

\* CompleteStale keeps every variable in its type.
LEMMA TypeCompleteStale ==
  ASSUME TypeOK, NEW a \in Actors, CompleteStale(a)
  PROVE  TypeOK'
  BY ReturnType DEF TypeOK, CompleteStale, mgr, out, events

\* SaveEvent keeps every variable in its type.
LEMMA TypeSaveEvent ==
  ASSUME TypeOK, NEW e \in Events, SaveEvent(e)
  PROVE  TypeOK'
  BY DEF TypeOK, SaveEvent, mgr, out, tasks

\* BroadcastMatch keeps every variable in its type.
LEMMA TypeBroadcastMatch ==
  ASSUME TypeOK, NEW e \in Events, BroadcastMatch(e)
  PROVE  TypeOK'
  BY DEF TypeOK, BroadcastMatch, mgr, out, tasks

\* BroadcastConn keeps every variable in its type.
LEMMA TypeBroadcastConn ==
  ASSUME TypeOK, NEW e \in Events, NEW c \in Conns, BroadcastConn(e, c)
  PROVE  TypeOK'
  <1>1. pub' \in [Events -> [st : {"new", "saved", "bcast"},
                            todo : SUBSET Targets, cur : SUBSET Targets]]
    <2>1. pub[e] \in [st : {"new", "saved", "bcast"},
                      todo : SUBSET Targets, cur : SUBSET Targets]
      BY DEF TypeOK
    <2> DEFINE mine == {t \in pub[e].todo : t.conn = c}
    <2>2. mine \subseteq Targets
      BY <2>1
    <2>3. PICK cur \in SUBSET Targets :
              pub' = [pub EXCEPT ![e].todo = @ \ mine, ![e].cur = cur]
      BY <2>2 DEF BroadcastConn
    <2> HIDE DEF mine
    <2> QED BY <2>1, <2>3 DEF TypeOK
  <1> QED BY <1>1 DEF TypeOK, BroadcastConn, mgr, out, tasks

\* A publisher that ticks off a delivery stays well-typed.
LEMMA DoneWithType ==
  ASSUME TypeOK, NEW e \in Events, NEW t, DoneWith(e, t)
  PROVE  pub' \in [Events -> [st : {"new", "saved", "bcast"},
                             todo : SUBSET Targets, cur : SUBSET Targets]]
  BY DEF TypeOK, DoneWith

\* DeliverStale keeps every variable in its type.
LEMMA TypeDeliverStale ==
  ASSUME TypeOK, NEW e \in Events, NEW t \in Targets, DeliverStale(e, t)
  PROVE  TypeOK'
  BY DoneWithType DEF TypeOK, DeliverStale, mgr, out, tasks

\* DeliverBuffered keeps every variable in its type.
LEMMA TypeDeliverBuffered ==
  ASSUME TypeOK, NEW e \in Events, NEW t \in Targets, DeliverBuffered(e, t)
  PROVE  TypeOK'
  <1>1. t.conn \in Conns /\ t.sub \in SubIDs
    BY DEF Targets
  <1>2. subs[t.conn][t.sub] \in Entries
    BY <1>1 DEF TypeOK
  <1>3. subs' \in [Conns -> [SubIDs -> Entries]]
    BY <1>1, <1>2, EntryUpdateType DEF TypeOK, DeliverBuffered
  <1> QED BY <1>3, DoneWithType DEF TypeOK, DeliverBuffered, out, tasks

\* A subscription frame is sent, or its connection is shut down.
LEMMA EnqueueSubscriptionFrameType ==
  ASSUME TypeOK, NEW c \in Conns, NEW f \in Frames, EnqueueSubscriptionFrame(c, f)
  PROVE  /\ wire' \in [Conns -> Seq(Frames)]
         /\ queued' \in [Conns -> 0 .. SendCap]
         /\ cancelled' \subseteq Conns
  BY EnqueueType DEF TypeOK, EnqueueSubscriptionFrame

\* DeliverOverflow keeps every variable in its type.
LEMMA TypeDeliverOverflow ==
  ASSUME TypeOK, NEW e \in Events, NEW t \in Targets, DeliverOverflow(e, t)
  PROVE  TypeOK'
  <1>1. t.conn \in Conns /\ t.sub \in SubIDs /\ t.gen \in Gens
    BY DEF Targets
  <1>2. subs' \in [Conns -> [SubIDs -> Entries]] /\ closed' \subseteq Gens
    BY <1>1, RemoveLockedType DEF DeliverOverflow
  <1>3. Frame("closed", t.sub, t.gen, 0) \in Frames
    BY <1>1, FrameType, ConstantsAssumption
  <1>4. /\ wire' \in [Conns -> Seq(Frames)]
        /\ queued' \in [Conns -> 0 .. SendCap]
        /\ cancelled' \subseteq Conns
    BY <1>1, <1>3, EnqueueSubscriptionFrameType DEF DeliverOverflow
  <1> QED BY <1>2, <1>4, DoneWithType DEF TypeOK, DeliverOverflow, tasks

\* DeliverLive keeps every variable in its type.
LEMMA TypeDeliverLive ==
  ASSUME TypeOK, NEW e \in Events, NEW t \in Targets, DeliverLive(e, t)
  PROVE  TypeOK'
  <1>1. t.conn \in Conns /\ t.sub \in SubIDs /\ t.gen \in Gens
    BY DEF Targets
  <1>2. Frame("live", t.sub, t.gen, e) \in Frames
    BY <1>1, FrameType, EventsInRange
  <1>3. /\ wire' \in [Conns -> Seq(Frames)]
        /\ queued' \in [Conns -> 0 .. SendCap]
        /\ cancelled' \subseteq Conns
    BY <1>1, <1>2, EnqueueSubscriptionFrameType DEF DeliverLive
  <1> QED BY <1>3, DoneWithType DEF TypeOK, DeliverLive, mgr, tasks

-----------------------------------------------------------------------------
(* The type invariant. *)

\* The relay starts well-typed.
LEMMA TypeInit == Init => TypeOK
  <1> SUFFICES ASSUME Init PROVE TypeOK
    OBVIOUS
  <1>1. /\ wire \in [Conns -> Seq(Frames)]
        /\ jobs \in Seq(Jobs) /\ Len(jobs) <= QueueCap
    BY EmptySeq, ConstantsAssumption DEF Init
  <1>2. subs \in [Conns -> [SubIDs -> Entries]]
    BY NoEntryType DEF Init
  <1>3. job \in [Actors -> Jobs]
    BY NoJobType DEF Init
  <1>4. queued \in [Conns -> 0 .. SendCap] /\ nextGen \in 0 .. MaxGen
    BY ConstantsAssumption DEF Init
  <1>5. auth \in [Conns -> [key : {"none", "recipient", "other"}, late : SUBSET Events]]
    BY DEF Init, NewAuth
  <1> QED BY <1>1, <1>2, <1>3, <1>4, <1>5 DEF Init, TypeOK, Labels

\* Every step of any goroutine preserves the type invariant.
LEMMA TypeNext == TypeOK /\ [Next]_vars => TypeOK'
  <1> SUFFICES ASSUME TypeOK, [Next]_vars PROVE TypeOK'
    OBVIOUS
  <1>1. ASSUME NEW a \in Actors, Snapshot(a) PROVE TypeOK'
    BY <1>1, TypeFetchPage, TypeFetchFails, TypeCloseOnQueryError, TypeSendInvisible,
       TypeSendVisible, TypeSendEvent, TypeSendStops, TypePageSent, TypeEnqueueJob, TypeDrainNext,
       TypeCompleteSnapshot, TypeCompleteLost, TypeCompleteStale DEF Snapshot
  <1>2. ASSUME NEW c \in Conns, Client(c) PROVE TypeOK'
    BY <1>2, TypeRegisterSender, TypeAuthenticate, TypeSwitchIdentity, TypeOtherFrame, TypeCloseSend,
       TypeReqAdd DEF Client
  <1>3. ASSUME NEW c \in Conns, ReadLoop(c) PROVE TypeOK'
    BY <1>1, <1>3, TypeReqGeneration, TypeReqNote, TypeCloseRemove, TypeCloseNote
       DEF ReadLoop, Actors
  <1>4. ASSUME ReaderQueue PROVE TypeOK'
    BY <1>1, <1>4, TypeWorkerTake DEF ReaderQueue, Actors
  <1>5. ASSUME NEW e \in Events, Broadcast(e) PROVE TypeOK'
    BY <1>5, TypeBroadcastMatch, TypeBroadcastConn, TypeDeliverStale,
       TypeDeliverBuffered, TypeDeliverOverflow, TypeDeliverLive DEF Broadcast
  <1>6. CASE UNCHANGED vars
    BY <1>6 DEF TypeOK, vars, mgr, out, tasks, events
  <1> QED BY <1>2, <1>3, <1>4, <1>5, <1>6, TypeTeardown, TypeWriteFrame, TypeWriteFails, TypeSweepIdle,
             TypeSaveEvent DEF Next

\* Every reachable state of the subscription manager, its connections, the
\* reader queue and the publishers is well-typed: in particular no send channel
\* and no reader queue ever exceeds its capacity.
THEOREM TypeCorrect == Spec => []TypeOK
  BY TypeInit, TypeNext, PTL DEF Spec


-----------------------------------------------------------------------------
(* Frames are only ever appended to what a connection has been sent. *)

\* A frame enqueued, or not, on connection c.
LEMMA EnqueueAppends ==
  ASSUME TypeOK, NEW c \in Conns, NEW f \in Frames, Enqueue(c, f)
  PROVE  /\ wire' = [wire EXCEPT ![c] = Append(wire[c], f)]
         /\ wire[c] \in Seq(Frames)
         /\ Len(wire[c]) \in Nat
         /\ DOMAIN wire[c] = 1 .. Len(wire[c])
         /\ DOMAIN wire'[c] = 1 .. Len(wire[c]) + 1
         /\ \A i \in 1 .. Len(wire[c]) : wire'[c][i] = wire[c][i]
         /\ wire'[c][Len(wire[c]) + 1] = f
         /\ \A d \in Conns : d # c => wire'[d] = wire[d]
  BY DEF TypeOK, Enqueue

\* A sequence of frames appended to a connection's.
LEMMA ConcatAppends ==
  ASSUME TypeOK, NEW c \in Conns, NEW fs \in Seq(Frames),
         wire' = [wire EXCEPT ![c] = @ \o fs]
  PROVE  /\ wire[c] \in Seq(Frames)
         /\ Len(wire[c]) \in Nat /\ Len(fs) \in Nat
         /\ DOMAIN wire[c] = 1 .. Len(wire[c])
         /\ DOMAIN wire'[c] = 1 .. Len(wire[c]) + Len(fs)
         /\ \A i \in 1 .. Len(wire[c]) : wire'[c][i] = wire[c][i]
         /\ \A i \in 1 .. Len(fs) : wire'[c][Len(wire[c]) + i] = fs[i]
         /\ \A d \in Conns : d # c => wire'[d] = wire[d]
  BY DEF TypeOK

-----------------------------------------------------------------------------
(* Live events follow the EOSE of their generation. *)

HasEOSE(w, g) == \E j \in DOMAIN w : w[j].kind = "eose" /\ w[j].gen = g

\* A subscription is only marked done together with its EOSE.
DoneHasEOSE ==
    \A c \in Conns, s \in SubIDs : subs[c][s].done => HasEOSE(wire[c], subs[c][s].gen)

\* Inductive: LiveAfterEOSE alone does not say why DeliverLive may send.
LiveInv == DoneHasEOSE /\ LiveAfterEOSE

\* An action that sends nothing and marks no subscription done.
LEMMA LiveQuiet ==
  ASSUME LiveInv, UNCHANGED wire,
         \A c \in Conns, s \in SubIDs :
            subs'[c][s].done => subs[c][s].done /\ subs'[c][s].gen = subs[c][s].gen
  PROVE  LiveInv'
  BY DEF LiveInv, DoneHasEOSE, LiveAfterEOSE, HasEOSE

\* An action that sends one frame: a live one needs its EOSE before it.
LEMMA LiveEnqueue ==
  ASSUME TypeOK, LiveInv, NEW c \in Conns, NEW f \in Frames, Enqueue(c, f),
         f.kind = "live" => HasEOSE(wire[c], f.gen),
         \A d \in Conns, s \in SubIDs :
            subs'[d][s].done => subs[d][s].done /\ subs'[d][s].gen = subs[d][s].gen
  PROVE  LiveInv'
  <1> USE EnqueueAppends
  <1>1. \A d \in Conns : \A g : HasEOSE(wire[d], g) => HasEOSE(wire'[d], g)
    BY DEF HasEOSE
  <1>2. DoneHasEOSE'
    BY <1>1 DEF LiveInv, DoneHasEOSE
  <1>3. LiveAfterEOSE'
    <2> SUFFICES ASSUME NEW d \in Conns, NEW i \in DOMAIN wire'[d], wire'[d][i].kind = "live"
                 PROVE  \E j \in 1 .. i - 1 : /\ wire'[d][j].kind = "eose"
                                              /\ wire'[d][j].gen = wire'[d][i].gen
      BY DEF LiveAfterEOSE
    <2>1. CASE d # c
      BY <2>1 DEF LiveInv, LiveAfterEOSE
    <2>2. CASE d = c /\ i \in 1 .. Len(wire[c])
      <3>1. wire[c][i].kind = "live" /\ wire'[c][i] = wire[c][i]
        BY <2>2
      <3>2. PICK j \in 1 .. i - 1 : wire[c][j].kind = "eose" /\ wire[c][j].gen = wire[c][i].gen
        BY <2>2, <3>1 DEF LiveInv, LiveAfterEOSE
      <3>3. wire'[c][j] = wire[c][j]
        BY <2>2
      <3> QED BY <2>2, <3>1, <3>2, <3>3
    <2>3. CASE d = c /\ i = Len(wire[c]) + 1
      BY <2>3 DEF HasEOSE
    <2> QED BY <2>1, <2>2, <2>3
  <1> QED BY <1>2, <1>3 DEF LiveInv

\* completeSnapshot sends EOSE, then the buffered live events of the same
\* generation, and marks the entry done.
LEMMA LiveCompleteSnapshot ==
  ASSUME TypeOK, LiveInv, NEW a \in Actors, CompleteSnapshot(a)
  PROVE  LiveInv'
  <1> DEFINE c  == job[a].conn
             s  == job[a].sub
             g  == job[a].gen
             fs == <<Frame("eose", s, g, 0)>> \o LiveFrames(s, subs[c][s])
             n  == IF Room(c) < Len(fs) THEN Room(c) ELSE Len(fs)
             b  == SubSeq(fs, 1, n)
             w  == wire[c]
  <1>1. c \in Conns /\ s \in SubIDs
    BY DEF TypeOK, Jobs
  <1>2. g \in Gens /\ g = subs[c][s].gen
    BY <1>1, SameSnapshotGen DEF CompleteSnapshot
  <1>3. /\ LiveFrames(s, subs[c][s]) \in Seq(Frames)
        /\ \A i \in 1 .. Len(LiveFrames(s, subs[c][s])) : LiveFrames(s, subs[c][s])[i].gen = g
    BY <1>1, <1>2, LiveFramesType
  <1>4. Frame("eose", s, g, 0) \in Frames
    BY <1>1, <1>2, FrameType, ConstantsAssumption
  <1>5. /\ fs \in Seq(Frames) /\ Len(fs) \in Nat /\ Len(fs) >= 1
        /\ fs[1] = Frame("eose", s, g, 0)
        /\ \A i \in 1 .. Len(fs) : fs[i].gen = g
    <2> HIDE DEF c, s, g
    <2>1. Frame("eose", s, g, 0).gen = g
      BY DEF Frame
    <2> QED BY <1>3, <1>4, <2>1
  <1>6. Room(c) \in Nat /\ Room(c) > 0
    <2>1. Room(c) \in 0 .. SendCap
      <3> HIDE DEF c
      <3> QED BY <1>1, ConstantsAssumption DEF Room, TypeOK
    <2>2. Room(c) > 0
      BY DEF CompleteSnapshot
    <2> QED BY <2>1, <2>2, ConstantsAssumption
  <1>7. /\ b \in Seq(Frames) /\ Len(b) = n /\ n \in Nat /\ n >= 1
        /\ b[1] = Frame("eose", s, g, 0)
        /\ \A i \in 1 .. Len(b) : b[i].gen = g
    <2> HIDE DEF fs
    <2> QED BY <1>5, <1>6
  <1>8. /\ wire' = [wire EXCEPT ![c] = @ \o b]
        /\ subs' = [subs EXCEPT ![c][s] = [@ EXCEPT !.done = TRUE, !.pending = <<>>]]
    BY DEF CompleteSnapshot
  <1> HIDE DEF c, s, g, b, n, fs
  <1>9. /\ w \in Seq(Frames) /\ Len(w) \in Nat
        /\ DOMAIN w = 1 .. Len(w)
        /\ DOMAIN wire'[c] = 1 .. Len(w) + Len(b)
        /\ \A i \in 1 .. Len(w) : wire'[c][i] = w[i]
        /\ \A i \in 1 .. Len(b) : wire'[c][Len(w) + i] = b[i]
        /\ \A d \in Conns : d # c => wire'[d] = wire[d]
    BY <1>1, <1>7, <1>8, ConcatAppends
  <1>10. /\ wire'[c][Len(w) + 1].kind = "eose"
         /\ wire'[c][Len(w) + 1].gen = g
    BY <1>7, <1>9 DEF Frame
  <1>11. DoneHasEOSE'
    <2> SUFFICES ASSUME NEW d \in Conns, NEW t \in SubIDs, subs'[d][t].done
                 PROVE  HasEOSE(wire'[d], subs'[d][t].gen)
      BY DEF DoneHasEOSE
    <2>1. CASE d = c /\ t = s
      <3>1. subs'[d][t].gen = g
        BY <1>1, <1>2, <1>8, <2>1 DEF TypeOK, Entries
      <3> QED BY <1>7, <1>9, <1>10, <2>1, <3>1 DEF HasEOSE
    <2>2. CASE ~(d = c /\ t = s)
      <3>1. subs'[d][t] = subs[d][t]
        BY <1>1, <1>8, <2>2 DEF TypeOK
      <3>2. HasEOSE(wire[d], subs[d][t].gen)
        BY <3>1 DEF LiveInv, DoneHasEOSE
      <3>3. PICK j \in DOMAIN wire[d] : /\ wire[d][j].kind = "eose"
                                        /\ wire[d][j].gen = subs[d][t].gen
        BY <3>2 DEF HasEOSE
      <3>4. j \in DOMAIN wire'[d] /\ wire'[d][j] = wire[d][j]
        <4>1. CASE d = c
          <5>1. j \in 1 .. Len(w)
            BY <1>9, <3>3, <4>1
          <5>2. j \in 1 .. Len(w) + Len(b)
            BY <1>7, <1>9, <5>1
          <5> QED BY <1>9, <4>1, <5>1, <5>2
        <4>2. CASE d # c
          BY <1>9, <4>2
        <4> QED BY <4>1, <4>2
      <3> QED BY <3>1, <3>3, <3>4 DEF HasEOSE
    <2> QED BY <2>1, <2>2
  <1>12. LiveAfterEOSE'
    <2> SUFFICES ASSUME NEW d \in Conns, NEW i \in DOMAIN wire'[d], wire'[d][i].kind = "live"
                 PROVE  \E j \in 1 .. i - 1 : /\ wire'[d][j].kind = "eose"
                                              /\ wire'[d][j].gen = wire'[d][i].gen
      BY DEF LiveAfterEOSE
    <2>1. CASE d # c
      BY <1>9, <2>1 DEF LiveInv, LiveAfterEOSE
    <2>2. CASE d = c /\ i \in 1 .. Len(w)
      <3>1. w[i].kind = "live" /\ wire'[c][i] = w[i]
        BY <1>9, <2>2
      <3>2. PICK j \in 1 .. i - 1 : w[j].kind = "eose" /\ w[j].gen = w[i].gen
        BY <1>1, <1>9, <2>2, <3>1 DEF LiveInv, LiveAfterEOSE
      <3>3. j \in 1 .. Len(w) /\ wire'[c][j] = w[j]
        <4>1. j \in 1 .. Len(w)
          BY <1>9, <2>2, <3>2
        <4> QED BY <1>9, <4>1
      <3> QED BY <2>2, <3>1, <3>2, <3>3
    <2>3. CASE d = c /\ i \in Len(w) + 1 .. Len(w) + Len(b)
      <3>1. wire'[c][i].gen = g
        <4> DEFINE k == i - Len(w)
        <4>1. k \in 1 .. Len(b) /\ i = Len(w) + k
          BY <1>7, <1>9, <2>3
        <4>2. wire'[c][Len(w) + k] = b[k] /\ b[k].gen = g
          BY <1>7, <1>9, <4>1
        <4> QED BY <4>1, <4>2
      <3>2. i # Len(w) + 1
        BY <1>10, <2>3
      <3> QED BY <1>7, <1>9, <1>10, <2>3, <3>1, <3>2
    <2> QED BY <1>7, <1>9, <2>1, <2>2, <2>3
  <1> QED BY <1>11, <1>12 DEF LiveInv

\* Teardown appends CLOSED frames only, and forgets every subscription.
LEMMA LiveTeardown ==
  ASSUME TypeOK, LiveInv, NEW c \in Conns, Teardown(c)
  PROVE  LiveInv'
  <1>1. PICK fs \in Seq(Frames) :
            /\ wire' = [wire EXCEPT ![c] = @ \o fs]
            /\ queued' = [queued EXCEPT ![c] = @ + Len(fs)]
            /\ Len(fs) <= Room(c)
            /\ \A i \in 1 .. Len(fs) : /\ fs[i].kind = "closed"
                                       /\ fs[i].ev = 0
                                       /\ fs[i].gen = subs[c][fs[i].sub].gen
            /\ \A i, j \in 1 .. Len(fs) : fs[i].sub = fs[j].sub => i = j
    BY TeardownFrames
  <1> DEFINE w == wire[c]
  <1>2. /\ w \in Seq(Frames) /\ Len(w) \in Nat /\ Len(fs) \in Nat
        /\ DOMAIN w = 1 .. Len(w)
        /\ DOMAIN wire'[c] = 1 .. Len(w) + Len(fs)
        /\ \A i \in 1 .. Len(w) : wire'[c][i] = w[i]
        /\ \A i \in 1 .. Len(fs) : wire'[c][Len(w) + i] = fs[i]
        /\ \A d \in Conns : d # c => wire'[d] = wire[d]
    BY <1>1, ConcatAppends
  <1>3. DoneHasEOSE'
    <2> SUFFICES ASSUME NEW d \in Conns, NEW t \in SubIDs, subs'[d][t].done
                 PROVE  HasEOSE(wire'[d], subs'[d][t].gen)
      BY DEF DoneHasEOSE
    <2>1. d # c
      BY DEF Teardown, TypeOK, NoEntry, NewEntry
    <2>2. subs'[d] = subs[d]
      BY <2>1 DEF Teardown, TypeOK
    <2> QED BY <1>2, <2>1, <2>2 DEF LiveInv, DoneHasEOSE
  <1>4. LiveAfterEOSE'
    <2> SUFFICES ASSUME NEW d \in Conns, NEW i \in DOMAIN wire'[d], wire'[d][i].kind = "live"
                 PROVE  \E j \in 1 .. i - 1 : /\ wire'[d][j].kind = "eose"
                                              /\ wire'[d][j].gen = wire'[d][i].gen
      BY DEF LiveAfterEOSE
    <2>1. CASE d # c
      <3>1. wire'[d] = wire[d]
        BY <1>2, <2>1
      <3>2. LiveAfterEOSE
        BY DEF LiveInv
      <3> QED BY <3>1, <3>2 DEF LiveAfterEOSE
    <2>2. CASE d = c
      <3>1. i \in 1 .. Len(w)
        <4>1. SUFFICES ASSUME i \notin 1 .. Len(w) PROVE FALSE
          OBVIOUS
        <4> DEFINE k == i - Len(w)
        <4>2. k \in 1 .. Len(fs) /\ i = Len(w) + k
          BY <1>2, <2>2, <4>1
        <4>3. wire'[c][Len(w) + k] = fs[k] /\ fs[k].kind = "closed"
          BY <1>1, <1>2, <4>2
        <4> QED BY <2>2, <4>2, <4>3
      <3>2. w[i].kind = "live" /\ wire'[c][i] = w[i]
        BY <1>2, <2>2, <3>1
      <3>3. PICK j \in 1 .. i - 1 : w[j].kind = "eose" /\ w[j].gen = w[i].gen
        BY <1>2, <3>1, <3>2 DEF LiveInv, LiveAfterEOSE
      <3>4. j \in 1 .. Len(w)
        BY <1>2, <3>1, <3>3
      <3> QED BY <1>2, <2>2, <3>2, <3>3, <3>4
    <2> QED BY <2>1, <2>2
  <1> QED BY <1>3, <1>4 DEF LiveInv

\* Removing an entry, or replacing it by a new one, leaves it not done.
LEMMA RemoveLockedDone ==
  ASSUME TypeOK, NEW c \in Conns, NEW s \in SubIDs, RemoveLocked(c, s)
  PROVE  \A d \in Conns, t \in SubIDs :
            subs'[d][t].done => subs[d][t].done /\ subs'[d][t].gen = subs[d][t].gen
  BY DEF TypeOK, RemoveLocked, NoEntry, NewEntry

\* Every step preserves LiveInv.
LEMMA LiveNext ==
  ASSUME TypeOK, LiveInv, [Next]_vars
  PROVE  LiveInv'
  <1> DEFINE Kept == \A d \in Conns, t \in SubIDs :
                subs'[d][t].done => subs[d][t].done /\ subs'[d][t].gen = subs[d][t].gen
  <1>0. UNCHANGED subs => Kept
    OBVIOUS
  <1>1. ASSUME UNCHANGED wire, UNCHANGED subs PROVE LiveInv'
    BY <1>1, LiveQuiet
  <1>2. ASSUME NEW a \in Actors, Snapshot(a) PROVE LiveInv'
    <2> DEFINE c == job[a].conn
               s == job[a].sub
    <2>1. c \in Conns /\ s \in SubIDs /\ subs[c][s] \in Entries
      BY DEF TypeOK, Jobs
    <2>2. CASE CloseOnQueryError(a)
      <3>1. CASE SameSnapshot(c, s, job[a].gen)
        <4>1. Frame("closed", s, job[a].gen, 0) \in Frames
          BY <2>1, <3>1, SameSnapshotGen, FrameType, ConstantsAssumption
        <4>2. RemoveLocked(c, s)
          BY <2>2, <3>1 DEF CloseOnQueryError
        <4>3. Kept
          BY <2>1, <4>2, RemoveLockedDone
        <4>4. CASE Enqueue(c, Frame("closed", s, job[a].gen, 0))
          <5>1. Frame("closed", s, job[a].gen, 0).kind # "live"
            BY DEF Frame
          <5> QED BY <2>1, <4>1, <4>3, <4>4, <5>1, LiveEnqueue
        <4>5. CASE EnqueueFails(c)
          BY <4>3, <4>5, LiveQuiet DEF EnqueueFails
        <4> QED BY <2>2, <3>1, <4>4, <4>5 DEF CloseOnQueryError
      <3>2. CASE ~SameSnapshot(c, s, job[a].gen)
        BY <1>1, <2>2, <3>2 DEF CloseOnQueryError
      <3> QED BY <3>1, <3>2
    <2>3. ASSUME NEW e \in Events, SendEvent(a, e) PROVE LiveInv'
      <3>1. Frame("snap", s, job[a].gen, e) \in Frames
        BY <2>1, <2>3, SameSnapshotGen, FrameType, EventsInRange DEF SendEvent
      <3>2. CASE Enqueue(c, Frame("snap", s, job[a].gen, e)) /\ UNCHANGED subs
        <4>1. Frame("snap", s, job[a].gen, e).kind # "live"
          BY DEF Frame
        <4> QED BY <2>1, <3>1, <3>2, <4>1, LiveEnqueue
      <3>3. CASE EnqueueFails(c) /\ subs' = [subs EXCEPT ![c][s].skipped = TRUE]
        <4>1. Kept
          BY <2>1, <3>3 DEF TypeOK, Entries
        <4> QED BY <3>3, <4>1, LiveQuiet DEF EnqueueFails
      <3> QED BY <2>3, <3>2, <3>3 DEF SendEvent
    <2>4. CASE CompleteLost(a)
      <3>1. subs' = [subs EXCEPT ![c][s].eoseLost = TRUE] /\ UNCHANGED wire
        BY <2>4 DEF CompleteLost, out
      <3>2. Kept
        BY <2>1, <3>1 DEF TypeOK, Entries
      <3> QED BY <3>1, <3>2, LiveQuiet
    <2> QED BY <1>1, <1>2, <2>2, <2>3, <2>4, LiveCompleteSnapshot
           DEF Snapshot, FetchPage, FetchFails, SendInvisible, SendVisible, SendStops, PageSent,
               EnqueueJob, DrainNext, CompleteStale, mgr, out
  <1>3. ASSUME NEW c \in Conns, Client(c) PROVE LiveInv'
    <2>1. ASSUME NEW s \in SubIDs, CloseSend(c, s) PROVE LiveInv'
      <3>1. subs[c][s].gen \in Gens
        <4>1. subs[c][s].gen \in 0 .. MaxGen /\ subs[c][s].gen # 0
          BY <2>1 DEF TypeOK, Entries, CloseSend
        <4> QED BY <4>1, ConstantsAssumption DEF Gens
      <3>2. Frame("ack", s, subs[c][s].gen, 0) \in Frames
        BY <3>1, FrameType, ConstantsAssumption
      <3>3. Frame("ack", s, subs[c][s].gen, 0).kind # "live"
        BY DEF Frame
      <3>4. UNCHANGED subs
        BY <2>1 DEF CloseSend, mgr
      <3>5. CASE Enqueue(c, Frame("ack", s, subs[c][s].gen, 0))
        BY <3>2, <3>3, <3>4, <3>5, LiveEnqueue
      <3>6. CASE EnqueueFails(c)
        BY <1>1, <3>4, <3>6 DEF EnqueueFails
      <3> QED BY <2>1, <3>5, <3>6 DEF CloseSend
    <2>2. ASSUME NEW s \in SubIDs, NEW f \in Filters, ReqAdd(c, s, f) PROVE LiveInv'
      <3>1. Kept /\ UNCHANGED wire
        BY <2>2 DEF ReqAdd, NewEntry, TypeOK, out
      <3> QED BY <3>1, LiveQuiet
    <2>3. ASSUME SwitchIdentity(c) PROVE LiveInv'
      <3>1. Kept /\ UNCHANGED wire
        BY <2>3 DEF SwitchIdentity, Withholding, TypeOK, Entries, out
      <3> QED BY <3>1, LiveQuiet
    <2> QED BY <1>1, <1>3, <2>1, <2>2, <2>3 DEF Client, RegisterSender, Authenticate, OtherFrame, mgr, out
  <1>4. ASSUME NEW c \in Conns, ReadLoop(c) PROVE LiveInv'
    <2>1. CASE CloseRemove(c)
      <3>1. job[c].sub \in SubIDs
        BY DEF TypeOK, Actors, Jobs
      <3>2. Kept
        BY <2>1, <3>1, RemoveLockedDone DEF CloseRemove
      <3> QED BY <2>1, <3>2, LiveQuiet DEF CloseRemove, out
    <2> QED BY <1>1, <1>2, <1>4, <2>1 DEF ReadLoop, ReqGeneration, ReqNote, CloseNote, Actors,
                                          mgr, out
  <1>5. ASSUME NEW e \in Events, Broadcast(e) PROVE LiveInv'
    <2>1. ASSUME NEW t \in Targets, DeliverBuffered(e, t) PROVE LiveInv'
      <3>1. t.conn \in Conns /\ t.sub \in SubIDs /\ subs[t.conn][t.sub] \in Entries
        BY DEF Targets, TypeOK
      <3>2. Kept /\ UNCHANGED wire
        BY <2>1, <3>1 DEF DeliverBuffered, TypeOK, Entries, out
      <3> QED BY <3>2, LiveQuiet
    <2>2. ASSUME NEW t \in Targets, DeliverOverflow(e, t) PROVE LiveInv'
      <3>1. t.conn \in Conns /\ t.sub \in SubIDs /\ t.gen \in Gens
        BY DEF Targets
      <3>2. Kept
        BY <2>2, <3>1, RemoveLockedDone DEF DeliverOverflow
      <3>3. /\ Frame("closed", t.sub, t.gen, 0) \in Frames
            /\ Frame("closed", t.sub, t.gen, 0).kind # "live"
        BY <3>1, FrameType, ConstantsAssumption DEF Frame
      <3>4. CASE Enqueue(t.conn, Frame("closed", t.sub, t.gen, 0))
        BY <3>1, <3>2, <3>3, <3>4, LiveEnqueue
      <3>5. CASE EnqueueFails(t.conn)
        BY <3>2, <3>5, LiveQuiet DEF EnqueueFails
      <3> QED BY <2>2, <3>4, <3>5 DEF DeliverOverflow, EnqueueSubscriptionFrame
    <2>3. ASSUME NEW t \in Targets, DeliverLive(e, t) PROVE LiveInv'
      <3>1. t.conn \in Conns /\ t.sub \in SubIDs /\ t.gen \in Gens
        BY DEF Targets
      <3>2. /\ Frame("live", t.sub, t.gen, e) \in Frames
            /\ Frame("live", t.sub, t.gen, e).gen = t.gen
        BY <3>1, FrameType, EventsInRange DEF Frame
      <3>3. HasEOSE(wire[t.conn], t.gen)
        BY <2>3, <3>1, SameSnapshotGen DEF DeliverLive, LiveInv, DoneHasEOSE
      <3>4. UNCHANGED subs
        BY <2>3 DEF DeliverLive, mgr
      <3>5. CASE Enqueue(t.conn, Frame("live", t.sub, t.gen, e))
        BY <3>1, <3>2, <3>3, <3>4, <3>5, LiveEnqueue
      <3>6. CASE EnqueueFails(t.conn)
        BY <1>1, <3>4, <3>6 DEF EnqueueFails
      <3> QED BY <2>3, <3>5, <3>6 DEF DeliverLive, EnqueueSubscriptionFrame
    <2> QED BY <1>1, <1>5, <2>1, <2>2, <2>3 DEF Broadcast, BroadcastMatch, BroadcastConn,
                                                DeliverStale, mgr, out
  <1>6. ASSUME NEW e \in Events, SaveEvent(e) PROVE LiveInv'
    BY <1>1, <1>6 DEF SaveEvent, mgr, out
  <1>7. ASSUME ReaderQueue PROVE LiveInv'
    BY <1>1, <1>2, <1>7 DEF ReaderQueue, WorkerTake, Actors, mgr, out
  <1>8. ASSUME NEW c \in Conns, WriteFrame(c) \/ WriteFails(c) \/ SweepIdle(c) PROVE LiveInv'
    BY <1>1, <1>8 DEF WriteFrame, WriteFails, SweepIdle, mgr, out
  <1>9. CASE UNCHANGED vars
    BY <1>1, <1>9 DEF vars, mgr, out
  <1> QED BY <1>3, <1>4, <1>5, <1>6, <1>7, <1>8, <1>9, LiveTeardown DEF Next

\* For any number of connections, subscriptions and publishers, whatever the
\* interleaving of read loops, worker and broadcasts: a client that sees a live
\* event of a subscription has seen that subscription's EOSE.
THEOREM LiveOnlyAfterEOSE == Spec => []LiveAfterEOSE
  <1>1. Init => LiveInv
    BY DEF Init, LiveInv, DoneHasEOSE, LiveAfterEOSE, NoEntry, NewEntry
  <1>2. TypeOK /\ LiveInv /\ [Next]_vars => LiveInv'
    BY LiveNext
  <1>3. LiveInv => LiveAfterEOSE
    BY DEF LiveInv
  <1> QED BY <1>1, <1>2, <1>3, TypeCorrect, PTL DEF Spec

-----------------------------------------------------------------------------
(* Generations: what a step does to the frames sent and to the entries. *)

\* A step that adds no entry sends frames fs, of entries that were open, to one
\* connection c; it may remove entries and closes the generation of each.
SendsOnly(c, fs) ==
    /\ wire' = [wire EXCEPT ![c] = @ \o fs]
    /\ nextGen' = nextGen
    /\ \A d \in Conns, t \in SubIDs : subs'[d][t].gen \in {0, subs[d][t].gen}
    /\ closed' = closed \cup {g \in Gens : \E d \in Conns, t \in SubIDs :
                                 subs[d][t].gen = g /\ subs'[d][t].gen = 0}
    /\ \A i \in 1 .. Len(fs) : /\ fs[i].gen = subs[c][fs[i].sub].gen
                               /\ fs[i].kind = "closed" => subs'[c][fs[i].sub].gen = 0
    /\ \A i, j \in 1 .. Len(fs) : i < j /\ fs[i].kind = "closed" => fs[i].sub # fs[j].sub

SomeSends == \E c \in Conns, fs \in Seq(Frames) : SendsOnly(c, fs)

\* An action that sends nothing and keeps every entry's generation.
LEMMA SendsNothing ==
  ASSUME TypeOK, UNCHANGED <<wire, nextGen, closed>>,
         \A d \in Conns, t \in SubIDs : subs'[d][t].gen = subs[d][t].gen
  PROVE  SomeSends
  <1>1. PICK c \in Conns : TRUE
    BY ConstantsAssumption
  <1>2. wire' = [wire EXCEPT ![c] = @ \o <<>>]
    <2>1. wire[c] \o <<>> = wire[c]
      BY DEF TypeOK
    <2> QED BY <2>1 DEF TypeOK
  <1>3. {g \in Gens : \E d \in Conns, t \in SubIDs : subs[d][t].gen = g /\ subs'[d][t].gen = 0} = {}
    BY ConstantsAssumption DEF Gens
  <1>4. <<>> \in Seq(Frames) /\ Len(<<>>) = 0
    BY EmptySeq
  <1>5. closed' = closed \cup {g \in Gens : \E d \in Conns, t \in SubIDs :
                                 subs[d][t].gen = g /\ subs'[d][t].gen = 0}
    BY <1>3, Zenon
  <1>6. nextGen' = nextGen /\ \A i \in 1 .. Len(<<>>) : FALSE
    BY <1>4
  <1>7. SendsOnly(c, <<>>)
    BY <1>2, <1>5, <1>6 DEF SendsOnly
  <1> QED BY <1>4, <1>7 DEF SomeSends

\* Enqueue appends a sequence of one frame.
LEMMA EnqueueConcat ==
  ASSUME TypeOK, NEW c \in Conns, NEW f \in Frames, Enqueue(c, f)
  PROVE  /\ wire' = [wire EXCEPT ![c] = @ \o <<f>>]
         /\ <<f>> \in Seq(Frames) /\ Len(<<f>>) = 1 /\ <<f>>[1] = f
  <1>1. wire[c] \in Seq(Frames)
    BY DEF TypeOK
  <1>2. Append(wire[c], f) = wire[c] \o <<f>>
    BY <1>1
  <1> QED BY <1>2 DEF Enqueue

\* An action that sends one frame, not CLOSED, of an entry it keeps.
LEMMA SendsOne ==
  ASSUME TypeOK, NEW c \in Conns, NEW f \in Frames, Enqueue(c, f),
         f.kind # "closed", f.gen = subs[c][f.sub].gen,
         UNCHANGED <<nextGen, closed>>,
         \A d \in Conns, t \in SubIDs : subs'[d][t].gen = subs[d][t].gen
  PROVE  SomeSends
  <1>1. /\ wire' = [wire EXCEPT ![c] = @ \o <<f>>]
        /\ <<f>> \in Seq(Frames) /\ Len(<<f>>) = 1 /\ <<f>>[1] = f
    BY EnqueueConcat
  <1>2. {g \in Gens : \E d \in Conns, t \in SubIDs : subs[d][t].gen = g /\ subs'[d][t].gen = 0} = {}
    BY ConstantsAssumption DEF Gens
  <1>3. SendsOnly(c, <<f>>)
    BY <1>1, <1>2 DEF SendsOnly
  <1> QED BY <1>1, <1>3 DEF SomeSends

\* removeLocked in the terms of SendsOnly.
LEMMA RemoveLockedGens ==
  ASSUME TypeOK, NEW c \in Conns, NEW s \in SubIDs, RemoveLocked(c, s)
  PROVE  /\ \A d \in Conns, t \in SubIDs :
               subs'[d][t].gen = IF d = c /\ t = s THEN 0 ELSE subs[d][t].gen
         /\ closed' = closed \cup {g \in Gens : \E d \in Conns, t \in SubIDs :
                                      subs[d][t].gen = g /\ subs'[d][t].gen = 0}
  <1>1. \A d \in Conns, t \in SubIDs :
           subs'[d][t].gen = IF d = c /\ t = s THEN 0 ELSE subs[d][t].gen
    BY DEF RemoveLocked, TypeOK, NoEntry, NewEntry
  <1>2. subs[c][s].gen \in 0 .. MaxGen
    BY DEF TypeOK, Entries
  <1>3. ASSUME NEW g \in Gens, NEW d \in Conns, NEW t \in SubIDs,
               subs[d][t].gen = g, subs'[d][t].gen = 0
        PROVE  g = subs[c][s].gen
    BY <1>1, <1>3, ConstantsAssumption DEF Gens
  <1>4. {subs[c][s].gen} \ {0} = {g \in Gens : \E d \in Conns, t \in SubIDs :
                                      subs[d][t].gen = g /\ subs'[d][t].gen = 0}
    <2>1. ASSUME NEW g \in {subs[c][s].gen} \ {0}
          PROVE  g \in Gens /\ subs[c][s].gen = g /\ subs'[c][s].gen = 0
      BY <1>1, <1>2, <2>1, ConstantsAssumption DEF Gens
    <2>2. ASSUME NEW g \in Gens PROVE g # 0
      BY <2>2, ConstantsAssumption DEF Gens
    <2> QED BY <1>3, <2>1, <2>2
  <1> QED BY <1>1, <1>4 DEF RemoveLocked

\* An action that removes an entry and says CLOSED, or has no room to say it.
LEMMA SendsRemove ==
  ASSUME TypeOK, NEW c \in Conns, NEW s \in SubIDs, RemoveLocked(c, s),
         subs[c][s].gen # 0, UNCHANGED nextGen,
         Enqueue(c, Frame("closed", s, subs[c][s].gen, 0)) \/ UNCHANGED wire
  PROVE  SomeSends
  <1> DEFINE f == Frame("closed", s, subs[c][s].gen, 0)
  <1>1. /\ \A d \in Conns, t \in SubIDs :
               subs'[d][t].gen = IF d = c /\ t = s THEN 0 ELSE subs[d][t].gen
        /\ closed' = closed \cup {g \in Gens : \E d \in Conns, t \in SubIDs :
                                      subs[d][t].gen = g /\ subs'[d][t].gen = 0}
    BY RemoveLockedGens
  <1>2. CASE UNCHANGED wire
    <2>1. wire' = [wire EXCEPT ![c] = @ \o <<>>]
      <3>1. wire[c] \o <<>> = wire[c]
        BY DEF TypeOK
      <3> QED BY <1>2, <3>1 DEF TypeOK
    <2>2. <<>> \in Seq(Frames) /\ Len(<<>>) = 0
      BY EmptySeq
    <2>3. SendsOnly(c, <<>>)
      BY <1>1, <2>1, <2>2 DEF SendsOnly
    <2> QED BY <2>2, <2>3 DEF SomeSends
  <1>3. CASE Enqueue(c, f)
    <2>1. f \in Frames
      <3>1. subs[c][s].gen \in 0 .. MaxGen
        BY DEF TypeOK, Entries
      <3>2. subs[c][s].gen \in Gens
        BY <3>1, ConstantsAssumption DEF Gens
      <3> QED BY <3>2, FrameType, ConstantsAssumption
    <2>2. f.sub = s /\ f.gen = subs[c][s].gen
      BY DEF Frame
    <2> HIDE DEF f
    <2>3. /\ wire' = [wire EXCEPT ![c] = @ \o <<f>>]
          /\ <<f>> \in Seq(Frames) /\ Len(<<f>>) = 1 /\ <<f>>[1] = f
      BY <1>3, <2>1, EnqueueConcat
    <2>4. SendsOnly(c, <<f>>)
      BY <1>1, <2>2, <2>3 DEF SendsOnly
    <2> QED BY <2>3, <2>4 DEF SomeSends
  <1> QED BY <1>2, <1>3

\* The frames of completeSnapshot: EOSE, then the buffered live events in their
\* order; all of them, or the connection is shut down.
LEMMA CompleteFrames ==
  ASSUME TypeOK, NEW a \in Actors, CompleteSnapshot(a)
  PROVE  /\ job[a].conn \in Conns /\ job[a].sub \in SubIDs /\ job[a].gen \in Gens
         /\ job[a].gen = subs[job[a].conn][job[a].sub].gen
         /\ \E fs \in Seq(Frames) :
               /\ wire' = [wire EXCEPT ![job[a].conn] = @ \o fs]
               /\ Len(fs) >= 1 /\ fs[1].kind = "eose" /\ fs[1].ev = 0
               /\ \A i \in 1 .. Len(fs) : /\ fs[i].gen = job[a].gen
                                          /\ fs[i].sub = job[a].sub
               /\ \A i \in 2 .. Len(fs) :
                     /\ fs[i].kind = "live"
                     /\ i - 1 \in DOMAIN subs[job[a].conn][job[a].sub].pending
                     /\ fs[i].ev = subs[job[a].conn][job[a].sub].pending[i - 1]
               /\ \/ Len(fs) = Len(subs[job[a].conn][job[a].sub].pending) + 1
                  \/ job[a].conn \in cancelled'
  <1> DEFINE c  == job[a].conn
             s  == job[a].sub
             g  == job[a].gen
             lf == LiveFrames(s, subs[c][s])
             fs == <<Frame("eose", s, g, 0)>> \o lf
             n  == IF Room(c) < Len(fs) THEN Room(c) ELSE Len(fs)
             b  == SubSeq(fs, 1, n)
             pd == subs[c][s].pending
  <1>1. c \in Conns /\ s \in SubIDs
    BY DEF TypeOK, Jobs
  <1>2. g \in Gens /\ g = subs[c][s].gen
    BY <1>1, SameSnapshotGen DEF CompleteSnapshot
  <1>3. /\ lf \in Seq(Frames) /\ Len(lf) = Len(pd)
        /\ \A i \in 1 .. Len(lf) : lf[i].gen = g /\ lf[i].sub = s /\ lf[i].ev = pd[i]
    BY <1>1, <1>2, LiveFramesType
  <1>4. \A i \in 1 .. Len(lf) : lf[i].kind = "live"
    <2>1. pd \in Seq(Events)
      BY <1>1 DEF TypeOK, Entries
    <2> QED BY <1>3, <2>1 DEF LiveFrames, Frame
  <1>5. /\ Frame("eose", s, g, 0) \in Frames /\ Frame("eose", s, g, 0).gen = g
        /\ Frame("eose", s, g, 0).sub = s /\ Frame("eose", s, g, 0).kind = "eose"
        /\ Frame("eose", s, g, 0).ev = 0
    BY <1>1, <1>2, FrameType, ConstantsAssumption DEF Frame
  <1>6. pd \in Seq(Events)
    BY <1>1 DEF TypeOK, Entries
  <1>7. Room(c) \in Nat /\ Room(c) > 0
    <2>1. Room(c) \in 0 .. SendCap
      <3> HIDE DEF c
      <3> QED BY <1>1, ConstantsAssumption DEF Room, TypeOK
    <2>2. Room(c) > 0
      BY DEF CompleteSnapshot
    <2> QED BY <2>1, <2>2, ConstantsAssumption
  <1>8. /\ wire' = [wire EXCEPT ![c] = @ \o b]
        /\ cancelled' = IF n < Len(fs) THEN cancelled \cup {c} ELSE cancelled
    BY DEF CompleteSnapshot
  <1> HIDE DEF c, s, g, lf, pd
  <1>9. /\ fs \in Seq(Frames) /\ Len(fs) = Len(pd) + 1 /\ Len(pd) \in Nat
        /\ fs[1] = Frame("eose", s, g, 0)
        /\ \A i \in 2 .. Len(fs) : fs[i] = lf[i - 1]
    BY <1>3, <1>5, <1>6
  <1> HIDE DEF fs
  <1>10. /\ b \in Seq(Frames) /\ Len(b) = n /\ n \in Nat /\ n >= 1 /\ n <= Len(fs)
         /\ \A i \in 1 .. n : b[i] = fs[i]
    BY <1>7, <1>9
  <1>11. n = Len(pd) + 1 \/ c \in cancelled'
    BY <1>8, <1>9, <1>10
  <1>12. ASSUME NEW i \in 2 .. Len(b)
         PROVE  /\ b[i].kind = "live" /\ b[i].gen = g /\ b[i].sub = s
                /\ i - 1 \in DOMAIN pd /\ b[i].ev = pd[i - 1]
    <2>1. i - 1 \in 1 .. Len(pd) /\ b[i] = lf[i - 1]
      BY <1>9, <1>10
    <2>2. DOMAIN pd = 1 .. Len(pd)
      BY <1>6
    <2> QED BY <1>3, <1>4, <2>1, <2>2
  <1>13. b[1] = Frame("eose", s, g, 0)
    BY <1>9, <1>10
  <1> HIDE DEF b, n
  <1>14. \A i \in 1 .. Len(b) : b[i].gen = g /\ b[i].sub = s
    BY <1>5, <1>10, <1>12, <1>13
  <1>15. \E ff \in Seq(Frames) :
               /\ wire' = [wire EXCEPT ![c] = @ \o ff]
               /\ Len(ff) >= 1 /\ ff[1].kind = "eose" /\ ff[1].ev = 0
               /\ \A i \in 1 .. Len(ff) : ff[i].gen = g /\ ff[i].sub = s
               /\ \A i \in 2 .. Len(ff) : /\ ff[i].kind = "live"
                                          /\ i - 1 \in DOMAIN pd
                                          /\ ff[i].ev = pd[i - 1]
               /\ Len(ff) = Len(pd) + 1 \/ c \in cancelled'
    <2>1. b \in Seq(Frames)
      BY <1>10
    <2> HIDE DEF b
    <2> QED BY <2>1, <1>5, <1>8, <1>10, <1>11, <1>12, <1>13, <1>14
  <1> QED BY <1>1, <1>2, <1>15 DEF c, s, g, pd

\* completeSnapshot in the terms of SendsOnly.
LEMMA SendsComplete ==
  ASSUME TypeOK, NEW a \in Actors, CompleteSnapshot(a)
  PROVE  SomeSends
  <1> DEFINE c == job[a].conn
             s == job[a].sub
  <1>1. /\ c \in Conns /\ s \in SubIDs
        /\ job[a].gen = subs[c][s].gen
        /\ \E fs \in Seq(Frames) :
               /\ wire' = [wire EXCEPT ![c] = @ \o fs]
               /\ Len(fs) >= 1 /\ fs[1].kind = "eose"
               /\ \A i \in 1 .. Len(fs) : fs[i].gen = job[a].gen /\ fs[i].sub = s
               /\ \A i \in 2 .. Len(fs) : fs[i].kind = "live"
    BY CompleteFrames
  <1>2. PICK fs \in Seq(Frames) :
               /\ wire' = [wire EXCEPT ![c] = @ \o fs]
               /\ Len(fs) >= 1 /\ fs[1].kind = "eose"
               /\ \A i \in 1 .. Len(fs) : fs[i].gen = job[a].gen /\ fs[i].sub = s
               /\ \A i \in 2 .. Len(fs) : fs[i].kind = "live"
    BY <1>1
  <1>3. /\ subs' = [subs EXCEPT ![c][s] = [@ EXCEPT !.done = TRUE, !.pending = <<>>]]
        /\ UNCHANGED <<nextGen, closed>>
    BY DEF CompleteSnapshot
  <1> HIDE DEF c, s
  <1>4. \A d \in Conns, t \in SubIDs : subs'[d][t].gen = subs[d][t].gen
    BY <1>1, <1>3 DEF TypeOK, Entries
  <1>5. {g \in Gens : \E d \in Conns, t \in SubIDs : subs[d][t].gen = g /\ subs'[d][t].gen = 0} = {}
    BY <1>4, ConstantsAssumption DEF Gens
  <1>6. closed' = closed \cup {g \in Gens : \E d \in Conns, t \in SubIDs :
                                 subs[d][t].gen = g /\ subs'[d][t].gen = 0}
    BY <1>3, <1>5, Zenon
  <1>7. \A i \in 1 .. Len(fs) : fs[i].kind # "closed"
    BY <1>2
  <1>8. SendsOnly(c, fs)
    BY <1>1, <1>2, <1>3, <1>4, <1>6, <1>7 DEF SendsOnly
  <1> QED BY <1>1, <1>8 DEF SomeSends

\* Teardown removes every entry of its connection.
LEMMA SendsTeardown ==
  ASSUME TypeOK, NEW c \in Conns, Teardown(c)
  PROVE  SomeSends
  <1>1. PICK fs \in Seq(Frames) :
            /\ wire' = [wire EXCEPT ![c] = @ \o fs]
            /\ queued' = [queued EXCEPT ![c] = @ + Len(fs)]
            /\ Len(fs) <= Room(c)
            /\ \A i \in 1 .. Len(fs) : /\ fs[i].kind = "closed"
                                       /\ fs[i].ev = 0
                                       /\ fs[i].gen = subs[c][fs[i].sub].gen
            /\ \A i, j \in 1 .. Len(fs) : fs[i].sub = fs[j].sub => i = j
    BY TeardownFrames
  <1>2. /\ subs' = [subs EXCEPT ![c] = [s \in SubIDs |-> NoEntry]]
        /\ closed' = closed \cup {subs[c][s].gen : s \in OpenSubs(c)}
        /\ UNCHANGED nextGen
    BY DEF Teardown
  <1>3. \A d \in Conns, t \in SubIDs :
            subs'[d][t].gen = IF d = c THEN 0 ELSE subs[d][t].gen
    BY <1>2 DEF TypeOK, NoEntry, NewEntry
  <1>4. {subs[c][s].gen : s \in OpenSubs(c)} =
            {g \in Gens : \E d \in Conns, t \in SubIDs : subs[d][t].gen = g /\ subs'[d][t].gen = 0}
    <2>1. ASSUME NEW s \in OpenSubs(c)
          PROVE  s \in SubIDs /\ subs[c][s].gen \in Gens /\ subs'[c][s].gen = 0
      <3>1. s \in SubIDs /\ subs[c][s].gen # 0 /\ subs[c][s].gen \in 0 .. MaxGen
        BY DEF OpenSubs, TypeOK, Entries
      <3> QED BY <1>3, <3>1, ConstantsAssumption DEF Gens
    <2>2. ASSUME NEW g \in Gens, NEW d \in Conns, NEW t \in SubIDs,
                 subs[d][t].gen = g, subs'[d][t].gen = 0
          PROVE  d = c /\ t \in OpenSubs(c)
      <3>1. g # 0
        BY ConstantsAssumption DEF Gens
      <3> QED BY <1>3, <2>2, <3>1 DEF OpenSubs
    <2> QED BY <2>1, <2>2
  <1>5. \A i \in 1 .. Len(fs) : fs[i] \in Frames /\ fs[i].sub \in SubIDs
    <2>1. \A f \in Frames : f.sub \in SubIDs
      BY DEF Frames
    <2>2. \A i \in 1 .. Len(fs) : fs[i] \in Frames
      BY <1>1
    <2> QED BY <2>1, <2>2
  <1>6. SendsOnly(c, fs)
    <2>1. \A i \in 1 .. Len(fs) : /\ fs[i].gen = subs[c][fs[i].sub].gen
                                  /\ fs[i].kind = "closed" => subs'[c][fs[i].sub].gen = 0
      BY <1>1, <1>3, <1>5
    <2>2. \A i, j \in 1 .. Len(fs) : i < j /\ fs[i].kind = "closed" => fs[i].sub # fs[j].sub
      BY <1>1
    <2>3. \A d \in Conns, t \in SubIDs : subs'[d][t].gen \in {0, subs[d][t].gen}
      BY <1>3
    <2>4. wire' = [wire EXCEPT ![c] = @ \o fs]
      BY <1>1
    <2>5. closed' = closed \cup {g \in Gens : \E d \in Conns, t \in SubIDs :
                                     subs[d][t].gen = g /\ subs'[d][t].gen = 0}
      BY <1>2, <1>4
    <2>6. nextGen' = nextGen
      BY <1>2
    <2> QED BY <2>1, <2>2, <2>3, <2>4, <2>5, <2>6 DEF SendsOnly
  <1> QED BY <1>6 DEF SomeSends

\* Every step adds an entry or is as SendsOnly says.
LEMMA StepSends ==
  ASSUME TypeOK, [Next]_vars
  PROVE  SomeSends \/ \E c \in Conns, s \in SubIDs, f \in Filters : ReqAdd(c, s, f)
  <1> DEFINE Kept == \A d \in Conns, t \in SubIDs : subs'[d][t].gen = subs[d][t].gen
             Goal == SomeSends \/ \E c \in Conns, s \in SubIDs, f \in Filters : ReqAdd(c, s, f)
  <1> SUFFICES Goal
    OBVIOUS
  <1>1. ASSUME UNCHANGED <<wire, nextGen, closed>>, Kept PROVE Goal
    BY <1>1, SendsNothing
  <1>2. ASSUME UNCHANGED <<wire, nextGen, closed, subs>> PROVE Goal
    BY <1>2, <1>1
  <1>3. ASSUME NEW a \in Actors, Snapshot(a) PROVE Goal
    <2> DEFINE c == job[a].conn
               s == job[a].sub
    <2>1. c \in Conns /\ s \in SubIDs /\ subs[c][s] \in Entries
      BY DEF TypeOK, Jobs
    <2>2. CASE CloseOnQueryError(a)
      <3>1. CASE SameSnapshot(c, s, job[a].gen)
        <4>1. /\ job[a].gen = subs[c][s].gen /\ subs[c][s].gen # 0
              /\ RemoveLocked(c, s) /\ UNCHANGED nextGen
              /\ Enqueue(c, Frame("closed", s, job[a].gen, 0)) \/ UNCHANGED wire
          BY <2>2, <3>1 DEF CloseOnQueryError, SameSnapshot, EnqueueFails
        <4> HIDE DEF c, s
        <4> QED BY <2>1, <4>1, SendsRemove
      <3>2. CASE ~SameSnapshot(c, s, job[a].gen)
        BY <1>2, <2>2, <3>2 DEF CloseOnQueryError
      <3> QED BY <3>1, <3>2
    <2>3. ASSUME NEW e \in Events, SendEvent(a, e) PROVE Goal
      <3> DEFINE f == Frame("snap", s, job[a].gen, e)
      <3>1. /\ f \in Frames /\ f.kind # "closed" /\ f.sub = s /\ f.gen = subs[c][s].gen
        BY <2>1, <2>3, SameSnapshotGen, FrameType, EventsInRange DEF SendEvent, Frame
      <3>2. UNCHANGED <<nextGen, closed>> /\ Kept
        <4>1. CASE UNCHANGED subs
          BY <2>3, <4>1 DEF SendEvent
        <4>2. CASE subs' = [subs EXCEPT ![c][s].skipped = TRUE]
          <5>1. Kept
            BY <2>1, <4>2 DEF TypeOK, Entries
          <5> QED BY <2>3, <5>1 DEF SendEvent
        <4> QED BY <2>3, <4>1, <4>2 DEF SendEvent
      <3>3. Enqueue(c, f) \/ UNCHANGED wire
        BY <2>3 DEF SendEvent, EnqueueFails
      <3> HIDE DEF f, c, s
      <3> QED BY <1>1, <2>1, <3>1, <3>2, <3>3, SendsOne
    <2>4. CASE CompleteLost(a)
      BY <1>1, <2>1, <2>4 DEF CompleteLost, TypeOK, Entries, out
    <2> QED BY <1>2, <1>3, <2>2, <2>3, <2>4, SendsComplete
           DEF Snapshot, FetchPage, FetchFails, SendInvisible, SendVisible, SendStops, PageSent,
               EnqueueJob, DrainNext, CompleteStale, mgr, out
  <1>4. ASSUME NEW c \in Conns, Client(c) PROVE Goal
    <2>1. ASSUME NEW s \in SubIDs, CloseSend(c, s) PROVE Goal
      <3> DEFINE f == Frame("ack", s, subs[c][s].gen, 0)
      <3>1. subs[c][s].gen \in Gens
        <4>1. subs[c][s].gen \in 0 .. MaxGen /\ subs[c][s].gen # 0
          BY <2>1 DEF TypeOK, Entries, CloseSend
        <4> QED BY <4>1, ConstantsAssumption DEF Gens
      <3>2. f \in Frames /\ f.kind # "closed" /\ f.sub = s /\ f.gen = subs[c][s].gen
        BY <3>1, FrameType, ConstantsAssumption DEF Frame
      <3>3. UNCHANGED <<subs, nextGen, closed>> /\ (Enqueue(c, f) \/ UNCHANGED wire)
        BY <2>1 DEF CloseSend, EnqueueFails, mgr
      <3> HIDE DEF f
      <3> QED BY <1>2, <3>2, <3>3, SendsOne
    <2>2. ASSUME SwitchIdentity(c) PROVE Goal
      BY <1>1, <2>2 DEF SwitchIdentity, Withholding, TypeOK, Entries, out
    <2> QED BY <1>2, <1>4, <2>1, <2>2 DEF Client, RegisterSender, Authenticate, OtherFrame, mgr, out
  <1>5. ASSUME NEW c \in Conns, ReadLoop(c) PROVE Goal
    <2>1. CASE CloseRemove(c)
      <3> DEFINE s == job[c].sub
      <3>1. s \in SubIDs /\ RemoveLocked(c, s) /\ UNCHANGED <<nextGen, wire>>
        BY <2>1 DEF CloseRemove, TypeOK, Actors, Jobs, out
      <3> HIDE DEF s
      <3>2. CASE subs[c][s].gen # 0
        BY <3>1, <3>2, SendsRemove
      <3>3. CASE subs[c][s].gen = 0
        <4>1. Kept
          BY <3>1, <3>3, RemoveLockedGens
        <4>2. UNCHANGED closed
          BY <3>1, <3>3 DEF RemoveLocked
        <4> QED BY <1>1, <3>1, <4>1, <4>2
      <3> QED BY <3>2, <3>3
    <2> QED BY <1>2, <1>3, <1>5, <2>1 DEF ReadLoop, ReqGeneration, ReqNote, CloseNote, Actors,
                                          mgr, out
  <1>6. ASSUME NEW e \in Events, Broadcast(e) PROVE Goal
    <2>1. ASSUME NEW t \in Targets, DeliverBuffered(e, t) PROVE Goal
      <3>1. t.conn \in Conns /\ t.sub \in SubIDs /\ subs[t.conn][t.sub] \in Entries
        BY DEF Targets, TypeOK
      <3> QED BY <1>1, <2>1, <3>1 DEF DeliverBuffered, TypeOK, Entries, out
    <2>2. ASSUME NEW t \in Targets, DeliverOverflow(e, t) PROVE Goal
      <3>1. t.conn \in Conns /\ t.sub \in SubIDs
        BY DEF Targets
      <3>2. /\ t.gen = subs[t.conn][t.sub].gen /\ subs[t.conn][t.sub].gen # 0
            /\ RemoveLocked(t.conn, t.sub) /\ UNCHANGED nextGen
            /\ Enqueue(t.conn, Frame("closed", t.sub, t.gen, 0)) \/ UNCHANGED wire
        BY <2>2 DEF DeliverOverflow, SameSnapshot, EnqueueSubscriptionFrame, EnqueueFails
      <3> QED BY <3>1, <3>2, SendsRemove
    <2>3. ASSUME NEW t \in Targets, DeliverLive(e, t) PROVE Goal
      <3> DEFINE f == Frame("live", t.sub, t.gen, e)
      <3>1. t.conn \in Conns /\ t.sub \in SubIDs /\ t.gen \in Gens
        BY DEF Targets
      <3>2. /\ f \in Frames /\ f.kind # "closed" /\ f.sub = t.sub /\ f.gen = t.gen
            /\ t.gen = subs[t.conn][t.sub].gen
        BY <2>3, <3>1, SameSnapshotGen, FrameType, EventsInRange DEF DeliverLive, Frame
      <3>3. /\ UNCHANGED <<subs, nextGen, closed>>
            /\ Enqueue(t.conn, f) \/ UNCHANGED wire
        BY <2>3 DEF DeliverLive, EnqueueSubscriptionFrame, EnqueueFails, mgr
      <3> HIDE DEF f
      <3> QED BY <1>2, <3>1, <3>2, <3>3, SendsOne
    <2> QED BY <1>2, <1>6, <2>1, <2>2, <2>3 DEF Broadcast, BroadcastMatch, BroadcastConn,
                                                DeliverStale, mgr, out
  <1>7. ASSUME NEW e \in Events, SaveEvent(e) PROVE Goal
    BY <1>2, <1>7 DEF SaveEvent, mgr, out
  <1>8. ASSUME ReaderQueue PROVE Goal
    BY <1>2, <1>3, <1>8 DEF ReaderQueue, WorkerTake, Actors, mgr, out
  <1>9. ASSUME NEW c \in Conns, WriteFrame(c) \/ WriteFails(c) \/ SweepIdle(c) PROVE Goal
    BY <1>2, <1>9 DEF WriteFrame, WriteFails, SweepIdle, mgr, out
  <1>10. CASE UNCHANGED vars
    BY <1>2, <1>10 DEF vars, mgr, out
  <1> QED BY <1>4, <1>5, <1>6, <1>7, <1>8, <1>9, <1>10, SendsTeardown DEF Next

-----------------------------------------------------------------------------
(* Frames keep the order of generations, and nothing follows a CLOSED. *)

\* Generations are given out in order; one in the map is open and has one place.
GensAgree ==
    /\ \A g \in closed : g <= nextGen
    /\ \A c \in Conns, s \in SubIDs : /\ subs[c][s].gen <= nextGen
                                      /\ subs[c][s].gen \notin closed
    /\ \A c, d \in Conns : \A s, t \in SubIDs :
          subs[c][s].gen # 0 /\ subs[c][s].gen = subs[d][t].gen => c = d /\ s = t

\* The generation of a frame that was sent is closed or still in the map, the
\* entry of its id is not older, and a CLOSED frame's generation is closed.
FramesAgree ==
    \A c \in Conns : \A i \in DOMAIN wire[c] :
       /\ wire[c][i].gen \in closed \/ wire[c][i].gen = subs[c][wire[c][i].sub].gen
       /\ subs[c][wire[c][i].sub].gen # 0 => wire[c][i].gen <= subs[c][wire[c][i].sub].gen
       /\ wire[c][i].kind = "closed" => wire[c][i].gen \in closed

\* Inductive: the two properties say nothing about the entries that decide
\* what may be sent next.
GenInv == GensAgree /\ FramesAgree /\ GenerationsInOrder /\ ClosedIsFinal

\* A step that adds no entry keeps the order.
LEMMA GenSends ==
  ASSUME TypeOK, GenInv, NEW c \in Conns, NEW fs \in Seq(Frames), SendsOnly(c, fs)
  PROVE  GenInv'
  <1> DEFINE w == wire[c]
  <1>1. /\ w \in Seq(Frames) /\ Len(w) \in Nat /\ Len(fs) \in Nat
        /\ DOMAIN w = 1 .. Len(w)
        /\ DOMAIN wire'[c] = 1 .. Len(w) + Len(fs)
        /\ \A i \in 1 .. Len(w) : wire'[c][i] = w[i]
        /\ \A i \in 1 .. Len(fs) : wire'[c][Len(w) + i] = fs[i]
        /\ \A d \in Conns : d # c => wire'[d] = wire[d]
    BY ConcatAppends DEF SendsOnly
  <1>2. \A d \in Conns : \A i \in DOMAIN wire[d] :
            /\ wire[d][i].sub \in SubIDs /\ wire[d][i].gen \in Gens
    <2>1. \A f \in Frames : f.sub \in SubIDs /\ f.gen \in Gens
      BY DEF Frames
    <2>2. \A d \in Conns : \A i \in DOMAIN wire[d] : wire[d][i] \in Frames
      BY DEF TypeOK
    <2> QED BY <2>1, <2>2
  <1>3. \A i \in 1 .. Len(fs) : fs[i].sub \in SubIDs /\ fs[i].gen \in Gens
    <2>1. \A f \in Frames : f.sub \in SubIDs /\ f.gen \in Gens
      BY DEF Frames
    <2>2. \A i \in 1 .. Len(fs) : fs[i] \in Frames
      OBVIOUS
    <2> QED BY <2>1, <2>2
  <1>4. \A g \in Gens : g \in Nat /\ g # 0
    BY ConstantsAssumption DEF Gens
  <1>5. \A d \in Conns, t \in SubIDs : /\ subs[d][t].gen \in 0 .. MaxGen
                                       /\ subs'[d][t].gen \in {0, subs[d][t].gen}
    BY DEF TypeOK, Entries, SendsOnly
  <1>6. /\ closed \subseteq closed'
        /\ \A g \in closed' \ closed : \E d \in Conns, t \in SubIDs :
              subs[d][t].gen = g /\ subs'[d][t].gen = 0
        /\ \A d \in Conns, t \in SubIDs :
              subs'[d][t].gen = subs[d][t].gen \/ subs[d][t].gen \in closed'
        /\ 0 \notin closed'
    <2>1. \A d \in Conns, t \in SubIDs :
              subs'[d][t].gen # subs[d][t].gen => subs[d][t].gen \in Gens /\ subs'[d][t].gen = 0
      BY <1>5, ConstantsAssumption DEF Gens
    <2>2. 0 \notin Gens /\ closed \subseteq Gens
      BY <1>4 DEF TypeOK
    <2>3. closed' = closed \cup {g \in Gens : \E d \in Conns, t \in SubIDs :
                                 subs[d][t].gen = g /\ subs'[d][t].gen = 0}
      BY DEF SendsOnly
    <2> QED BY <2>1, <2>2, <2>3
  <1>7. GensAgree'
    <2>1. nextGen \in Nat /\ nextGen' = nextGen
      BY ConstantsAssumption DEF TypeOK, SendsOnly
    <2>2. \A g \in closed' : g <= nextGen
      BY <1>6 DEF GenInv, GensAgree
    <2>3. ASSUME NEW d \in Conns, NEW t \in SubIDs
          PROVE  subs'[d][t].gen <= nextGen /\ subs'[d][t].gen \notin closed'
      <3>1. CASE subs'[d][t].gen = 0
        BY <1>6, <2>1, <3>1
      <3>2. CASE subs'[d][t].gen # 0 /\ subs'[d][t].gen = subs[d][t].gen
        <4>1. subs[d][t].gen <= nextGen /\ subs[d][t].gen \notin closed
          BY DEF GenInv, GensAgree
        <4>2. SUFFICES ASSUME subs[d][t].gen \in closed' PROVE FALSE
          BY <3>2, <4>1
        <4>3. PICK e \in Conns, u \in SubIDs : subs[e][u].gen = subs[d][t].gen /\ subs'[e][u].gen = 0
          BY <1>6, <4>1, <4>2
        <4>4. e = d /\ u = t
          BY <3>2, <4>3 DEF GenInv, GensAgree
        <4> QED BY <3>2, <4>3, <4>4
      <3> QED BY <1>5, <3>1, <3>2
    <2>4. ASSUME NEW d \in Conns, NEW e \in Conns, NEW t \in SubIDs, NEW u \in SubIDs,
                 subs'[d][t].gen # 0, subs'[d][t].gen = subs'[e][u].gen
          PROVE  d = e /\ t = u
      <3>1. subs'[d][t].gen = subs[d][t].gen /\ subs'[e][u].gen = subs[e][u].gen
        BY <1>5, <2>4
      <3>2. subs[d][t].gen # 0 /\ subs[d][t].gen = subs[e][u].gen
        BY <2>4, <3>1
      <3>3. \A d1, d2 \in Conns : \A t1, t2 \in SubIDs :
               subs[d1][t1].gen # 0 /\ subs[d1][t1].gen = subs[d2][t2].gen => d1 = d2 /\ t1 = t2
        BY DEF GenInv, GensAgree
      <3> QED BY <3>2, <3>3
    <2> QED BY <2>1, <2>2, <2>3, <2>4 DEF GensAgree
  <1>8. ASSUME NEW d \in Conns, NEW i \in DOMAIN wire[d]
        PROVE  /\ wire[d][i].gen \in closed' \/ wire[d][i].gen = subs'[d][wire[d][i].sub].gen
               /\ subs'[d][wire[d][i].sub].gen # 0 => wire[d][i].gen <= subs'[d][wire[d][i].sub].gen
               /\ wire[d][i].kind = "closed" => wire[d][i].gen \in closed'
    <2> DEFINE t == wire[d][i].sub
    <2>1. t \in SubIDs
      BY <1>2
    <2>2. /\ wire[d][i].gen \in closed \/ wire[d][i].gen = subs[d][t].gen
          /\ subs[d][t].gen # 0 => wire[d][i].gen <= subs[d][t].gen
          /\ wire[d][i].kind = "closed" => wire[d][i].gen \in closed
      BY DEF GenInv, FramesAgree
    <2> HIDE DEF t
    <2>3. subs'[d][t].gen = subs[d][t].gen \/ (subs[d][t].gen \in closed' /\ subs'[d][t].gen = 0)
      BY <1>5, <1>6, <2>1
    <2>4. wire[d][i].gen \in closed' \/ wire[d][i].gen = subs'[d][t].gen
      BY <1>6, <2>2, <2>3
    <2> QED BY <1>6, <2>2, <2>3, <2>4 DEF t
  <1>9. ASSUME NEW i \in 1 .. Len(fs)
        PROVE  /\ fs[i].gen = subs[c][fs[i].sub].gen
               /\ fs[i].gen \in closed' \/ fs[i].gen = subs'[c][fs[i].sub].gen
               /\ subs'[c][fs[i].sub].gen # 0 => fs[i].gen <= subs'[c][fs[i].sub].gen
               /\ fs[i].kind = "closed" => fs[i].gen \in closed'
    <2> DEFINE t == fs[i].sub
    <2>1. t \in SubIDs /\ fs[i].gen \in Nat /\ fs[i].gen # 0
      BY <1>3, <1>4
    <2>2. fs[i].gen = subs[c][t].gen /\ (fs[i].kind = "closed" => subs'[c][t].gen = 0)
      BY DEF SendsOnly
    <2>3. subs'[c][t].gen = subs[c][t].gen \/ (subs[c][t].gen \in closed' /\ subs'[c][t].gen = 0)
      BY <1>5, <1>6, <2>1
    <2> QED BY <2>1, <2>2, <2>3
  <1>10. ASSUME NEW d \in Conns, NEW i \in DOMAIN wire'[d]
         PROVE  \/ i \in DOMAIN wire[d] /\ wire'[d][i] = wire[d][i]
                \/ d = c /\ \E k \in 1 .. Len(fs) : i = Len(w) + k /\ wire'[d][i] = fs[k]
    <2>1. CASE d # c
      BY <1>1, <2>1
    <2>2. CASE d = c /\ i <= Len(w)
      BY <1>1, <2>2
    <2>3. CASE d = c /\ ~(i <= Len(w))
      <3> DEFINE k == i - Len(w)
      <3>1. k \in 1 .. Len(fs) /\ i = Len(w) + k
        BY <1>1, <2>3
      <3> QED BY <1>1, <2>3, <3>1
    <2> QED BY <2>1, <2>2, <2>3
  <1>11. FramesAgree'
    <2> SUFFICES ASSUME NEW d \in Conns, NEW i \in DOMAIN wire'[d]
                 PROVE  LET f == wire'[d][i]
                        IN  /\ f.gen \in closed' \/ f.gen = subs'[d][f.sub].gen
                            /\ subs'[d][f.sub].gen # 0 => f.gen <= subs'[d][f.sub].gen
                            /\ f.kind = "closed" => f.gen \in closed'
      BY DEF FramesAgree
    <2> QED BY <1>8, <1>9, <1>10
  <1>12. GenerationsInOrder'
    <2> SUFFICES ASSUME NEW d \in Conns, NEW i \in DOMAIN wire'[d], NEW j \in DOMAIN wire'[d],
                        i < j, wire'[d][i].sub = wire'[d][j].sub
                 PROVE  wire'[d][i].gen <= wire'[d][j].gen
      BY DEF GenerationsInOrder
    <2>1. CASE j \in DOMAIN wire[d] /\ wire'[d][j] = wire[d][j]
      <3>1. i \in DOMAIN wire[d] /\ wire'[d][i] = wire[d][i]
        <4>1. CASE d = c
          <5>1. i \in 1 .. Len(w) + Len(fs) /\ j \in 1 .. Len(w)
            BY <1>1, <2>1, <4>1
          <5>2. i \in 1 .. Len(w)
            BY <1>1, <5>1
          <5> QED BY <1>1, <4>1, <5>2
        <4>2. CASE d # c
          BY <1>1, <4>2
        <4> QED BY <4>1, <4>2
      <3> QED BY <2>1, <3>1 DEF GenInv, GenerationsInOrder
    <2>2. CASE d = c /\ \E k \in 1 .. Len(fs) : j = Len(w) + k /\ wire'[d][j] = fs[k]
      <3>1. PICK k \in 1 .. Len(fs) : j = Len(w) + k /\ wire'[d][j] = fs[k]
        BY <2>2
      <3>2. fs[k].gen = subs[c][fs[k].sub].gen /\ fs[k].gen \in Nat /\ fs[k].gen # 0
        BY <1>3, <1>4, <1>9
      <3>3. CASE i \in DOMAIN wire[d] /\ wire'[d][i] = wire[d][i]
        BY <2>2, <3>1, <3>2, <3>3 DEF GenInv, FramesAgree
      <3>4. CASE \E l \in 1 .. Len(fs) : i = Len(w) + l /\ wire'[d][i] = fs[l]
        BY <1>9, <3>1, <3>2, <3>4
      <3> QED BY <1>10, <3>3, <3>4
    <2> QED BY <1>10, <2>1, <2>2
  <1>13. ClosedIsFinal'
    <2> SUFFICES ASSUME NEW d \in Conns, NEW i \in DOMAIN wire'[d], NEW j \in DOMAIN wire'[d],
                        i < j, wire'[d][i].kind = "closed"
                 PROVE  wire'[d][i].gen # wire'[d][j].gen
      BY DEF ClosedIsFinal
    <2>1. CASE j \in DOMAIN wire[d] /\ wire'[d][j] = wire[d][j]
      <3>1. i \in DOMAIN wire[d] /\ wire'[d][i] = wire[d][i]
        <4>1. CASE d = c
          <5>1. i \in 1 .. Len(w) + Len(fs) /\ j \in 1 .. Len(w)
            BY <1>1, <2>1, <4>1
          <5>2. i \in 1 .. Len(w)
            BY <1>1, <5>1
          <5> QED BY <1>1, <4>1, <5>2
        <4>2. CASE d # c
          BY <1>1, <4>2
        <4> QED BY <4>1, <4>2
      <3> QED BY <2>1, <3>1 DEF GenInv, ClosedIsFinal
    <2>2. CASE d = c /\ \E k \in 1 .. Len(fs) : j = Len(w) + k /\ wire'[d][j] = fs[k]
      <3>1. PICK k \in 1 .. Len(fs) : j = Len(w) + k /\ wire'[d][j] = fs[k]
        BY <2>2
      <3>2. fs[k].gen = subs[c][fs[k].sub].gen /\ fs[k].sub \in SubIDs /\ fs[k].gen # 0
        BY <1>3, <1>4, <1>9
      <3>3. fs[k].gen \notin closed
        BY <3>2 DEF GenInv, GensAgree
      <3>4. CASE i \in DOMAIN wire[d] /\ wire'[d][i] = wire[d][i]
        BY <3>1, <3>3, <3>4 DEF GenInv, FramesAgree
      <3>5. CASE \E l \in 1 .. Len(fs) : i = Len(w) + l /\ wire'[d][i] = fs[l]
        <4>1. PICK l \in 1 .. Len(fs) : i = Len(w) + l /\ wire'[d][i] = fs[l]
          BY <3>5
        <4>2. l < k
          BY <1>1, <3>1, <4>1
        <4>3. fs[l].sub # fs[k].sub /\ fs[l].gen = subs[c][fs[l].sub].gen /\ fs[l].sub \in SubIDs
          BY <1>3, <1>9, <3>1, <4>1, <4>2 DEF SendsOnly
        <4> QED BY <3>1, <3>2, <4>1, <4>3 DEF GenInv, GensAgree
      <3> QED BY <1>10, <3>4, <3>5
    <2> QED BY <1>10, <2>1, <2>2
  <1> QED BY <1>7, <1>11, <1>12, <1>13 DEF GenInv

\* A new entry has a generation nobody has seen, and closes the one it replaces.
LEMMA GenReqAdd ==
  ASSUME TypeOK, GenInv, NEW c \in Conns, NEW s \in SubIDs, NEW f \in Filters, ReqAdd(c, s, f)
  PROVE  GenInv'
  <1>1. /\ nextGen' = nextGen + 1 /\ nextGen \in Nat
        /\ closed' = closed \cup ({subs[c][s].gen} \ {0})
        /\ UNCHANGED wire
    BY ConstantsAssumption DEF ReqAdd, TypeOK, out
  <1>2. \A d \in Conns, t \in SubIDs :
            subs'[d][t].gen = IF d = c /\ t = s THEN nextGen + 1 ELSE subs[d][t].gen
    BY DEF ReqAdd, TypeOK, NewEntry
  <1>3. \A d \in Conns, t \in SubIDs : subs[d][t].gen \in Nat
    <2>1. \A d \in Conns, t \in SubIDs : subs[d][t].gen \in 0 .. MaxGen
      BY DEF TypeOK, Entries
    <2> QED BY <2>1, ConstantsAssumption
  <1>4. \A g \in closed' : g \in Nat /\ g # 0 /\ g <= nextGen
    <2>1. \A g \in closed : g \in Nat /\ g # 0
      BY ConstantsAssumption DEF TypeOK, Gens
    <2> QED BY <1>1, <1>3, <2>1 DEF GenInv, GensAgree
  <1>5. \A d1, d2 \in Conns : \A t1, t2 \in SubIDs :
            subs[d1][t1].gen # 0 /\ subs[d1][t1].gen = subs[d2][t2].gen => d1 = d2 /\ t1 = t2
    BY DEF GenInv, GensAgree
  <1>6. \A d \in Conns, t \in SubIDs : subs[d][t].gen <= nextGen /\ subs[d][t].gen \notin closed
    BY DEF GenInv, GensAgree
  <1>7. GensAgree'
    <2>1. \A g \in closed' : g <= nextGen'
      BY <1>1, <1>4
    <2>2. ASSUME NEW d \in Conns, NEW t \in SubIDs
          PROVE  subs'[d][t].gen <= nextGen' /\ subs'[d][t].gen \notin closed'
      <3>1. CASE d = c /\ t = s
        BY <1>1, <1>2, <1>4, <3>1
      <3>2. CASE ~(d = c /\ t = s)
        <4>1. subs'[d][t].gen = subs[d][t].gen
          BY <1>2, <3>2
        <4>2. subs[d][t].gen # 0 => subs[d][t].gen # subs[c][s].gen
          BY <1>5, <3>2
        <4> QED BY <1>1, <1>3, <1>6, <4>1, <4>2
      <3> QED BY <3>1, <3>2
    <2>3. ASSUME NEW d \in Conns, NEW e \in Conns, NEW t \in SubIDs, NEW u \in SubIDs,
                 subs'[d][t].gen # 0, subs'[d][t].gen = subs'[e][u].gen
          PROVE  d = e /\ t = u
      <3>1. subs[d][t].gen # nextGen + 1 /\ subs[e][u].gen # nextGen + 1
        BY <1>1, <1>3, <1>6
      <3> QED BY <1>2, <1>5, <2>3, <3>1
    <2> QED BY <2>1, <2>2, <2>3 DEF GensAgree
  <1>8. FramesAgree'
    <2> SUFFICES ASSUME NEW d \in Conns, NEW i \in DOMAIN wire[d]
                 PROVE  LET g == wire[d][i]
                        IN  /\ g.gen \in closed' \/ g.gen = subs'[d][g.sub].gen
                            /\ subs'[d][g.sub].gen # 0 => g.gen <= subs'[d][g.sub].gen
                            /\ g.kind = "closed" => g.gen \in closed'
      BY <1>1 DEF FramesAgree
    <2> DEFINE t == wire[d][i].sub
               n == wire[d][i].gen
    <2>1. t \in SubIDs /\ n \in Nat /\ n # 0
      <3>1. \A h \in Frames : h.sub \in SubIDs /\ h.gen \in Gens
        BY DEF Frames
      <3>2. wire[d][i] \in Frames
        BY DEF TypeOK
      <3> QED BY <3>1, <3>2, ConstantsAssumption DEF Gens
    <2>2. /\ n \in closed \/ n = subs[d][t].gen
          /\ subs[d][t].gen # 0 => n <= subs[d][t].gen
          /\ wire[d][i].kind = "closed" => n \in closed
      BY DEF GenInv, FramesAgree
    <2>3. n <= nextGen
      BY <1>4, <1>1, <1>6, <2>1, <2>2
    <2> HIDE DEF t, n
    <2>4. CASE d = c /\ t = s
      <3>1. n \in closed'
        BY <1>1, <2>1, <2>2, <2>4
      <3>2. subs'[d][t].gen = nextGen + 1
        BY <1>2, <2>1, <2>4
      <3> QED BY <1>1, <2>1, <2>3, <3>1, <3>2 DEF t, n
    <2>5. CASE ~(d = c /\ t = s)
      <3>1. subs'[d][t].gen = subs[d][t].gen
        BY <1>2, <2>1, <2>5
      <3> QED BY <1>1, <2>2, <3>1 DEF t, n
    <2> QED BY <2>4, <2>5
  <1>9. GenerationsInOrder' /\ ClosedIsFinal'
    BY <1>1 DEF GenInv, GenerationsInOrder, ClosedIsFinal
  <1> QED BY <1>7, <1>8, <1>9 DEF GenInv

\* The manager and its frames keep their order of generations for ever.
THEOREM GenerationsCorrect == Spec => []GenInv
  <1>1. Init => GenInv
    BY ConstantsAssumption DEF Init, GenInv, GensAgree, FramesAgree, GenerationsInOrder,
       ClosedIsFinal, NoEntry, NewEntry
  <1>2. TypeOK /\ GenInv /\ [Next]_vars => GenInv'
    BY StepSends, GenSends, GenReqAdd DEF SomeSends
  <1> QED BY <1>1, <1>2, TypeCorrect, PTL DEF Spec

\* Once the relay has said CLOSED for a subscription, because a query failed, its
\* live buffer overflowed or its connection was torn down, it sends nothing more
\* of that generation, whatever page jobs and broadcasts are still under way.
THEOREM NothingAfterClosed == Spec => []ClosedIsFinal
  <1>1. GenInv => ClosedIsFinal
    BY DEF GenInv
  <1> QED BY <1>1, GenerationsCorrect, PTL

-----------------------------------------------------------------------------
(* Each snapshot is in one hand, and ends at its EOSE. *)

\* What a goroutine's place in the code says of the generation it holds.
HandsAgree ==
    /\ \A a \in Actors : /\ job[a].gen <= nextGen
                         /\ pc[a] \in {"idle", "gen", "remove", "noteClose"} => job[a].gen = 0
                         /\ pc[a] \in {"enqueue", "drain", "complete"} => job[a].gen # 0
    /\ \A i \in DOMAIN jobs : jobs[i].gen # 0 /\ jobs[i].gen <= nextGen
    /\ pc[Worker] \notin {"gen", "note", "remove", "noteClose"}

\* No two hold the same generation, be it a goroutine or a place in the queue.
HandsApart ==
    /\ \A a, b \in Actors : a # b /\ job[a].gen # 0 => job[a].gen # job[b].gen
    /\ \A a \in Actors : \A i \in DOMAIN jobs : job[a].gen # jobs[i].gen
    /\ \A i, j \in DOMAIN jobs : i # j => jobs[i].gen # jobs[j].gen

\* Nobody has begun the snapshot of generation g.
Fresh(g) ==
    /\ \A a \in Actors : job[a].gen # g
    /\ \A i \in DOMAIN jobs : jobs[i].gen # g
    /\ \A d \in Conns : ~HasEOSE(wire[d], g)

\* Between Add and SubGeneration nobody else works for the new entry.
NewIsFresh ==
    \A c \in Conns : pc[c] = "gen" /\ subs[c][job[c].sub].gen # 0
                        => Fresh(subs[c][job[c].sub].gen)

\* A snapshot in somebody's hands has had no EOSE.
HeldNotEnded ==
    \A d \in Conns : /\ \A a \in Actors : ~HasEOSE(wire[d], job[a].gen)
                     /\ \A i \in DOMAIN jobs : ~HasEOSE(wire[d], jobs[i].gen)

\* Inductive: OneOwner does not follow a job from Add through the queue.
OwnInv == HandsAgree /\ HandsApart /\ NewIsFresh /\ HeldNotEnded /\ SnapshotEndsAtEOSE

\* A step that sends no EOSE, and pages only of snapshots somebody holds.
PlainWire ==
    /\ SnapshotEndsAtEOSE'
    /\ \A d \in Conns : \A g \in 0 .. MaxGen : HasEOSE(wire'[d], g) => HasEOSE(wire[d], g)

\* Frames of any other kind, or pages in somebody's hands, are plain.
LEMMA PlainFrames ==
  ASSUME TypeOK, OwnInv, NEW c \in Conns, NEW fs \in Seq(Frames),
         wire' = [wire EXCEPT ![c] = @ \o fs],
         \A k \in 1 .. Len(fs) : /\ fs[k].kind # "eose"
                                 /\ fs[k].kind = "snap" => \E a \in Actors : job[a].gen = fs[k].gen
  PROVE  PlainWire
  <1> DEFINE w == wire[c]
  <1>1. /\ w \in Seq(Frames) /\ Len(w) \in Nat /\ Len(fs) \in Nat
        /\ DOMAIN w = 1 .. Len(w)
        /\ DOMAIN wire'[c] = 1 .. Len(w) + Len(fs)
        /\ \A i \in 1 .. Len(w) : wire'[c][i] = w[i]
        /\ \A i \in 1 .. Len(fs) : wire'[c][Len(w) + i] = fs[i]
        /\ \A d \in Conns : d # c => wire'[d] = wire[d]
    BY ConcatAppends
  <1>2. ASSUME NEW d \in Conns, NEW i \in DOMAIN wire'[d]
        PROVE  \/ i \in DOMAIN wire[d] /\ wire'[d][i] = wire[d][i]
               \/ d = c /\ \E k \in 1 .. Len(fs) : i = Len(w) + k /\ wire'[d][i] = fs[k]
    <2>1. CASE d # c
      BY <1>1, <2>1
    <2>2. CASE d = c /\ i <= Len(w)
      BY <1>1, <2>2
    <2>3. CASE d = c /\ ~(i <= Len(w))
      <3> DEFINE k == i - Len(w)
      <3>1. k \in 1 .. Len(fs) /\ i = Len(w) + k
        BY <1>1, <2>3
      <3> QED BY <1>1, <2>3, <3>1
    <2> QED BY <2>1, <2>2, <2>3
  <1>3. ASSUME NEW d \in Conns, NEW i \in DOMAIN wire'[d], wire'[d][i].kind = "eose"
        PROVE  i \in DOMAIN wire[d] /\ wire'[d][i] = wire[d][i]
    BY <1>2, <1>3
  <1>4. \A d \in Conns : \A g \in 0 .. MaxGen : HasEOSE(wire'[d], g) => HasEOSE(wire[d], g)
    BY <1>3 DEF HasEOSE
  <1>5. SnapshotEndsAtEOSE'
    <2> SUFFICES ASSUME NEW d \in Conns, NEW i \in DOMAIN wire'[d], NEW j \in DOMAIN wire'[d],
                        i < j, wire'[d][i].kind = "eose", wire'[d][j].kind \in {"snap", "eose"}
                 PROVE  wire'[d][i].gen # wire'[d][j].gen
      BY SMTT(30) DEF SnapshotEndsAtEOSE
    <2>1. i \in DOMAIN wire[d] /\ wire'[d][i] = wire[d][i]
      BY <1>3
    <2>2. CASE j \in DOMAIN wire[d] /\ wire'[d][j] = wire[d][j]
      BY <2>1, <2>2 DEF OwnInv, SnapshotEndsAtEOSE
    <2>3. CASE d = c /\ \E k \in 1 .. Len(fs) : j = Len(w) + k /\ wire'[d][j] = fs[k]
      <3>1. PICK a \in Actors : job[a].gen = wire'[d][j].gen
        BY <2>3
      <3>2. ~HasEOSE(wire[d], job[a].gen)
        BY DEF OwnInv, HeldNotEnded
      <3> QED BY <2>1, <3>1, <3>2 DEF HasEOSE
    <2> QED BY <1>2, <2>2, <2>3
  <1> QED BY <1>4, <1>5 DEF PlainWire

\* One frame at most.
LEMMA PlainEnqueue ==
  ASSUME TypeOK, OwnInv, NEW c \in Conns, NEW f \in Frames, Enqueue(c, f) \/ UNCHANGED wire,
         f.kind # "eose",
         f.kind = "snap" => \E a \in Actors : job[a].gen = f.gen
  PROVE  PlainWire
  <1>1. CASE UNCHANGED wire
    BY <1>1 DEF PlainWire, OwnInv, SnapshotEndsAtEOSE, HasEOSE
  <1>2. CASE Enqueue(c, f)
    <2>1. /\ wire' = [wire EXCEPT ![c] = @ \o <<f>>]
          /\ <<f>> \in Seq(Frames) /\ Len(<<f>>) = 1 /\ <<f>>[1] = f
      BY <1>2, EnqueueConcat
    <2>2. \A k \in 1 .. Len(<<f>>) :
             /\ <<f>>[k].kind # "eose"
             /\ <<f>>[k].kind = "snap" => \E a \in Actors : job[a].gen = <<f>>[k].gen
      BY <2>1
    <2> QED BY <2>1, <2>2, PlainFrames
  <1> QED BY <1>1, <1>2

\* Nothing sent.
LEMMA PlainSilent ==
  ASSUME OwnInv, UNCHANGED wire
  PROVE  PlainWire
  BY DEF PlainWire, OwnInv, SnapshotEndsAtEOSE, HasEOSE

\* What SomeSends says of the entries.
LEMMA SendsEntries ==
  ASSUME SomeSends
  PROVE  /\ nextGen' = nextGen
         /\ \A d \in Conns, t \in SubIDs : subs'[d][t].gen \in {0, subs[d][t].gen}
  BY DEF SomeSends, SendsOnly

\* Nobody takes or drops a generation, and no read loop enters "gen".
LEMMA OwnKeeps ==
  ASSUME TypeOK, OwnInv, PlainWire, HandsAgree',
         \A a \in Actors : job'[a].gen \in {0, job[a].gen},
         UNCHANGED jobs,
         \A c \in Conns : pc'[c] = "gen" => pc[c] = "gen" /\ job'[c].sub = job[c].sub,
         \A d \in Conns, t \in SubIDs : subs'[d][t].gen \in {0, subs[d][t].gen}
  PROVE  OwnInv'
  <1>1. \A a \in Actors : job[a] \in Jobs /\ job[a].gen \in 0 .. MaxGen /\ job[a].sub \in SubIDs
    BY DEF TypeOK, Jobs
  <1>2. \A i \in DOMAIN jobs : jobs[i].gen \in 0 .. MaxGen
    <2>1. \A j \in Jobs : j.gen \in 0 .. MaxGen
      BY DEF Jobs
    <2>2. \A i \in DOMAIN jobs : jobs[i] \in Jobs
      BY DEF TypeOK
    <2> QED BY <2>1, <2>2
  <1>3. \A d \in Conns : ~HasEOSE(wire[d], 0)
    <2>1. \A f \in Frames : f.gen # 0
      BY ConstantsAssumption DEF Frames, Gens
    <2>2. \A d \in Conns : \A i \in DOMAIN wire[d] : wire[d][i] \in Frames
      BY DEF TypeOK
    <2> QED BY <2>1, <2>2 DEF HasEOSE
  <1>4. HandsApart'
    <2>1. ASSUME NEW a \in Actors, NEW b \in Actors, a # b, job'[a].gen # 0
          PROVE  job'[a].gen # job'[b].gen
      <3>1. job'[a].gen = job[a].gen
        BY <2>1
      <3>2. job[a].gen # job[b].gen
        BY <2>1, <3>1 DEF OwnInv, HandsApart
      <3> QED BY <2>1, <3>1, <3>2
    <2>2. ASSUME NEW a \in Actors, NEW i \in DOMAIN jobs
          PROVE  job'[a].gen # jobs[i].gen
      BY DEF OwnInv, HandsApart, HandsAgree
    <2>3. \A i, j \in DOMAIN jobs : i # j => jobs[i].gen # jobs[j].gen
      BY DEF OwnInv, HandsApart
    <2> QED BY <2>1, <2>2, <2>3 DEF HandsApart
  <1>5. NewIsFresh'
    <2> SUFFICES ASSUME NEW c \in Conns, pc'[c] = "gen", subs'[c][job'[c].sub].gen # 0
                 PROVE  /\ \A a \in Actors : job'[a].gen # subs'[c][job'[c].sub].gen
                        /\ \A i \in DOMAIN jobs' : jobs'[i].gen # subs'[c][job'[c].sub].gen
                        /\ \A d \in Conns : ~HasEOSE(wire'[d], subs'[c][job'[c].sub].gen)
      BY DEF NewIsFresh, Fresh, HasEOSE
    <2> DEFINE g == subs[c][job[c].sub].gen
    <2>1. pc[c] = "gen" /\ job'[c].sub = job[c].sub /\ job[c].sub \in SubIDs /\ c \in Actors
      BY <1>1 DEF Actors
    <2>2. subs'[c][job'[c].sub].gen = g /\ g # 0
      BY <2>1
    <2>3. Fresh(g)
      BY <2>1, <2>2 DEF OwnInv, NewIsFresh
    <2>4. g \in 0 .. MaxGen
      BY <2>1 DEF TypeOK, Entries
    <2> HIDE DEF g
    <2>5. /\ \A a \in Actors : job'[a].gen # g
          /\ \A i \in DOMAIN jobs' : jobs'[i].gen # g
          /\ \A d \in Conns : ~HasEOSE(wire'[d], g)
      BY <2>2, <2>3, <2>4 DEF Fresh, PlainWire
    <2> QED BY <2>2, <2>5
  <1>6. HeldNotEnded'
    <2>1. ASSUME NEW d \in Conns, NEW a \in Actors PROVE ~HasEOSE(wire'[d], job'[a].gen)
      <3>1. ~HasEOSE(wire[d], job'[a].gen) /\ job'[a].gen \in 0 .. MaxGen
        BY <1>1, <1>3, ConstantsAssumption DEF OwnInv, HeldNotEnded
      <3> QED BY <3>1 DEF PlainWire
    <2>2. ASSUME NEW d \in Conns, NEW i \in DOMAIN jobs PROVE ~HasEOSE(wire'[d], jobs[i].gen)
      BY <1>2 DEF OwnInv, HeldNotEnded, PlainWire
    <2> QED BY <2>1, <2>2 DEF HeldNotEnded, HasEOSE
  <1> QED BY <1>4, <1>5, <1>6 DEF OwnInv, PlainWire

\* One goroutine moves on; it keeps the generation it holds or lets go of it.
MovesOn(a) ==
    /\ UNCHANGED <<nextGen, jobs>>
    /\ \A b \in Actors \ {a} : pc'[b] = pc[b] /\ job'[b] = job[b]
    /\ job'[a].gen \in {0, job[a].gen}
    /\ pc'[a] # "gen"
    /\ pc'[a] \in {"idle", "remove", "noteClose"} => job'[a].gen = 0
    /\ pc'[a] \in {"enqueue", "drain", "complete"} => job'[a].gen # 0
    /\ a = Worker => pc'[a] \notin {"note", "remove", "noteClose"}

\* Such a step keeps the hands apart.
LEMMA OwnMovesOn ==
  ASSUME TypeOK, OwnInv, PlainWire, SomeSends, NEW a \in Actors, MovesOn(a)
  PROVE  OwnInv'
  <1>1. \A d \in Conns, t \in SubIDs : subs'[d][t].gen \in {0, subs[d][t].gen}
    BY SendsEntries
  <1>2. \A b \in Actors : job'[b].gen \in {0, job[b].gen}
    BY DEF MovesOn
  <1>3. HandsAgree'
    <2>1. nextGen \in Nat
      BY ConstantsAssumption DEF TypeOK
    <2>2. ASSUME NEW b \in Actors
          PROVE  /\ job'[b].gen <= nextGen'
                 /\ pc'[b] \in {"idle", "gen", "remove", "noteClose"} => job'[b].gen = 0
                 /\ pc'[b] \in {"enqueue", "drain", "complete"} => job'[b].gen # 0
      BY <2>1 DEF OwnInv, HandsAgree, MovesOn
    <2>3. \A i \in DOMAIN jobs' : jobs'[i].gen # 0 /\ jobs'[i].gen <= nextGen'
      BY DEF OwnInv, HandsAgree, MovesOn
    <2>4. pc'[Worker] \notin {"gen", "note", "remove", "noteClose"}
      BY DEF OwnInv, HandsAgree, MovesOn, Actors
    <2> QED BY <2>2, <2>3, <2>4 DEF HandsAgree
  <1>4. \A c \in Conns : pc'[c] = "gen" => pc[c] = "gen" /\ job'[c].sub = job[c].sub
    BY DEF MovesOn, Actors
  <1> QED BY <1>1, <1>2, <1>3, <1>4, OwnKeeps DEF MovesOn

\* No goroutine moves.
LEMMA OwnStill ==
  ASSUME TypeOK, OwnInv, PlainWire, SomeSends, UNCHANGED tasks
  PROVE  OwnInv'
  <1>1. UNCHANGED <<pc, job, jobs, nextGen>>
    BY SendsEntries DEF tasks
  <1>2. HandsAgree'
    BY <1>1 DEF OwnInv, HandsAgree
  <1> QED BY <1>1, <1>2, SendsEntries, OwnKeeps

\* The handler returns.
LEMMA ReturnMovesOn ==
  ASSUME TypeOK, NEW a \in Actors, Return(a), UNCHANGED <<nextGen, jobs>>
  PROVE  MovesOn(a)
  <1>1. /\ \A b \in Actors \ {a} : pc'[b] = pc[b] /\ job'[b] = job[b]
        /\ pc'[a] = "idle" /\ job'[a] = NoJob
    BY DEF Return, TypeOK
  <1>2. NoJob.gen = 0
    BY DEF NoJob, NewJob
  <1> QED BY <1>1, <1>2 DEF MovesOn

\* The steps of one snapshot, but for the two that hand it on or end it.
LEMMA OwnSnapshot ==
  ASSUME TypeOK, OwnInv, SomeSends, NEW a \in Actors, Snapshot(a),
         ~EnqueueJob(a), ~CompleteSnapshot(a)
  PROVE  OwnInv'
  <1> DEFINE c == job[a].conn
             s == job[a].sub
             g == job[a].gen
  <1>1. c \in Conns /\ s \in SubIDs /\ job[a] \in Jobs
    BY DEF TypeOK, Jobs
  <1>2. ASSUME Return(a), UNCHANGED <<jobs, wire>> PROVE OwnInv'
    BY <1>2, ReturnMovesOn, PlainSilent, SendsEntries, OwnMovesOn
  <1>3. CASE FetchPage(a) \/ FetchFails(a)
    <2>1. \A b \in Actors \ {a} : pc'[b] = pc[b] /\ job'[b] = job[b]
      BY <1>3 DEF FetchPage, FetchFails, Goto, TypeOK
    <2>2. job'[a].gen = job[a].gen
      <3>1. Fetched(job[a]).gen = job[a].gen
        BY <1>1 DEF Fetched, Jobs
      <3>2. job'[a] = job[a] \/ job'[a] = Fetched(job[a])
        BY <1>3 DEF FetchPage, FetchFails, TypeOK
      <3> QED BY <3>1, <3>2
    <2>3. pc'[a] \in {"send", "qerr"} /\ UNCHANGED <<jobs, wire>>
      BY <1>3 DEF FetchPage, FetchFails, Goto, TypeOK, out
    <2>4. MovesOn(a)
      BY <2>1, <2>2, <2>3, SendsEntries DEF MovesOn
    <2> QED BY <2>3, <2>4, PlainSilent, OwnMovesOn
  <1>4. CASE CloseOnQueryError(a)
    <2>1. Return(a) /\ UNCHANGED jobs
      BY <1>4 DEF CloseOnQueryError
    <2>2. PlainWire
      <3>1. CASE SameSnapshot(c, s, g)
        <4> DEFINE f == Frame("closed", s, g, 0)
        <4>1. f \in Frames /\ f.kind = "closed"
          BY <1>1, <3>1, SameSnapshotGen, FrameType, ConstantsAssumption DEF Frame
        <4>2. Enqueue(c, f) \/ UNCHANGED wire
          BY <1>4, <3>1 DEF CloseOnQueryError, EnqueueFails
        <4> HIDE DEF f
        <4> QED BY <1>1, <4>1, <4>2, PlainEnqueue
      <3>2. CASE ~SameSnapshot(c, s, g)
        BY <1>4, <3>2, PlainSilent DEF CloseOnQueryError
      <3> QED BY <3>1, <3>2
    <2> QED BY <2>1, <2>2, ReturnMovesOn, SendsEntries, OwnMovesOn
  <1>5. ASSUME NEW e \in Events, SendInvisible(a, e) \/ SendVisible(a, e) PROVE OwnInv'
    <2>1. \A b \in Actors \ {a} : pc'[b] = pc[b] /\ job'[b] = job[b]
      BY <1>5 DEF SendInvisible, SendVisible, Goto, TypeOK
    <2>2. job'[a].gen = job[a].gen
      BY <1>1, <1>5 DEF SendInvisible, SendVisible, TypeOK, Jobs
    <2>3. pc'[a] \in {"send", "push"} /\ UNCHANGED <<jobs, wire>>
      BY <1>5 DEF SendInvisible, SendVisible, Goto, TypeOK, out
    <2>4. MovesOn(a)
      BY <2>1, <2>2, <2>3, SendsEntries DEF MovesOn
    <2> QED BY <2>3, <2>4, PlainSilent, OwnMovesOn
  <1>6. ASSUME NEW e \in Events, SendEvent(a, e) PROVE OwnInv'
    <2>1. \A b \in Actors \ {a} : pc'[b] = pc[b] /\ job'[b] = job[b]
      BY <1>6 DEF SendEvent, Goto, TypeOK
    <2>2. job'[a].gen = job[a].gen
      BY <1>1, <1>6 DEF SendEvent, TypeOK, Jobs
    <2>3. pc'[a] = "send" /\ UNCHANGED jobs
      BY <1>6 DEF SendEvent, Goto, TypeOK
    <2>4. MovesOn(a)
      BY <2>1, <2>2, <2>3, SendsEntries DEF MovesOn
    <2>5. PlainWire
      <3> DEFINE f == Frame("snap", s, g, e)
      <3>1. f \in Frames /\ f.kind = "snap" /\ f.gen = job[a].gen
        BY <1>1, <1>6, SameSnapshotGen, FrameType, EventsInRange DEF SendEvent, Frame
      <3>2. Enqueue(c, f) \/ UNCHANGED wire
        BY <1>6 DEF SendEvent, EnqueueFails
      <3> HIDE DEF f
      <3> QED BY <1>1, <3>1, <3>2, PlainEnqueue
    <2> QED BY <2>4, <2>5, OwnMovesOn
  <1>7. CASE PageSent(a)
    <2>1. /\ pc' = [pc EXCEPT ![a] = IF ~job[a].more THEN "complete"
                                     ELSE IF job[a].sync THEN "drain" ELSE "enqueue"]
          /\ UNCHANGED <<job, jobs, wire>>
          /\ g # 0
      BY <1>7 DEF PageSent, Goto, SameSnapshot, out
    <2>2. pc'[a] \in {"enqueue", "drain", "complete"} /\ \A b \in Actors \ {a} : pc'[b] = pc[b]
      BY <2>1 DEF TypeOK
    <2>3. MovesOn(a)
      BY <2>1, <2>2, SendsEntries DEF MovesOn
    <2> QED BY <2>1, <2>3, PlainSilent, OwnMovesOn
  <1>8. CASE DrainNext(a)
    <2>1. CASE Goto(a, "fetch") /\ UNCHANGED job
      <3>1. pc'[a] = "fetch" /\ \A b \in Actors \ {a} : pc'[b] = pc[b]
        BY <2>1 DEF Goto, TypeOK
      <3>2. UNCHANGED <<job, jobs, wire>>
        BY <1>8, <2>1 DEF DrainNext, out
      <3>3. MovesOn(a)
        BY <3>1, <3>2, SendsEntries DEF MovesOn
      <3> QED BY <3>2, <3>3, PlainSilent, OwnMovesOn
    <2> QED BY <1>2, <1>8, <2>1 DEF DrainNext, out
  <1>9. CASE SendStops(a) \/ CompleteLost(a) \/ CompleteStale(a)
    BY <1>2, <1>9 DEF SendStops, CompleteLost, CompleteStale, out
  <1> QED BY <1>3, <1>4, <1>5, <1>6, <1>7, <1>8, <1>9 DEF Snapshot

\* Generation 0 stands for no entry: no frame has it.
LEMMA NoEOSEOfZero ==
  ASSUME TypeOK
  PROVE  \A d \in Conns : ~HasEOSE(wire[d], 0)
  <1>1. \A f \in Frames : f.gen # 0
    BY ConstantsAssumption DEF Frames, Gens
  <1>2. \A d \in Conns : \A i \in DOMAIN wire[d] : wire[d][i] \in Frames
    BY DEF TypeOK
  <1> QED BY <1>1, <1>2 DEF HasEOSE

\* ReaderQueue.Enqueue hands the snapshot to the queue, or keeps it.
LEMMA OwnEnqueueJob ==
  ASSUME TypeOK, OwnInv, SomeSends, NEW a \in Actors, EnqueueJob(a)
  PROVE  OwnInv'
  <1>1. /\ pc[a] = "enqueue" /\ job[a] \in Jobs /\ job[a].gen # 0 /\ UNCHANGED <<subs, wire>>
        /\ nextGen' = nextGen
    BY SendsEntries DEF EnqueueJob, TypeOK, OwnInv, HandsAgree, mgr, out
  <1>2. CASE Len(jobs) < QueueCap
    <2>1. /\ jobs' = Append(jobs, job[a])
          /\ pc'[a] = "idle" /\ job'[a].gen = 0
          /\ \A b \in Actors \ {a} : pc'[b] = pc[b] /\ job'[b] = job[b]
      BY <1>2 DEF EnqueueJob, Return, TypeOK, NoJob, NewJob
    <2>2. /\ Len(jobs) \in Nat /\ DOMAIN jobs = 1 .. Len(jobs) /\ DOMAIN jobs' = 1 .. Len(jobs) + 1
          /\ \A i \in 1 .. Len(jobs) : jobs'[i] = jobs[i]
          /\ jobs'[Len(jobs) + 1] = job[a]
      <3>1. jobs \in Seq(Jobs)
        BY DEF TypeOK
      <3> QED BY <1>1, <2>1, <3>1
    <2>3. \A i \in DOMAIN jobs' : \/ i \in DOMAIN jobs /\ jobs'[i] = jobs[i]
                                  \/ i = Len(jobs) + 1 /\ jobs'[i] = job[a]
      BY <2>2
    <2>4. HandsAgree'
      <3>1. \A b \in Actors : /\ job'[b].gen <= nextGen'
                              /\ pc'[b] \in {"idle", "gen", "remove", "noteClose"} => job'[b].gen = 0
                              /\ pc'[b] \in {"enqueue", "drain", "complete"} => job'[b].gen # 0
        <4>1. nextGen \in Nat
          BY ConstantsAssumption DEF TypeOK
        <4> QED BY <1>1, <2>1, <4>1 DEF OwnInv, HandsAgree
      <3>2. \A i \in DOMAIN jobs' : jobs'[i].gen # 0 /\ jobs'[i].gen <= nextGen'
        BY <1>1, <2>3 DEF OwnInv, HandsAgree
      <3>3. pc'[Worker] \notin {"gen", "note", "remove", "noteClose"}
        BY <2>1 DEF OwnInv, HandsAgree, Actors
      <3> QED BY <3>1, <3>2, <3>3 DEF HandsAgree
    <2>5. HandsApart'
      <3>1. ASSUME NEW b \in Actors, NEW d \in Actors, b # d, job'[b].gen # 0
            PROVE  job'[b].gen # job'[d].gen
        BY <2>1, <3>1 DEF OwnInv, HandsApart
      <3>2. ASSUME NEW b \in Actors, NEW i \in DOMAIN jobs' PROVE job'[b].gen # jobs'[i].gen
        BY <1>1, <2>1, <2>3 DEF OwnInv, HandsApart, HandsAgree
      <3>3. ASSUME NEW i \in DOMAIN jobs', NEW j \in DOMAIN jobs', i # j
            PROVE  jobs'[i].gen # jobs'[j].gen
        BY <2>3, <3>3 DEF OwnInv, HandsApart
      <3> QED BY <3>1, <3>2, <3>3 DEF HandsApart
    <2>6. NewIsFresh'
      <3> SUFFICES ASSUME NEW c \in Conns, pc'[c] = "gen", subs'[c][job'[c].sub].gen # 0
                   PROVE  /\ \A b \in Actors : job'[b].gen # subs'[c][job'[c].sub].gen
                          /\ \A i \in DOMAIN jobs' : jobs'[i].gen # subs'[c][job'[c].sub].gen
                          /\ \A d \in Conns : ~HasEOSE(wire'[d], subs'[c][job'[c].sub].gen)
        BY DEF NewIsFresh, Fresh, HasEOSE
      <3>1. c \in Actors /\ c # a
        BY <2>1 DEF Actors
      <3>2. pc[c] = "gen" /\ job'[c] = job[c] /\ subs' = subs /\ wire' = wire
        BY <1>1, <2>1, <3>1
      <3>3. Fresh(subs[c][job[c].sub].gen)
        BY <3>2 DEF OwnInv, NewIsFresh
      <3> QED BY <2>1, <2>3, <3>2, <3>3 DEF Fresh
    <2>7. HeldNotEnded'
      <3>1. \A d \in Conns : ~HasEOSE(wire[d], 0)
        BY NoEOSEOfZero
      <3>2. ASSUME NEW d \in Conns, NEW b \in Actors PROVE ~HasEOSE(wire[d], job'[b].gen)
        BY <2>1, <3>1 DEF OwnInv, HeldNotEnded
      <3>3. ASSUME NEW d \in Conns, NEW i \in DOMAIN jobs' PROVE ~HasEOSE(wire[d], jobs'[i].gen)
        BY <2>3 DEF OwnInv, HeldNotEnded
      <3> QED BY <1>1, <3>2, <3>3 DEF HeldNotEnded, HasEOSE
    <2>8. SnapshotEndsAtEOSE'
      BY <1>1 DEF OwnInv, SnapshotEndsAtEOSE
    <2> QED BY <2>4, <2>5, <2>6, <2>7, <2>8 DEF OwnInv
  <1>3. CASE ~(Len(jobs) < QueueCap)
    <2>1. /\ job' = [job EXCEPT ![a].sync = TRUE]
          /\ pc' = [pc EXCEPT ![a] = "drain"]
          /\ UNCHANGED jobs
      BY <1>3 DEF EnqueueJob, Goto
    <2>2. /\ job'[a].gen = job[a].gen /\ pc'[a] = "drain"
          /\ \A b \in Actors \ {a} : pc'[b] = pc[b] /\ job'[b] = job[b]
      BY <1>1, <2>1 DEF TypeOK, Jobs
    <2>3. MovesOn(a)
      BY <1>1, <2>1, <2>2 DEF MovesOn
    <2> QED BY <1>1, <2>3, PlainSilent, OwnMovesOn
  <1> QED BY <1>2, <1>3

\* runJob takes the snapshot from the head of the queue, or drops it.
LEMMA OwnWorkerTake ==
  ASSUME TypeOK, OwnInv, SomeSends, WorkerTake
  PROVE  OwnInv'
  <1>1. /\ pc[Worker] = "idle" /\ jobs # <<>> /\ jobs' = Tail(jobs) /\ UNCHANGED <<subs, wire>>
        /\ nextGen' = nextGen /\ Worker \in Actors /\ job[Worker].gen = 0
    BY SendsEntries DEF WorkerTake, OwnInv, HandsAgree, mgr, out, Actors
  <1>2. /\ Len(jobs) \in Nat \ {0} /\ DOMAIN jobs = 1 .. Len(jobs) /\ 1 \in DOMAIN jobs
        /\ DOMAIN jobs' = 1 .. Len(jobs) - 1
        /\ \A i \in 1 .. Len(jobs) - 1 : jobs'[i] = jobs[i + 1]
        /\ Head(jobs) = jobs[1]
    <2>1. jobs \in Seq(Jobs)
      BY DEF TypeOK
    <2> QED BY <1>1, <2>1
  <1>3. \A i \in DOMAIN jobs' : i + 1 \in DOMAIN jobs /\ i + 1 # 1 /\ jobs'[i] = jobs[i + 1]
    BY <1>2
  <1>4. /\ \A b \in Actors \ {Worker} : pc'[b] = pc[b] /\ job'[b] = job[b]
        /\ \/ pc'[Worker] = "fetch" /\ job'[Worker] = jobs[1]
           \/ pc'[Worker] = "idle" /\ job'[Worker] = job[Worker]
    BY <1>1, <1>2 DEF WorkerTake, Goto, TypeOK
  <1>5. \A b \in Actors : \/ job'[b].gen = job[b].gen
                          \/ b = Worker /\ pc'[b] = "fetch" /\ job'[b].gen = jobs[1].gen
    BY <1>4
  <1>6. HandsAgree'
    <2>1. \A b \in Actors : /\ job'[b].gen <= nextGen'
                            /\ pc'[b] \in {"idle", "gen", "remove", "noteClose"} => job'[b].gen = 0
                            /\ pc'[b] \in {"enqueue", "drain", "complete"} => job'[b].gen # 0
      BY <1>1, <1>2, <1>4 DEF OwnInv, HandsAgree
    <2>2. \A i \in DOMAIN jobs' : jobs'[i].gen # 0 /\ jobs'[i].gen <= nextGen'
      BY <1>1, <1>3 DEF OwnInv, HandsAgree
    <2>3. pc'[Worker] \notin {"gen", "note", "remove", "noteClose"}
      BY <1>4
    <2> QED BY <2>1, <2>2, <2>3 DEF HandsAgree
  <1>7. HandsApart'
    <2>1. ASSUME NEW b \in Actors, NEW d \in Actors, b # d, job'[b].gen # 0
          PROVE  job'[b].gen # job'[d].gen
      BY <1>2, <1>5, <2>1 DEF OwnInv, HandsApart
    <2>2. ASSUME NEW b \in Actors, NEW i \in DOMAIN jobs' PROVE job'[b].gen # jobs'[i].gen
      <3>1. i + 1 \in DOMAIN jobs /\ i + 1 # 1 /\ jobs'[i] = jobs[i + 1]
        BY <1>3
      <3> QED BY <1>2, <1>5, <3>1 DEF OwnInv, HandsApart
    <2>3. ASSUME NEW i \in DOMAIN jobs', NEW j \in DOMAIN jobs', i # j
          PROVE  jobs'[i].gen # jobs'[j].gen
      <3>1. /\ i + 1 \in DOMAIN jobs /\ jobs'[i] = jobs[i + 1]
            /\ j + 1 \in DOMAIN jobs /\ jobs'[j] = jobs[j + 1]
            /\ i + 1 # j + 1
        BY <1>2, <1>3, <2>3
      <3> QED BY <3>1 DEF OwnInv, HandsApart
    <2> QED BY <2>1, <2>2, <2>3 DEF HandsApart
  <1>8. NewIsFresh'
    <2> SUFFICES ASSUME NEW c \in Conns, pc'[c] = "gen", subs'[c][job'[c].sub].gen # 0
                 PROVE  /\ \A b \in Actors : job'[b].gen # subs'[c][job'[c].sub].gen
                        /\ \A i \in DOMAIN jobs' : jobs'[i].gen # subs'[c][job'[c].sub].gen
                        /\ \A d \in Conns : ~HasEOSE(wire'[d], subs'[c][job'[c].sub].gen)
      BY DEF NewIsFresh, Fresh, HasEOSE
    <2>1. c \in Actors /\ c # Worker
      BY ConstantsAssumption DEF Actors
    <2>2. pc[c] = "gen" /\ job'[c] = job[c] /\ subs' = subs /\ wire' = wire
      BY <1>1, <1>4, <2>1
    <2>3. Fresh(subs[c][job[c].sub].gen)
      BY <2>2 DEF OwnInv, NewIsFresh
    <2> QED BY <1>2, <1>3, <1>5, <2>2, <2>3 DEF Fresh
  <1>9. HeldNotEnded'
    <2>1. ASSUME NEW d \in Conns, NEW b \in Actors PROVE ~HasEOSE(wire[d], job'[b].gen)
      BY <1>2, <1>5 DEF OwnInv, HeldNotEnded
    <2>2. ASSUME NEW d \in Conns, NEW i \in DOMAIN jobs' PROVE ~HasEOSE(wire[d], jobs'[i].gen)
      BY <1>3 DEF OwnInv, HeldNotEnded
    <2> QED BY <1>1, <2>1, <2>2 DEF HeldNotEnded, HasEOSE
  <1>10. SnapshotEndsAtEOSE'
    BY <1>1 DEF OwnInv, SnapshotEndsAtEOSE
  <1> QED BY <1>6, <1>7, <1>8, <1>9, <1>10 DEF OwnInv

\* completeSnapshot ends the snapshot that its goroutine holds.
LEMMA OwnCompleteSnapshot ==
  ASSUME TypeOK, OwnInv, SomeSends, NEW a \in Actors, CompleteSnapshot(a)
  PROVE  OwnInv'
  <1> DEFINE c == job[a].conn
             s == job[a].sub
             g == job[a].gen
             w == wire[c]
  <1>1. PICK fs \in Seq(Frames) :
               /\ wire' = [wire EXCEPT ![c] = @ \o fs]
               /\ Len(fs) >= 1 /\ fs[1].kind = "eose"
               /\ \A i \in 1 .. Len(fs) : fs[i].gen = g
               /\ \A i \in 2 .. Len(fs) : fs[i].kind = "live"
    BY CompleteFrames
  <1>2. c \in Conns /\ s \in SubIDs /\ g \in Gens /\ g # 0
    <2>1. c \in Conns /\ s \in SubIDs /\ g \in Gens
      BY CompleteFrames
    <2> QED BY <2>1, ConstantsAssumption DEF Gens
  <1>3. /\ pc'[a] = "idle" /\ job'[a].gen = 0 /\ UNCHANGED jobs
        /\ \A b \in Actors \ {a} : pc'[b] = pc[b] /\ job'[b] = job[b]
    BY DEF CompleteSnapshot, Return, TypeOK, NoJob, NewJob
  <1>4. nextGen' = nextGen /\ \A d \in Conns, t \in SubIDs : subs'[d][t].gen \in {0, subs[d][t].gen}
    BY SendsEntries
  <1>5. ~HasEOSE(w, g)
    BY <1>2 DEF OwnInv, HeldNotEnded
  <1> HIDE DEF c, s, g
  <1>6. /\ w \in Seq(Frames) /\ Len(w) \in Nat /\ Len(fs) \in Nat
        /\ DOMAIN w = 1 .. Len(w)
        /\ DOMAIN wire'[c] = 1 .. Len(w) + Len(fs)
        /\ \A i \in 1 .. Len(w) : wire'[c][i] = w[i]
        /\ \A i \in 1 .. Len(fs) : wire'[c][Len(w) + i] = fs[i]
        /\ \A d \in Conns : d # c => wire'[d] = wire[d]
    BY <1>1, <1>2, ConcatAppends
  <1>7. ASSUME NEW d \in Conns, NEW i \in DOMAIN wire'[d]
        PROVE  \/ i \in DOMAIN wire[d] /\ wire'[d][i] = wire[d][i]
               \/ /\ d = c /\ i > Len(w)
                  /\ wire'[d][i].gen = g
                  /\ i # Len(w) + 1 => wire'[d][i].kind = "live"
    <2>1. CASE d # c
      BY <1>6, <2>1
    <2>2. CASE d = c /\ i <= Len(w)
      BY <1>6, <2>2
    <2>3. CASE d = c /\ ~(i <= Len(w))
      <3> DEFINE k == i - Len(w)
      <3>1. k \in 1 .. Len(fs) /\ i = Len(w) + k /\ i > Len(w)
        BY <1>6, <2>3
      <3>2. wire'[d][i] = fs[k]
        BY <1>6, <2>3, <3>1
      <3>3. i # Len(w) + 1 => k \in 2 .. Len(fs)
        BY <1>6, <3>1
      <3> QED BY <1>1, <2>3, <3>1, <3>2, <3>3
    <2> QED BY <1>6, <2>1, <2>2, <2>3
  <1>8. ASSUME NEW d \in Conns, NEW h, HasEOSE(wire'[d], h), h # g
        PROVE  HasEOSE(wire[d], h)
    BY <1>7, <1>8 DEF HasEOSE
  <1>9. SnapshotEndsAtEOSE'
    <2> SUFFICES ASSUME NEW d \in Conns, NEW i \in DOMAIN wire'[d], NEW j \in DOMAIN wire'[d],
                        i < j, wire'[d][i].kind = "eose", wire'[d][j].kind \in {"snap", "eose"}
                 PROVE  wire'[d][i].gen # wire'[d][j].gen
      BY SMTT(30) DEF SnapshotEndsAtEOSE
    <2>1. CASE j \in DOMAIN wire[d] /\ wire'[d][j] = wire[d][j]
      <3>1. i \in DOMAIN wire[d] /\ wire'[d][i] = wire[d][i]
        <4>1. d = c => i \in Nat /\ j \in Nat /\ j <= Len(w)
          BY <1>6, <2>1
        <4> QED BY <1>6, <1>7, <2>1, <4>1
      <3> QED BY <2>1, <3>1 DEF OwnInv, SnapshotEndsAtEOSE
    <2>2. CASE d = c /\ j > Len(w) /\ wire'[d][j].gen = g /\ (j # Len(w) + 1 => wire'[d][j].kind = "live")
      <3>1. j = Len(w) + 1
        BY <2>2
      <3>2. i \in DOMAIN w /\ wire'[d][i] = w[i]
        <4>1. i \in 1 .. Len(w)
          BY <1>6, <2>2, <3>1
        <4> QED BY <1>6, <2>2, <4>1
      <3> QED BY <1>5, <2>2, <3>2 DEF HasEOSE
    <2> QED BY <1>7, <2>1, <2>2
  <1>10. HandsAgree'
    <2>1. nextGen \in Nat
      BY ConstantsAssumption DEF TypeOK
    <2>2. \A b \in Actors : /\ job'[b].gen <= nextGen'
                            /\ pc'[b] \in {"idle", "gen", "remove", "noteClose"} => job'[b].gen = 0
                            /\ pc'[b] \in {"enqueue", "drain", "complete"} => job'[b].gen # 0
      BY <1>3, <1>4, <2>1 DEF OwnInv, HandsAgree
    <2>3. \A i \in DOMAIN jobs' : jobs'[i].gen # 0 /\ jobs'[i].gen <= nextGen'
      BY <1>3, <1>4 DEF OwnInv, HandsAgree
    <2>4. pc'[Worker] \notin {"gen", "note", "remove", "noteClose"}
      BY <1>3 DEF OwnInv, HandsAgree, Actors
    <2> QED BY <2>2, <2>3, <2>4 DEF HandsAgree
  <1>11. /\ \A b \in Actors : job'[b].gen # g
         /\ \A i \in DOMAIN jobs : jobs[i].gen # g
    BY <1>2, <1>3 DEF OwnInv, HandsApart, g
  <1>12. HandsApart'
    <2>1. ASSUME NEW b \in Actors, NEW d \in Actors, b # d, job'[b].gen # 0
          PROVE  job'[b].gen # job'[d].gen
      BY <1>3, <2>1 DEF OwnInv, HandsApart
    <2>2. ASSUME NEW b \in Actors, NEW i \in DOMAIN jobs PROVE job'[b].gen # jobs[i].gen
      BY <1>3 DEF OwnInv, HandsApart, HandsAgree
    <2> QED BY <1>3, <2>1, <2>2 DEF HandsApart, OwnInv
  <1>13. NewIsFresh'
    <2> SUFFICES ASSUME NEW d \in Conns, pc'[d] = "gen", subs'[d][job'[d].sub].gen # 0
                 PROVE  /\ \A b \in Actors : job'[b].gen # subs'[d][job'[d].sub].gen
                        /\ \A i \in DOMAIN jobs' : jobs'[i].gen # subs'[d][job'[d].sub].gen
                        /\ \A e \in Conns : ~HasEOSE(wire'[e], subs'[d][job'[d].sub].gen)
      BY DEF NewIsFresh, Fresh, HasEOSE
    <2>1. d \in Actors /\ d # a /\ job[d].sub \in SubIDs
      BY <1>3 DEF Actors, TypeOK, Jobs
    <2>2. /\ pc[d] = "gen" /\ job'[d] = job[d]
          /\ subs'[d][job'[d].sub].gen = subs[d][job[d].sub].gen
      BY <1>3, <1>4, <2>1
    <2> DEFINE h == subs[d][job[d].sub].gen
    <2>3. Fresh(h)
      BY <2>2 DEF OwnInv, NewIsFresh
    <2>4. h # g
      BY <2>3 DEF Fresh, g
    <2> HIDE DEF h
    <2>5. /\ \A b \in Actors : job'[b].gen # h
          /\ \A i \in DOMAIN jobs' : jobs'[i].gen # h
          /\ \A e \in Conns : ~HasEOSE(wire'[e], h)
      <3>1. h # 0
        BY <2>2 DEF h
      <3> QED BY <1>3, <1>8, <2>3, <2>4, <3>1 DEF Fresh
    <2> QED BY <2>2, <2>5 DEF h
  <1>14. HeldNotEnded'
    <2>1. ASSUME NEW d \in Conns, NEW b \in Actors PROVE ~HasEOSE(wire'[d], job'[b].gen)
      <3>1. ~HasEOSE(wire[d], job'[b].gen)
        BY <1>3, NoEOSEOfZero DEF OwnInv, HeldNotEnded
      <3> QED BY <1>8, <1>11, <3>1
    <2>2. ASSUME NEW d \in Conns, NEW i \in DOMAIN jobs PROVE ~HasEOSE(wire'[d], jobs[i].gen)
      BY <1>8, <1>11 DEF OwnInv, HeldNotEnded
    <2> QED BY <1>3, <2>1, <2>2 DEF HeldNotEnded, HasEOSE
  <1> QED BY <1>9, <1>10, <1>12, <1>13, <1>14 DEF OwnInv

\* Add: the new generation is larger than every one in use.
LEMMA OwnReqAdd ==
  ASSUME TypeOK, GenInv, OwnInv, NEW c \in Conns, NEW s \in SubIDs, NEW f \in Filters,
         ReqAdd(c, s, f)
  PROVE  OwnInv'
  <1> DEFINE n == nextGen + 1
  <1>1. /\ pc[c] = "idle" /\ nextGen \in Nat /\ nextGen' = n /\ c \in Actors
        /\ job[c].gen = 0
        /\ UNCHANGED <<wire, jobs>>
    BY ConstantsAssumption DEF ReqAdd, TypeOK, out, Actors, OwnInv, HandsAgree
  <1>2. \A d \in Conns, t \in SubIDs :
            subs'[d][t].gen = IF d = c /\ t = s THEN n ELSE subs[d][t].gen
    BY DEF ReqAdd, TypeOK, NewEntry
  <1>3. /\ pc'[c] = "gen" /\ job'[c].gen = 0 /\ job'[c].sub = s
        /\ \A b \in Actors \ {c} : pc'[b] = pc[b] /\ job'[b] = job[b]
    BY <1>1 DEF ReqAdd, Goto, TypeOK, NewJob
  <1>4. /\ \A b \in Actors : job'[b].gen = job[b].gen /\ job[b].gen \in Nat /\ job[b].gen <= nextGen
        /\ \A i \in DOMAIN jobs : jobs[i].gen \in Nat /\ jobs[i].gen <= nextGen
    <2>1. \A b \in Actors : job'[b].gen = job[b].gen
      BY <1>1, <1>3
    <2>2. \A j \in Jobs : j.gen \in Nat
      BY ConstantsAssumption DEF Jobs
    <2>3. \A b \in Actors : job[b] \in Jobs
      BY DEF TypeOK
    <2>4. \A i \in DOMAIN jobs : jobs[i] \in Jobs
      BY DEF TypeOK
    <2> QED BY <2>1, <2>2, <2>3, <2>4 DEF OwnInv, HandsAgree
  <1>5. \A d \in Conns : ~HasEOSE(wire[d], n)
    <2> SUFFICES ASSUME NEW d \in Conns, NEW i \in DOMAIN wire[d]
                 PROVE  wire[d][i].gen # n
      BY DEF HasEOSE
    <2>1. wire[d][i].sub \in SubIDs /\ wire[d][i].gen \in Nat
      <3>1. \A h \in Frames : h.sub \in SubIDs /\ h.gen \in Nat
        BY ConstantsAssumption DEF Frames, Gens
      <3>2. wire[d][i] \in Frames
        BY DEF TypeOK
      <3> QED BY <3>1, <3>2
    <2>2. wire[d][i].gen <= nextGen
      BY <2>1 DEF GenInv, FramesAgree, GensAgree
    <2> QED BY <1>1, <2>1, <2>2
  <1>6. HandsAgree'
    <2>1. \A b \in Actors : /\ job'[b].gen <= nextGen'
                            /\ pc'[b] \in {"idle", "gen", "remove", "noteClose"} => job'[b].gen = 0
                            /\ pc'[b] \in {"enqueue", "drain", "complete"} => job'[b].gen # 0
      BY <1>1, <1>3, <1>4 DEF OwnInv, HandsAgree
    <2>2. \A i \in DOMAIN jobs' : jobs'[i].gen # 0 /\ jobs'[i].gen <= nextGen'
      BY <1>1, <1>4 DEF OwnInv, HandsAgree
    <2>3. pc'[Worker] \notin {"gen", "note", "remove", "noteClose"}
      BY <1>3, ConstantsAssumption DEF OwnInv, HandsAgree, Actors
    <2> QED BY <2>1, <2>2, <2>3 DEF HandsAgree
  <1>7. HandsApart'
    BY <1>1, <1>4 DEF OwnInv, HandsApart
  <1>8. NewIsFresh'
    <2> SUFFICES ASSUME NEW d \in Conns, pc'[d] = "gen", subs'[d][job'[d].sub].gen # 0
                 PROVE  /\ \A b \in Actors : job'[b].gen # subs'[d][job'[d].sub].gen
                        /\ \A i \in DOMAIN jobs' : jobs'[i].gen # subs'[d][job'[d].sub].gen
                        /\ \A e \in Conns : ~HasEOSE(wire'[e], subs'[d][job'[d].sub].gen)
      BY DEF NewIsFresh, Fresh, HasEOSE
    <2>1. CASE d = c
      <3>1. subs'[d][job'[d].sub].gen = n
        BY <1>2, <1>3, <2>1
      <3> QED BY <1>1, <1>4, <1>5, <3>1
    <2>2. CASE d # c
      <3>1. d \in Actors /\ job[d].sub \in SubIDs
        BY DEF Actors, TypeOK, Jobs
      <3>2. /\ pc[d] = "gen" /\ job'[d] = job[d]
            /\ subs'[d][job'[d].sub].gen = subs[d][job[d].sub].gen
        BY <1>2, <1>3, <2>2, <3>1
      <3>3. Fresh(subs[d][job[d].sub].gen)
        BY <3>2 DEF OwnInv, NewIsFresh
      <3> QED BY <1>1, <1>4, <3>2, <3>3 DEF Fresh
    <2> QED BY <2>1, <2>2
  <1>9. HeldNotEnded'
    BY <1>1, <1>4 DEF OwnInv, HeldNotEnded, HasEOSE
  <1>10. SnapshotEndsAtEOSE'
    BY <1>1 DEF OwnInv, SnapshotEndsAtEOSE
  <1> QED BY <1>6, <1>7, <1>8, <1>9, <1>10 DEF OwnInv

\* SubGeneration: the read loop takes the snapshot of its new entry.
LEMMA OwnReqGeneration ==
  ASSUME TypeOK, GenInv, OwnInv, SomeSends, NEW c \in Conns, ReqGeneration(c)
  PROVE  OwnInv'
  <1> DEFINE s == job[c].sub
             g == subs[c][s].gen
  <1>1. /\ pc[c] = "gen" /\ c \in Actors /\ s \in SubIDs /\ job[c] \in Jobs
        /\ UNCHANGED <<subs, wire, jobs>> /\ nextGen' = nextGen
    BY SendsEntries DEF ReqGeneration, Actors, TypeOK, Jobs, mgr, out
  <1>2. g \notin closed /\ g <= nextGen
    BY <1>1 DEF GenInv, GensAgree
  <1>3. /\ pc'[c] = "note" /\ job'[c].gen = g
        /\ \A b \in Actors \ {c} : pc'[b] = pc[b] /\ job'[b] = job[b]
    BY <1>1, <1>2 DEF ReqGeneration, Goto, TypeOK, Jobs
  <1>4. c # Worker
    BY ConstantsAssumption
  <1>5. \A d \in Conns : ~HasEOSE(wire[d], g)
    BY <1>1, NoEOSEOfZero DEF OwnInv, NewIsFresh, Fresh
  <1>6. /\ \A i \in DOMAIN jobs : jobs[i].gen # g
        /\ g # 0 => \A b \in Actors : job[b].gen # g
    BY <1>1 DEF OwnInv, NewIsFresh, Fresh, HandsAgree
  <1>7. \A d \in Conns, t \in SubIDs : d # c /\ subs[d][t].gen # 0 => subs[d][t].gen # g
    BY <1>1 DEF GenInv, GensAgree
  <1> HIDE DEF g
  <1>8. HandsAgree'
    <2>1. \A b \in Actors : /\ job'[b].gen <= nextGen'
                            /\ pc'[b] \in {"idle", "gen", "remove", "noteClose"} => job'[b].gen = 0
                            /\ pc'[b] \in {"enqueue", "drain", "complete"} => job'[b].gen # 0
      BY <1>1, <1>2, <1>3 DEF OwnInv, HandsAgree
    <2>2. \A i \in DOMAIN jobs' : jobs'[i].gen # 0 /\ jobs'[i].gen <= nextGen'
      BY <1>1 DEF OwnInv, HandsAgree
    <2>3. pc'[Worker] \notin {"gen", "note", "remove", "noteClose"}
      BY <1>3, <1>4 DEF OwnInv, HandsAgree, Actors
    <2> QED BY <2>1, <2>2, <2>3 DEF HandsAgree
  <1>9. HandsApart'
    <2>1. ASSUME NEW a \in Actors, NEW b \in Actors, a # b, job'[a].gen # 0
          PROVE  job'[a].gen # job'[b].gen
      BY <1>3, <1>6, <2>1 DEF OwnInv, HandsApart
    <2>2. ASSUME NEW a \in Actors, NEW i \in DOMAIN jobs PROVE job'[a].gen # jobs[i].gen
      BY <1>3, <1>6 DEF OwnInv, HandsApart
    <2> QED BY <1>1, <2>1, <2>2 DEF HandsApart, OwnInv
  <1>10. NewIsFresh'
    <2> SUFFICES ASSUME NEW d \in Conns, pc'[d] = "gen", subs'[d][job'[d].sub].gen # 0
                 PROVE  /\ \A b \in Actors : job'[b].gen # subs'[d][job'[d].sub].gen
                        /\ \A i \in DOMAIN jobs' : jobs'[i].gen # subs'[d][job'[d].sub].gen
                        /\ \A e \in Conns : ~HasEOSE(wire'[e], subs'[d][job'[d].sub].gen)
      BY DEF NewIsFresh, Fresh, HasEOSE
    <2>1. d \in Actors /\ d # c /\ job[d].sub \in SubIDs
      BY <1>3 DEF Actors, TypeOK, Jobs
    <2>2. /\ pc[d] = "gen" /\ job'[d] = job[d]
          /\ subs'[d][job'[d].sub].gen = subs[d][job[d].sub].gen
      BY <1>1, <1>3, <2>1
    <2>3. Fresh(subs[d][job[d].sub].gen)
      BY <2>2 DEF OwnInv, NewIsFresh
    <2> QED BY <1>1, <1>3, <1>7, <2>1, <2>2, <2>3 DEF Fresh
  <1>11. HeldNotEnded'
    <2>1. ASSUME NEW d \in Conns, NEW b \in Actors PROVE ~HasEOSE(wire[d], job'[b].gen)
      BY <1>3, <1>5 DEF OwnInv, HeldNotEnded
    <2> QED BY <1>1, <2>1 DEF HeldNotEnded, HasEOSE, OwnInv
  <1>12. SnapshotEndsAtEOSE'
    BY <1>1 DEF OwnInv, SnapshotEndsAtEOSE
  <1> QED BY <1>8, <1>9, <1>10, <1>11, <1>12 DEF OwnInv

\* Every step keeps the hands apart.
LEMMA OwnNext ==
  ASSUME TypeOK, GenInv, OwnInv, [Next]_vars
  PROVE  OwnInv'
  <1>1. CASE \E c \in Conns, s \in SubIDs, f \in Filters : ReqAdd(c, s, f)
    BY <1>1, OwnReqAdd
  <1>2. CASE SomeSends
    <2>1. ASSUME UNCHANGED <<wire, tasks>> PROVE OwnInv'
      BY <1>2, <2>1, PlainSilent, OwnStill
    <2>2. ASSUME NEW a \in Actors, Snapshot(a) PROVE OwnInv'
      BY <1>2, <2>2, OwnSnapshot, OwnEnqueueJob, OwnCompleteSnapshot
    <2>3. ASSUME NEW c \in Conns, NEW s \in SubIDs, CloseSend(c, s) PROVE OwnInv'
      <3> DEFINE f == Frame("ack", s, subs[c][s].gen, 0)
      <3>1. subs[c][s].gen \in Gens
        <4>1. subs[c][s].gen \in 0 .. MaxGen /\ subs[c][s].gen # 0
          BY <2>3 DEF TypeOK, Entries, CloseSend
        <4> QED BY <4>1, ConstantsAssumption DEF Gens
      <3>2. f \in Frames /\ f.kind = "ack"
        BY <3>1, FrameType, ConstantsAssumption DEF Frame
      <3>3. Enqueue(c, f) \/ UNCHANGED wire
        BY <2>3 DEF CloseSend, EnqueueFails
      <3> HIDE DEF f
      <3>4. PlainWire
        BY <3>2, <3>3, PlainEnqueue
      <3>5. c \in Actors /\ c # Worker /\ job[c] \in Jobs /\ job[c].gen = 0
        BY <2>3, ConstantsAssumption DEF Actors, CloseSend, OwnInv, HandsAgree, TypeOK
      <3>6. /\ pc'[c] = "remove" /\ job'[c].gen = job[c].gen /\ UNCHANGED jobs
            /\ \A b \in Actors \ {c} : pc'[b] = pc[b] /\ job'[b] = job[b]
        BY <2>3, <3>5 DEF CloseSend, Goto, TypeOK, Jobs
      <3>7. MovesOn(c)
        BY <1>2, <3>5, <3>6, SendsEntries DEF MovesOn
      <3> QED BY <1>2, <3>4, <3>5, <3>7, OwnMovesOn
    <2>4. ASSUME NEW c \in Conns, ReqNote(c) \/ CloseRemove(c) \/ CloseNote(c) PROVE OwnInv'
      <3>1. c \in Actors /\ c # Worker /\ UNCHANGED <<wire, jobs>>
        BY <2>4, ConstantsAssumption DEF Actors, ReqNote, CloseRemove, CloseNote, out
      <3>2. CASE ReqNote(c)
        <4>1. pc'[c] = "fetch" /\ UNCHANGED job /\ \A b \in Actors \ {c} : pc'[b] = pc[b]
          BY <3>1, <3>2 DEF ReqNote, Goto, TypeOK
        <4>2. MovesOn(c)
          BY <1>2, <3>1, <4>1, SendsEntries DEF MovesOn
        <4> QED BY <1>2, <3>1, <4>2, PlainSilent, OwnMovesOn
      <3>3. CASE CloseRemove(c)
        <4>1. /\ pc'[c] = "noteClose" /\ UNCHANGED job /\ \A b \in Actors \ {c} : pc'[b] = pc[b]
              /\ job[c].gen = 0
          BY <3>1, <3>3 DEF CloseRemove, Goto, TypeOK, OwnInv, HandsAgree
        <4>2. MovesOn(c)
          BY <1>2, <3>1, <4>1, SendsEntries DEF MovesOn
        <4> QED BY <1>2, <3>1, <4>2, PlainSilent, OwnMovesOn
      <3>4. CASE CloseNote(c)
        <4>1. MovesOn(c)
          BY <1>2, <3>1, <3>4, SendsEntries, ReturnMovesOn DEF CloseNote
        <4> QED BY <1>2, <3>1, <4>1, PlainSilent, OwnMovesOn
      <3> QED BY <2>4, <3>2, <3>3, <3>4
    <2>5. ASSUME NEW c \in Conns, Teardown(c) PROVE OwnInv'
      <3>1. PICK fs \in Seq(Frames) :
                /\ wire' = [wire EXCEPT ![c] = @ \o fs]
                /\ \A i \in 1 .. Len(fs) : fs[i].kind = "closed"
        BY <2>5, TeardownFrames
      <3>2. PlainWire
        BY <3>1, PlainFrames
      <3>3. UNCHANGED tasks
        BY <2>5 DEF Teardown
      <3> QED BY <1>2, <3>2, <3>3, OwnStill
    <2>6. ASSUME NEW e \in Events, NEW t \in Targets, DeliverOverflow(e, t) \/ DeliverLive(e, t)
          PROVE  OwnInv'
      <3>1. t.conn \in Conns /\ t.sub \in SubIDs /\ t.gen \in Gens
        BY DEF Targets
      <3>2. PICK k \in {"closed", "live"}, v \in {0, e} :
                Enqueue(t.conn, Frame(k, t.sub, t.gen, v)) \/ UNCHANGED wire
        BY <2>6 DEF DeliverOverflow, DeliverLive, EnqueueSubscriptionFrame, EnqueueFails
      <3> DEFINE f == Frame(k, t.sub, t.gen, v)
      <3>3. f \in Frames /\ f.kind \in {"closed", "live"}
        BY <3>1, FrameType, EventsInRange, ConstantsAssumption DEF Frame
      <3>4. Enqueue(t.conn, f) \/ UNCHANGED wire
        BY <3>2
      <3> HIDE DEF f
      <3>5. PlainWire
        BY <3>1, <3>3, <3>4, PlainEnqueue
      <3>6. UNCHANGED tasks
        BY <2>6 DEF DeliverOverflow, DeliverLive
      <3> QED BY <1>2, <3>5, <3>6, OwnStill
    <2>7. CASE UNCHANGED vars
      BY <2>1, <2>7 DEF vars, out
    <2>8. CASE Next
      <3>1. ASSUME NEW c \in Conns, Client(c) PROVE OwnInv'
        BY <1>1, <2>1, <2>3, <3>1 DEF Client, RegisterSender, Authenticate, SwitchIdentity, OtherFrame, out
      <3>2. ASSUME NEW c \in Conns, ReadLoop(c) PROVE OwnInv'
        BY <1>2, <2>2, <2>4, <3>2, OwnReqGeneration DEF ReadLoop, Actors
      <3>3. ASSUME NEW c \in Conns, WriteFrame(c) \/ WriteFails(c) \/ SweepIdle(c) PROVE OwnInv'
        BY <2>1, <3>3 DEF WriteFrame, WriteFails, SweepIdle, out
      <3>4. CASE ReaderQueue
        BY <1>2, <2>2, <3>4, OwnWorkerTake DEF ReaderQueue, Actors
      <3>5. ASSUME NEW e \in Events, SaveEvent(e) \/ Broadcast(e) PROVE OwnInv'
        BY <2>1, <2>6, <3>5 DEF SaveEvent, Broadcast, BroadcastMatch, BroadcastConn, DeliverStale,
                                DeliverBuffered, out
      <3> QED BY <2>5, <2>8, <3>1, <3>2, <3>3, <3>4, <3>5 DEF Next
    <2> QED BY <2>7, <2>8
  <1> QED BY <1>1, <1>2, StepSends

\* From Add to EOSE a snapshot passes from hand to hand, never into two.
THEOREM OwnershipCorrect == Spec => []OwnInv
  <1>1. Init => OwnInv
    <2>1. NoJob.gen = 0
      BY DEF NoJob, NewJob
    <2>2. ASSUME Init
          PROVE  /\ nextGen = 0 /\ \A a \in Actors : job[a].gen = 0 /\ pc[a] = "idle"
                 /\ DOMAIN jobs = {} /\ \A c \in Conns : DOMAIN wire[c] = {}
      BY <2>1, <2>2 DEF Init
    <2>3. Worker \in Actors /\ Conns \subseteq Actors
      BY DEF Actors
    <2> QED BY <2>2, <2>3 DEF OwnInv, HandsAgree, HandsApart, NewIsFresh, HeldNotEnded, HasEOSE,
                              SnapshotEndsAtEOSE
  <1>2. TypeOK /\ GenInv /\ OwnInv /\ [Next]_vars => OwnInv'
    BY OwnNext
  <1> QED BY <1>1, <1>2, TypeCorrect, GenerationsCorrect, PTL DEF Spec

\* A generation is in the hands of one read loop, the worker or one queued page
\* job: no page is sent twice however the queue, the drain fallback and
\* replaced subscriptions interleave.
THEOREM SnapshotHasOneOwner == Spec => []OneOwner
  <1>1. OwnInv => OneOwner
    BY DEF OwnInv, HandsApart, OneOwner
  <1> QED BY <1>1, OwnershipCorrect, PTL

\* On every connection frames follow the order of generations, and a
\* generation's pages come before its one EOSE.
THEOREM FramesInOrder == Spec => []SnapshotFrames
  <1>1. GenInv /\ OwnInv => SnapshotFrames
    BY DEF GenInv, OwnInv, SnapshotFrames
  <1> QED BY <1>1, GenerationsCorrect, OwnershipCorrect, PTL

-----------------------------------------------------------------------------
(* What a step changes. *)

\* Only a publisher changes the store or the progress of a broadcast.
LEMMA StepEvents ==
  ASSUME [Next]_vars
  PROVE  UNCHANGED events \/ \E e \in Events : SaveEvent(e) \/ Broadcast(e)
  <1>1. ASSUME NEW a \in Actors, Snapshot(a) PROVE UNCHANGED events
    BY <1>1 DEF Snapshot, FetchPage, FetchFails, CloseOnQueryError, SendInvisible, SendVisible,
                SendEvent, SendStops, PageSent, EnqueueJob, DrainNext, CompleteSnapshot,
                CompleteLost, CompleteStale
  <1>2. ASSUME NEW c \in Conns, Client(c) PROVE UNCHANGED events
    BY <1>2 DEF Client, RegisterSender, Authenticate, SwitchIdentity, OtherFrame, CloseSend, ReqAdd
  <1>3. ASSUME NEW c \in Conns, ReadLoop(c) PROVE UNCHANGED events
    BY <1>1, <1>3 DEF ReadLoop, ReqGeneration, ReqNote, CloseRemove, CloseNote, Actors
  <1>4. ASSUME ReaderQueue PROVE UNCHANGED events
    BY <1>1, <1>4 DEF ReaderQueue, WorkerTake, Actors
  <1> QED BY <1>2, <1>3, <1>4 DEF Next, vars, Teardown, WriteFrame, WriteFails, SweepIdle

\* Only its client's AUTH changes a connection's key.
LEMMA StepAuth ==
  ASSUME [Next]_vars
  PROVE  UNCHANGED auth \/ \E c \in Conns : Authenticate(c) \/ SwitchIdentity(c)
  <1>1. ASSUME NEW a \in Actors, Snapshot(a) PROVE UNCHANGED auth
    BY <1>1 DEF Snapshot, FetchPage, FetchFails, CloseOnQueryError, SendInvisible, SendVisible,
                SendEvent, SendStops, PageSent, EnqueueJob, DrainNext, CompleteSnapshot,
                CompleteLost, CompleteStale
  <1>2. ASSUME NEW c \in Conns, Client(c)
        PROVE  UNCHANGED auth \/ Authenticate(c) \/ SwitchIdentity(c)
    BY <1>2 DEF Client, RegisterSender, OtherFrame, CloseSend, ReqAdd
  <1>3. ASSUME NEW c \in Conns, ReadLoop(c) PROVE UNCHANGED auth
    BY <1>1, <1>3 DEF ReadLoop, ReqGeneration, ReqNote, CloseRemove, CloseNote, Actors
  <1>4. ASSUME ReaderQueue PROVE UNCHANGED auth
    BY <1>1, <1>4 DEF ReaderQueue, WorkerTake, Actors
  <1>5. ASSUME NEW e \in Events, SaveEvent(e) \/ Broadcast(e) PROVE UNCHANGED auth
    BY <1>5 DEF SaveEvent, Broadcast, BroadcastMatch, BroadcastConn, DeliverStale, DeliverBuffered,
                DeliverOverflow, DeliverLive
  <1> QED BY <1>2, <1>3, <1>4, <1>5 DEF Next, vars, Teardown, WriteFrame, WriteFails, SweepIdle

\* Event e is about to be sent to c: next in a page that passed the visibility
\* check, in a broadcast's deliveries to c, or in a live buffer.
Sourced(c, e) ==
    \/ \E a \in Actors : /\ pc[a] = "push" /\ job[a].conn = c
                         /\ e \in job[a].page /\ \A d \in job[a].page : e <= d
    \/ \E t \in pub[e].cur : t.conn = c
    \/ \E s \in SubIDs : \E i \in DOMAIN subs[c][s].pending : subs[c][s].pending[i] = e

\* A step sends frames to one connection, and events only from these sources.
SendsSourced ==
    \E c \in Conns, fs \in Seq(Frames) :
       /\ wire' = [wire EXCEPT ![c] = @ \o fs]
       /\ \A k \in 1 .. Len(fs) : fs[k].ev # 0 => fs[k].ev \in Events /\ Sourced(c, fs[k].ev)

\* No frame.
LEMMA SourcedNone ==
  ASSUME TypeOK, UNCHANGED wire
  PROVE  SendsSourced
  <1>1. PICK c \in Conns : TRUE
    BY ConstantsAssumption
  <1>2. wire' = [wire EXCEPT ![c] = @ \o <<>>]
    <2>1. wire[c] \o <<>> = wire[c]
      BY DEF TypeOK
    <2> QED BY <2>1 DEF TypeOK
  <1>3. <<>> \in Seq(Frames) /\ Len(<<>>) = 0
    BY EmptySeq
  <1>4. \A k \in 1 .. Len(<<>>) : FALSE
    BY <1>3
  <1> QED BY <1>2, <1>3, <1>4 DEF SendsSourced

\* One frame, or none.
LEMMA SourcedOne ==
  ASSUME TypeOK, NEW c \in Conns, NEW f \in Frames, Enqueue(c, f) \/ UNCHANGED wire,
         f.ev # 0 => f.ev \in Events /\ Sourced(c, f.ev)
  PROVE  SendsSourced
  <1>1. CASE UNCHANGED wire
    BY <1>1, SourcedNone
  <1>2. CASE Enqueue(c, f)
    <2>1. /\ wire' = [wire EXCEPT ![c] = @ \o <<f>>]
          /\ <<f>> \in Seq(Frames) /\ Len(<<f>>) = 1 /\ <<f>>[1] = f
      BY <1>2, EnqueueConcat
    <2>2. \A k \in 1 .. Len(<<f>>) :
             <<f>>[k].ev # 0 => <<f>>[k].ev \in Events /\ Sourced(c, <<f>>[k].ev)
      <3> HIDE DEF Sourced
      <3> QED BY <2>1
    <2> QED BY <2>1, <2>2 DEF SendsSourced
  <1> QED BY <1>1, <1>2

\* Every step.
LEMMA StepFrames ==
  ASSUME TypeOK, [Next]_vars
  PROVE  SendsSourced
  <1>1. ASSUME NEW a \in Actors, Snapshot(a) PROVE SendsSourced
    <2> DEFINE c == job[a].conn
               s == job[a].sub
    <2>1. c \in Conns /\ s \in SubIDs /\ job[a] \in Jobs
      BY DEF TypeOK, Jobs
    <2>2. CASE CloseOnQueryError(a)
      <3> DEFINE f == Frame("closed", s, job[a].gen, 0)
      <3>1. CASE SameSnapshot(c, s, job[a].gen)
        <4>1. f \in Frames /\ f.ev = 0
          BY <2>1, <3>1, SameSnapshotGen, FrameType, ConstantsAssumption DEF Frame
        <4>2. Enqueue(c, f) \/ UNCHANGED wire
          BY <2>2, <3>1 DEF CloseOnQueryError, EnqueueFails
        <4> HIDE DEF f, c
        <4> QED BY <2>1, <4>1, <4>2, SourcedOne
      <3>2. CASE ~SameSnapshot(c, s, job[a].gen)
        BY <2>2, <3>2, SourcedNone DEF CloseOnQueryError
      <3> QED BY <3>1, <3>2
    <2>3. ASSUME NEW e \in Events, SendEvent(a, e) PROVE SendsSourced
      <3> DEFINE f == Frame("snap", s, job[a].gen, e)
      <3>1. f \in Frames /\ f.ev = e
        BY <2>1, <2>3, SameSnapshotGen, FrameType, EventsInRange DEF SendEvent, Frame
      <3>2. Enqueue(c, f) \/ UNCHANGED wire
        BY <2>3 DEF SendEvent, EnqueueFails
      <3>3. Sourced(c, e)
        BY <2>3 DEF SendEvent, Sourced
      <3> HIDE DEF f, c
      <3> QED BY <2>1, <3>1, <3>2, <3>3, SourcedOne
    <2>4. CASE CompleteSnapshot(a)
      <3>1. PICK fs \in Seq(Frames) :
               /\ wire' = [wire EXCEPT ![c] = @ \o fs]
               /\ Len(fs) >= 1 /\ fs[1].ev = 0
               /\ \A i \in 2 .. Len(fs) : /\ i - 1 \in DOMAIN subs[c][s].pending
                                          /\ fs[i].ev = subs[c][s].pending[i - 1]
        BY <2>4, CompleteFrames
      <3>2. ASSUME NEW k \in 1 .. Len(fs), fs[k].ev # 0
            PROVE  fs[k].ev \in Events /\ Sourced(c, fs[k].ev)
        <4>1. k \in 2 .. Len(fs)
          BY <3>1, <3>2
        <4>2. k - 1 \in DOMAIN subs[c][s].pending /\ fs[k].ev = subs[c][s].pending[k - 1]
          BY <3>1, <4>1
        <4>3. subs[c][s].pending \in Seq(Events)
          BY <2>1 DEF TypeOK, Entries
        <4>4. fs[k].ev \in Events
          BY <4>2, <4>3
        <4>5. \E u \in SubIDs : \E i \in DOMAIN subs[c][u].pending : subs[c][u].pending[i] = fs[k].ev
          BY <2>1, <4>2
        <4> QED BY <4>4, <4>5 DEF Sourced
      <3> QED BY <2>1, <3>1, <3>2 DEF SendsSourced
    <2> QED BY <1>1, <2>2, <2>3, <2>4, SourcedNone
           DEF Snapshot, FetchPage, FetchFails, SendInvisible, SendVisible, SendStops, PageSent,
               EnqueueJob, DrainNext, CompleteLost, CompleteStale, out
  <1>2. ASSUME NEW c \in Conns, NEW s \in SubIDs, CloseSend(c, s) PROVE SendsSourced
    <2> DEFINE f == Frame("ack", s, subs[c][s].gen, 0)
    <2>1. subs[c][s].gen \in Gens
      <3>1. subs[c][s].gen \in 0 .. MaxGen /\ subs[c][s].gen # 0
        BY <1>2 DEF TypeOK, Entries, CloseSend
      <3> QED BY <3>1, ConstantsAssumption DEF Gens
    <2>2. f \in Frames /\ f.ev = 0
      BY <2>1, FrameType, ConstantsAssumption DEF Frame
    <2>3. Enqueue(c, f) \/ UNCHANGED wire
      BY <1>2 DEF CloseSend, EnqueueFails
    <2> HIDE DEF f
    <2> QED BY <2>2, <2>3, SourcedOne
  <1>3. ASSUME NEW c \in Conns, Client(c) \/ ReadLoop(c) PROVE SendsSourced
    BY <1>1, <1>2, <1>3, SourcedNone
       DEF Client, RegisterSender, Authenticate, SwitchIdentity, OtherFrame, ReqAdd, ReadLoop,
           ReqGeneration, ReqNote, CloseRemove, CloseNote, Actors, out
  <1>4. ASSUME NEW c \in Conns, Teardown(c) PROVE SendsSourced
    <2>1. PICK fs \in Seq(Frames) :
                /\ wire' = [wire EXCEPT ![c] = @ \o fs]
                /\ \A i \in 1 .. Len(fs) : fs[i].ev = 0
      BY <1>4, TeardownFrames
    <2> QED BY <2>1 DEF SendsSourced
  <1>5. ASSUME NEW e \in Events, NEW t \in Targets, DeliverOverflow(e, t) \/ DeliverLive(e, t)
        PROVE  SendsSourced
    <2>1. t.conn \in Conns /\ t.sub \in SubIDs /\ t.gen \in Gens
      BY DEF Targets
    <2>2. PICK k \in {"closed", "live"}, v \in {0, e} :
                Enqueue(t.conn, Frame(k, t.sub, t.gen, v)) \/ UNCHANGED wire
      BY <1>5 DEF DeliverOverflow, DeliverLive, EnqueueSubscriptionFrame, EnqueueFails
    <2> DEFINE f == Frame(k, t.sub, t.gen, v)
    <2>3. f \in Frames /\ f.ev = v
      BY <2>1, FrameType, EventsInRange, ConstantsAssumption DEF Frame
    <2>4. Enqueue(t.conn, f) \/ UNCHANGED wire
      BY <2>2
    <2>5. Sourced(t.conn, e)
      BY <1>5 DEF DeliverOverflow, DeliverLive, Sourced
    <2> HIDE DEF f
    <2> QED BY <2>1, <2>3, <2>4, <2>5, SourcedOne
  <1>6. ASSUME NEW e \in Events, SaveEvent(e) \/ Broadcast(e) PROVE SendsSourced
    BY <1>5, <1>6, SourcedNone DEF SaveEvent, Broadcast, BroadcastMatch, BroadcastConn, DeliverStale,
                                   DeliverBuffered, out
  <1>7. ASSUME ReaderQueue PROVE SendsSourced
    BY <1>1, <1>7, SourcedNone DEF ReaderQueue, WorkerTake, Actors, out
  <1>8. ASSUME NEW c \in Conns, WriteFrame(c) \/ WriteFails(c) \/ SweepIdle(c) PROVE SendsSourced
    BY <1>8, SourcedNone DEF WriteFrame, WriteFails, SweepIdle, out
  <1>9. CASE UNCHANGED vars
    BY <1>9, SourcedNone DEF vars, out
  <1> QED BY <1>3, <1>4, <1>6, <1>7, <1>8, <1>9 DEF Next

-----------------------------------------------------------------------------
(* Gift wraps are only sent to their recipient. *)

\* e is saved, and c has been its recipient since then if it is a gift wrap.
Cleared(c, e) == e \in stored /\ (e \in Private => e \notin auth[c].late)

\* A broadcast only begins once the event is saved.
UnsavedUntouched ==
    \A e \in Events \ stored : pub[e].st = "new" /\ pub[e].todo = {} /\ pub[e].cur = {}

\* The recipient itself may see everything.
RecipientSeesAll == \A c \in Conns : auth[c].key = "recipient" => auth[c].late = {}

\* Pages come from the store.
PagesStored ==
    /\ \A a \in Actors : job[a].page \subseteq stored
    /\ \A i \in DOMAIN jobs : jobs[i].page \subseteq stored

\* Every event about to be sent to a connection has been cleared for it ...
SourcesCleared == \A c \in Conns : \A e \in Events : Sourced(c, e) => Cleared(c, e)

\* ... and so was every event that has been sent.
WireCleared ==
    \A c \in Conns : \A i \in DOMAIN wire[c] :
        wire[c][i].ev # 0 => wire[c][i].ev \in Events /\ Cleared(c, wire[c][i].ev)

\* Inductive: between the visibility check and the sending of an event, in a
\* page, in a broadcast or in a live buffer, the key may change.
PrivInv == UnsavedUntouched /\ RecipientSeesAll /\ PagesStored /\ SourcesCleared /\ WireCleared

\* An event that is cleared stays so: AUTH as somebody else only withholds what
\* is not yet saved.
LEMMA ClearedStays ==
  ASSUME TypeOK, RecipientSeesAll, [Next]_vars
  PROVE  \A c \in Conns : \A e \in Events : Cleared(c, e) => Cleared(c, e)'
  <1> SUFFICES ASSUME NEW c \in Conns, NEW e \in Events, Cleared(c, e)
               PROVE  Cleared(c, e)'
    OBVIOUS
  <1>1. stored \subseteq stored'
    BY StepEvents DEF SaveEvent, Broadcast, BroadcastMatch, BroadcastConn, DeliverStale,
                      DeliverBuffered, DeliverOverflow, DeliverLive, events
  <1>2. e \notin auth[c].late => e \notin auth'[c].late
    <2>1. ASSUME NEW d \in Conns, Authenticate(d) PROVE auth'[c].late \in {auth[c].late, {}}
      BY <2>1 DEF Authenticate, TypeOK, NewAuth
    <2>2. ASSUME NEW d \in Conns, SwitchIdentity(d)
          PROVE  auth'[c].late \in {auth[c].late, Events \ stored}
      BY <2>2 DEF SwitchIdentity, TypeOK, NewAuth
    <2> QED BY <2>1, <2>2, StepAuth DEF Cleared
  <1> QED BY <1>1, <1>2 DEF Cleared

\* A visible event that is saved is cleared.
LEMMA VisibleCleared ==
  ASSUME RecipientSeesAll, NEW c \in Conns, NEW e \in stored, Visible(c, e)
  PROVE  Cleared(c, e)
  BY DEF RecipientSeesAll, Visible, Cleared

\* Publishing.
LEMMA PrivPub ==
  ASSUME TypeOK, UnsavedUntouched, [Next]_vars
  PROVE  UnsavedUntouched'
  <1>1. ASSUME NEW e \in Events, SaveEvent(e) PROVE UnsavedUntouched'
    BY <1>1 DEF SaveEvent, UnsavedUntouched, TypeOK
  <1>2. ASSUME NEW e \in Events, Broadcast(e) PROVE UnsavedUntouched'
    <2>1. /\ UNCHANGED stored
          /\ \A d \in Events : d # e => pub'[d] = pub[d]
      BY <1>2 DEF Broadcast, BroadcastMatch, BroadcastConn, DeliverStale, DeliverBuffered,
                  DeliverOverflow, DeliverLive, DoneWith, TypeOK
    <2>2. pub[e].st = "saved" \/ pub[e].todo # {} \/ pub[e].cur # {}
      BY <1>2 DEF Broadcast, BroadcastMatch, BroadcastConn, DeliverStale, DeliverBuffered,
                  DeliverOverflow, DeliverLive
    <2> QED BY <2>1, <2>2 DEF UnsavedUntouched
  <1> QED BY <1>1, <1>2, StepEvents DEF UnsavedUntouched, events

\* Authentication.
LEMMA PrivAuth ==
  ASSUME TypeOK, RecipientSeesAll, [Next]_vars
  PROVE  RecipientSeesAll'
  <1>1. ASSUME NEW c \in Conns, Authenticate(c) PROVE RecipientSeesAll'
    <2>1. \A d \in Conns : auth'[d] = IF d = c THEN NewAuth("recipient", {}) ELSE auth[d]
      BY <1>1 DEF Authenticate, TypeOK
    <2> QED BY <2>1 DEF RecipientSeesAll, NewAuth
  <1>2. ASSUME NEW c \in Conns, SwitchIdentity(c) PROVE RecipientSeesAll'
    <2>1. \A d \in Conns : auth'[d].key = "recipient" => auth'[d] = auth[d]
      BY <1>2 DEF SwitchIdentity, TypeOK, NewAuth
    <2> QED BY <2>1 DEF RecipientSeesAll
  <1> QED BY <1>1, <1>2, StepAuth DEF RecipientSeesAll

\* A goroutine that works on a snapshot moves nobody else.
LEMMA SnapshotLocal ==
  ASSUME TypeOK, NEW a \in Actors, NEW b \in Actors, a # b, Snapshot(b)
  PROVE  pc'[a] = pc[a] /\ job'[a] = job[a]
  <1>1. ASSUME Return(b) PROVE pc'[a] = pc[a] /\ job'[a] = job[a]
    BY <1>1 DEF Return, TypeOK
  <1>2. CASE FetchPage(b) \/ FetchFails(b) \/ PageSent(b) \/ EnqueueJob(b) \/ DrainNext(b)
    BY <1>1, <1>2 DEF FetchPage, FetchFails, PageSent, EnqueueJob, DrainNext, Goto, TypeOK
  <1>3. ASSUME NEW e \in Events, SendInvisible(b, e) \/ SendVisible(b, e) \/ SendEvent(b, e)
        PROVE  pc'[a] = pc[a] /\ job'[a] = job[a]
    BY <1>3 DEF SendInvisible, SendVisible, SendEvent, Goto, TypeOK
  <1>4. CASE \/ CloseOnQueryError(b) \/ SendStops(b) \/ CompleteSnapshot(b)
             \/ CompleteLost(b) \/ CompleteStale(b)
    BY <1>1, <1>4 DEF CloseOnQueryError, SendStops, CompleteSnapshot, CompleteLost, CompleteStale
  <1> QED BY <1>2, <1>3, <1>4 DEF Snapshot

\* A goroutine gets its page from the store or from the queue, and comes to the
\* push only through the visibility check.
PageStep(a) ==
    /\ \/ job'[a].page \subseteq job[a].page \cup stored
       \/ jobs # <<>> /\ job'[a] = Head(jobs)
    /\ pc'[a] = "push" => \/ pc[a] = "push" /\ job'[a] = job[a]
                          \/ \E e \in Events : SendVisible(a, e)

\* Returning leaves no page behind.
LEMMA ReturnPages ==
  ASSUME TypeOK, NEW a \in Actors, Return(a)
  PROVE  PageStep(a)
  <1>1. NoJob.page = {}
    BY DEF NoJob, NewJob
  <1> QED BY <1>1 DEF Return, TypeOK, PageStep

\* So it is for its own steps ...
LEMMA SnapshotPages ==
  ASSUME TypeOK, NEW a \in Actors, Snapshot(a)
  PROVE  PageStep(a)
  <1>1. job[a] \in Jobs
    BY DEF TypeOK
  <1>2. CASE FetchPage(a)
    <2>1. Fetched(job[a]).page = Page(job[a])
      BY <1>1 DEF Fetched, Jobs
    <2>2. Page(job[a]) \subseteq stored
      BY DEF Page, Candidates
    <2>3. job'[a] = Fetched(job[a]) /\ pc'[a] = "send"
      BY <1>2 DEF FetchPage, Goto, TypeOK
    <2> QED BY <2>1, <2>2, <2>3 DEF PageStep
  <1>3. ASSUME NEW e \in Events, SendInvisible(a, e) \/ SendEvent(a, e) PROVE PageStep(a)
    <2>1. job'[a].page = job[a].page \ {e} /\ pc'[a] = "send"
      BY <1>1, <1>3 DEF SendInvisible, SendEvent, Goto, TypeOK, Jobs
    <2> QED BY <2>1 DEF PageStep
  <1>4. ASSUME NEW e \in Events, SendVisible(a, e) PROVE PageStep(a)
    BY <1>4 DEF PageStep, SendVisible
  <1>5. CASE FetchFails(a) \/ PageSent(a)
    <2>1. job'[a] = job[a] /\ pc'[a] # "push"
      BY <1>5 DEF FetchFails, PageSent, Goto, TypeOK
    <2> QED BY <2>1 DEF PageStep
  <1>6. CASE EnqueueJob(a)
    <2>1. CASE Len(jobs) < QueueCap
      BY <1>6, <2>1, ReturnPages DEF EnqueueJob
    <2>2. CASE ~(Len(jobs) < QueueCap)
      <3>1. job'[a].page = job[a].page /\ pc'[a] = "drain"
        BY <1>1, <1>6, <2>2 DEF EnqueueJob, Goto, TypeOK, Jobs
      <3> QED BY <3>1 DEF PageStep
    <2> QED BY <2>1, <2>2
  <1>7. CASE DrainNext(a)
    <2>1. CASE Goto(a, "fetch") /\ UNCHANGED job
      <3>1. job'[a].page = job[a].page /\ pc'[a] = "fetch"
        BY <2>1 DEF Goto, TypeOK
      <3> QED BY <3>1 DEF PageStep
    <2> QED BY <1>7, <2>1, ReturnPages DEF DrainNext
  <1>8. CASE \/ CloseOnQueryError(a) \/ SendStops(a) \/ CompleteSnapshot(a)
             \/ CompleteLost(a) \/ CompleteStale(a)
    BY <1>8, ReturnPages DEF CloseOnQueryError, SendStops, CompleteSnapshot, CompleteLost, CompleteStale
  <1> QED BY <1>2, <1>3, <1>4, <1>5, <1>6, <1>7, <1>8 DEF Snapshot, SendVisible

\* ... and for every step.
LEMMA StepPages ==
  ASSUME TypeOK, [Next]_vars, NEW a \in Actors
  PROVE  PageStep(a)
  <1>1. ASSUME pc'[a] = pc[a], job'[a] = job[a] PROVE PageStep(a)
    BY <1>1 DEF PageStep
  <1>2. ASSUME UNCHANGED tasks PROVE PageStep(a)
    BY <1>1, <1>2 DEF tasks
  <1>3. ASSUME NEW b \in Actors, Snapshot(b) PROVE PageStep(a)
    BY <1>1, <1>3, SnapshotLocal, SnapshotPages
  <1>4. ASSUME NEW c \in Conns, Client(c) PROVE PageStep(a)
    <2>1. ASSUME NEW s \in SubIDs, CloseSend(c, s) PROVE PageStep(a)
      <3>1. job[a] \in Jobs /\ c \in Actors /\ job[c] \in Jobs
        BY DEF TypeOK, Actors
      <3>2. job'[a].page = job[a].page
        BY <2>1, <3>1 DEF CloseSend, TypeOK, Jobs
      <3>3. pc'[a] = IF a = c THEN "remove" ELSE pc[a]
        BY <2>1, <3>1 DEF CloseSend, Goto, TypeOK
      <3>4. a # c => job'[a] = job[a]
        BY <2>1, <3>1 DEF CloseSend, TypeOK
      <3> QED BY <3>2, <3>3, <3>4 DEF PageStep
    <2>2. ASSUME NEW s \in SubIDs, NEW f \in Filters, ReqAdd(c, s, f) PROVE PageStep(a)
      <3>1. CASE a = c
        <4>1. pc'[a] = "gen" /\ job'[a].page = {}
          BY <2>2, <3>1 DEF ReqAdd, Goto, TypeOK, NewJob
        <4> QED BY <4>1 DEF PageStep
      <3>2. CASE a # c
        BY <1>1, <2>2, <3>2 DEF ReqAdd, Goto, TypeOK
      <3> QED BY <3>1, <3>2
    <2> QED BY <1>2, <1>4, <2>1, <2>2 DEF Client, RegisterSender, Authenticate, SwitchIdentity, OtherFrame
  <1>5. ASSUME NEW c \in Conns, ReadLoop(c) PROVE PageStep(a)
    <2>0. c \in Actors /\ job[c] \in Jobs /\ job[a] \in Jobs
      BY DEF TypeOK, Actors
    <2>1. CASE ReqGeneration(c)
      <3>1. job'[a].page = job[a].page
        BY <2>0, <2>1 DEF ReqGeneration, TypeOK, Jobs
      <3>2. pc'[a] = IF a = c THEN "note" ELSE pc[a]
        BY <2>0, <2>1 DEF ReqGeneration, Goto, TypeOK
      <3>3. a # c => job'[a] = job[a]
        BY <2>0, <2>1 DEF ReqGeneration, TypeOK
      <3> QED BY <3>1, <3>2, <3>3 DEF PageStep
    <2>2. CASE ReqNote(c) \/ CloseRemove(c)
      <3>1. UNCHANGED job
        BY <2>2 DEF ReqNote, CloseRemove
      <3>2. pc'[a] \in {"fetch", "noteClose", pc[a]}
        BY <2>0, <2>2 DEF ReqNote, CloseRemove, Goto, TypeOK
      <3> QED BY <3>1, <3>2 DEF PageStep
    <2>3. CASE CloseNote(c)
      <3>1. CASE a = c
        BY <2>3, <3>1, ReturnPages DEF CloseNote
      <3>2. CASE a # c
        BY <1>1, <2>0, <2>3, <3>2 DEF CloseNote, Return, TypeOK
      <3> QED BY <3>1, <3>2
    <2> QED BY <1>3, <1>5, <2>0, <2>1, <2>2, <2>3 DEF ReadLoop
  <1>6. CASE WorkerTake
    <2>1. CASE UNCHANGED <<pc, job>>
      BY <1>1, <2>1
    <2>2. CASE job' = [job EXCEPT ![Worker] = Head(jobs)] /\ Goto(Worker, "fetch")
      <3>1. CASE a = Worker
        <4>1. job'[a] = Head(jobs) /\ pc'[a] = "fetch" /\ jobs # <<>>
          BY <1>6, <2>2, <3>1 DEF WorkerTake, Goto, TypeOK
        <4> QED BY <4>1 DEF PageStep
      <3>2. CASE a # Worker
        BY <1>1, <2>2, <3>2 DEF Goto, TypeOK
      <3> QED BY <3>1, <3>2
    <2> QED BY <1>6, <2>1, <2>2 DEF WorkerTake
  <1>7. ASSUME ReaderQueue PROVE PageStep(a)
    BY <1>3, <1>6, <1>7 DEF ReaderQueue, Actors
  <1>8. ASSUME NEW e \in Events, SaveEvent(e) \/ Broadcast(e) PROVE PageStep(a)
    BY <1>2, <1>8 DEF SaveEvent, Broadcast, BroadcastMatch, BroadcastConn, DeliverStale, DeliverBuffered,
                DeliverOverflow, DeliverLive
  <1>9. ASSUME NEW c \in Conns, Teardown(c) \/ WriteFrame(c) \/ WriteFails(c) \/ SweepIdle(c)
        PROVE  PageStep(a)
    BY <1>2, <1>9 DEF Teardown, WriteFrame, WriteFails, SweepIdle
  <1>10. CASE UNCHANGED vars
    BY <1>2, <1>10 DEF vars
  <1> QED BY <1>4, <1>5, <1>7, <1>8, <1>9, <1>10 DEF Next

\* The queue grows by the job of a goroutine and shrinks at its head.
LEMMA StepQueue ==
  ASSUME TypeOK, [Next]_vars
  PROVE  \/ UNCHANGED jobs
         \/ jobs # <<>> /\ jobs' = Tail(jobs)
         \/ \E a \in Actors : pc[a] = "enqueue" /\ jobs' = Append(jobs, job[a])
  <1> DEFINE Goal == \/ UNCHANGED jobs
                     \/ jobs # <<>> /\ jobs' = Tail(jobs)
                     \/ \E a \in Actors : pc[a] = "enqueue" /\ jobs' = Append(jobs, job[a])
  <1>1. ASSUME NEW a \in Actors, Snapshot(a) PROVE Goal
    BY <1>1 DEF Snapshot, FetchPage, FetchFails, CloseOnQueryError, SendInvisible, SendVisible,
                SendEvent, SendStops, PageSent, EnqueueJob, DrainNext, CompleteSnapshot,
                CompleteLost, CompleteStale
  <1>2. ASSUME NEW c \in Conns, Client(c) \/ ReadLoop(c) PROVE Goal
    BY <1>1, <1>2 DEF Client, RegisterSender, Authenticate, SwitchIdentity, OtherFrame, CloseSend, ReqAdd,
                      ReadLoop, ReqGeneration, ReqNote, CloseRemove, CloseNote, Actors, tasks
  <1>3. ASSUME ReaderQueue PROVE Goal
    BY <1>1, <1>3 DEF ReaderQueue, WorkerTake, Actors
  <1>4. ASSUME NEW e \in Events, SaveEvent(e) \/ Broadcast(e) PROVE Goal
    BY <1>4 DEF SaveEvent, Broadcast, BroadcastMatch, BroadcastConn, DeliverStale, DeliverBuffered,
                DeliverOverflow, DeliverLive, tasks
  <1> QED BY <1>2, <1>3, <1>4 DEF Next, vars, Teardown, WriteFrame, WriteFails, SweepIdle, tasks

\* An entry that stays keeps its filter; what its snapshot has skipped stays
\* skipped; its buffer only grows by a delivery, until completeSnapshot.
EntryKept(c, s) ==
    /\ subs'[c][s].gen = subs[c][s].gen
    /\ subs'[c][s].filter = subs[c][s].filter
    /\ subs[c][s].skipped => subs'[c][s].skipped
    /\ \/ /\ subs'[c][s].done = subs[c][s].done
          /\ subs'[c][s].pending = subs[c][s].pending
       \/ \E e \in Events : \E t \in Targets :
             /\ DeliverBuffered(e, t) /\ t.conn = c /\ t.sub = s
             /\ subs'[c][s].done = subs[c][s].done
             /\ subs'[c][s].pending = Append(subs[c][s].pending, e)
       \/ \E a \in Actors :
             /\ CompleteSnapshot(a) /\ job[a].conn = c /\ job[a].sub = s
             /\ subs'[c][s].done
             /\ subs'[c][s].pending = <<>>

\* An entry is removed, replaced or kept.
LEMMA StepEntry ==
  ASSUME TypeOK, [Next]_vars, NEW c \in Conns, NEW s \in SubIDs
  PROVE  \/ subs'[c][s] = NoEntry
         \/ \E f \in Filters : ReqAdd(c, s, f)
         \/ EntryKept(c, s)
  <1> DEFINE Goal == \/ subs'[c][s] = NoEntry
                     \/ \E f \in Filters : ReqAdd(c, s, f)
                     \/ EntryKept(c, s)
  <1> SUFFICES Goal
    OBVIOUS
  <1>1. subs[c][s] \in Entries
    BY DEF TypeOK
  <1>2. ASSUME subs'[c][s] = subs[c][s] PROVE EntryKept(c, s)
    BY <1>2 DEF EntryKept
  <1>3. ASSUME UNCHANGED mgr PROVE EntryKept(c, s)
    BY <1>2, <1>3 DEF mgr
  <1>4. ASSUME NEW d \in Conns, NEW u \in SubIDs, RemoveLocked(d, u)
        PROVE  subs'[c][s] = NoEntry \/ EntryKept(c, s)
    <2>1. subs'[c][s] = IF c = d /\ s = u THEN NoEntry ELSE subs[c][s]
      BY <1>4 DEF RemoveLocked, TypeOK
    <2> QED BY <1>2, <2>1
  <1>5. ASSUME NEW a \in Actors, Snapshot(a) PROVE subs'[c][s] = NoEntry \/ EntryKept(c, s)
    <2> DEFINE d == job[a].conn
               u == job[a].sub
    <2>0. d \in Conns /\ u \in SubIDs
      BY DEF TypeOK, Jobs
    <2>1. CASE CloseOnQueryError(a)
      BY <1>2, <1>4, <2>0, <2>1 DEF CloseOnQueryError
    <2>2. ASSUME NEW e \in Events, SendEvent(a, e) PROVE EntryKept(c, s)
      <3>1. UNCHANGED subs \/ subs' = [subs EXCEPT ![d][u].skipped = TRUE]
        BY <2>2 DEF SendEvent
      <3> HIDE DEF d, u
      <3>2. CASE subs' = [subs EXCEPT ![d][u].skipped = TRUE]
        <4>1. \/ subs'[c][s] = subs[c][s]
              \/ subs'[c][s] = [subs[c][s] EXCEPT !.skipped = TRUE]
          BY <2>0, <3>2 DEF TypeOK
        <4> QED BY <1>1, <1>2, <4>1 DEF EntryKept, Entries
      <3> QED BY <1>2, <3>1, <3>2
    <2>3. CASE CompleteSnapshot(a)
      <3>1. subs' = [subs EXCEPT ![d][u] = [@ EXCEPT !.done = TRUE, !.pending = <<>>]]
        BY <2>3 DEF CompleteSnapshot
      <3>2. CASE d = c /\ u = s
        <4>1. subs'[c][s] = [subs[c][s] EXCEPT !.done = TRUE, !.pending = <<>>]
          BY <2>0, <3>1, <3>2 DEF TypeOK
        <4>2. /\ subs'[c][s].gen = subs[c][s].gen /\ subs'[c][s].filter = subs[c][s].filter
              /\ subs'[c][s].skipped = subs[c][s].skipped
              /\ subs'[c][s].done /\ subs'[c][s].pending = <<>>
          BY <1>1, <4>1 DEF Entries
        <4> QED BY <2>3, <3>2, <4>2 DEF EntryKept
      <3>3. CASE ~(d = c /\ u = s)
        <4>1. subs'[c][s] = subs[c][s]
          BY <2>0, <3>1, <3>3 DEF TypeOK
        <4> QED BY <1>2, <4>1
      <3> QED BY <3>2, <3>3
    <2>4. CASE CompleteLost(a)
      <3>1. subs' = [subs EXCEPT ![d][u].eoseLost = TRUE]
        BY <2>4 DEF CompleteLost
      <3> HIDE DEF d, u
      <3>2. \/ subs'[c][s] = subs[c][s]
            \/ subs'[c][s] = [subs[c][s] EXCEPT !.eoseLost = TRUE]
        BY <2>0, <3>1 DEF TypeOK
      <3> QED BY <1>1, <1>2, <3>2 DEF EntryKept, Entries
    <2> QED BY <1>3, <1>5, <2>1, <2>2, <2>3, <2>4
           DEF Snapshot, FetchPage, FetchFails, SendInvisible, SendVisible, SendStops, PageSent,
               EnqueueJob, DrainNext, CompleteStale
  <1>6. ASSUME NEW d \in Conns, Client(d) PROVE Goal
    <2>1. CASE SwitchIdentity(d)
      <3>1. \/ subs'[c][s] = subs[c][s]
            \/ subs'[c][s] = [subs[c][s] EXCEPT !.skipped = TRUE]
        BY <2>1 DEF SwitchIdentity, Withholding, TypeOK
      <3> QED BY <1>1, <1>2, <3>1 DEF EntryKept, Entries
    <2>2. ASSUME NEW u \in SubIDs, NEW f \in Filters, ReqAdd(d, u, f) PROVE Goal
      <3>1. CASE d = c /\ u = s
        BY <2>2, <3>1
      <3>2. CASE ~(d = c /\ u = s)
        BY <1>2, <2>2, <3>2 DEF ReqAdd, TypeOK
      <3> QED BY <3>1, <3>2
    <2> QED BY <1>3, <1>6, <2>1, <2>2
           DEF Client, RegisterSender, Authenticate, OtherFrame, CloseSend, EntryKept, mgr
  <1>7. ASSUME NEW d \in Conns, ReadLoop(d) PROVE Goal
    <2>1. CASE CloseRemove(d)
      <3>1. job[d].sub \in SubIDs
        BY DEF TypeOK, Actors, Jobs
      <3> QED BY <1>4, <2>1, <3>1 DEF CloseRemove
    <2> QED BY <1>3, <1>5, <1>7, <2>1 DEF ReadLoop, ReqGeneration, ReqNote, CloseNote, Actors
  <1>8. ASSUME NEW d \in Conns, Teardown(d) PROVE Goal
    BY <1>2, <1>8 DEF Teardown, TypeOK
  <1>9. ASSUME NEW e \in Events, NEW t \in Targets, DeliverBuffered(e, t) PROVE EntryKept(c, s)
    <2>1. t.conn \in Conns /\ t.sub \in SubIDs /\ subs[t.conn][t.sub] \in Entries
      BY DEF Targets, TypeOK
    <2>2. subs' = [subs EXCEPT ![t.conn][t.sub].pending = Append(@, e)]
      BY <1>9 DEF DeliverBuffered
    <2>3. CASE t.conn = c /\ t.sub = s
      <3>1. subs'[c][s] = [subs[c][s] EXCEPT !.pending = Append(@, e)]
        BY <2>1, <2>2, <2>3 DEF TypeOK
      <3>2. /\ subs'[c][s].gen = subs[c][s].gen /\ subs'[c][s].filter = subs[c][s].filter
            /\ subs'[c][s].skipped = subs[c][s].skipped
            /\ subs'[c][s].done = subs[c][s].done
            /\ subs'[c][s].pending = Append(subs[c][s].pending, e)
        BY <1>1, <3>1 DEF Entries
      <3> QED BY <1>9, <2>3, <3>2 DEF EntryKept
    <2>4. CASE ~(t.conn = c /\ t.sub = s)
      <3>1. subs'[c][s] = subs[c][s]
        BY <2>1, <2>2, <2>4 DEF TypeOK
      <3> QED BY <1>2, <3>1
    <2> QED BY <2>3, <2>4
  <1>10. ASSUME NEW e \in Events, Broadcast(e) PROVE Goal
    <2>1. ASSUME NEW t \in Targets, DeliverOverflow(e, t) PROVE Goal
      BY <1>4, <2>1 DEF DeliverOverflow, Targets
    <2> QED BY <1>3, <1>9, <1>10, <2>1
           DEF Broadcast, BroadcastMatch, BroadcastConn, DeliverStale, DeliverLive
  <1>11. ASSUME NEW e \in Events, SaveEvent(e) PROVE Goal
    BY <1>3, <1>11 DEF SaveEvent
  <1>12. ASSUME ReaderQueue PROVE Goal
    BY <1>3, <1>5, <1>12 DEF ReaderQueue, WorkerTake, Actors
  <1>13. ASSUME NEW d \in Conns, WriteFrame(d) \/ WriteFails(d) \/ SweepIdle(d) PROVE Goal
    BY <1>3, <1>13 DEF WriteFrame, WriteFails, SweepIdle
  <1>14. CASE UNCHANGED vars
    BY <1>3, <1>14 DEF vars
  <1> QED BY <1>6, <1>7, <1>8, <1>10, <1>11, <1>12, <1>13, <1>14 DEF Next

\* A live buffer is kept, emptied, or grows by the event being delivered.
LEMMA StepPending ==
  ASSUME TypeOK, [Next]_vars, NEW c \in Conns, NEW s \in SubIDs
  PROVE  \/ subs'[c][s].pending \in {subs[c][s].pending, <<>>}
         \/ \E e \in Events : \E t \in Targets :
               /\ DeliverBuffered(e, t) /\ t.conn = c /\ t.sub = s
               /\ subs'[c][s].pending = Append(subs[c][s].pending, e)
  <1>1. NoEntry.pending = <<>>
    BY DEF NoEntry, NewEntry
  <1>2. ASSUME NEW f \in Filters, ReqAdd(c, s, f) PROVE subs'[c][s].pending = <<>>
    BY <1>2 DEF ReqAdd, TypeOK, NewEntry
  <1>3. ASSUME EntryKept(c, s)
        PROVE  \/ subs'[c][s].pending \in {subs[c][s].pending, <<>>}
               \/ \E e \in Events : \E t \in Targets :
                     /\ DeliverBuffered(e, t) /\ t.conn = c /\ t.sub = s
                     /\ subs'[c][s].pending = Append(subs[c][s].pending, e)
    BY <1>3 DEF EntryKept
  <1> QED BY <1>1, <1>2, <1>3, StepEntry

\* A broadcast's deliveries to a connection have passed the visibility check.
LEMMA StepDeliveries ==
  ASSUME TypeOK, [Next]_vars, NEW e \in Events, NEW t \in pub'[e].cur
  PROVE  t \in pub[e].cur \/ (pub[e].todo # {} /\ Visible(t.conn, e))
  <1>1. ASSUME NEW d \in Events, SaveEvent(d) PROVE t \in pub[e].cur
    BY <1>1 DEF SaveEvent, TypeOK
  <1>2. ASSUME NEW d \in Events, BroadcastMatch(d) PROVE t \in pub[e].cur
    BY <1>2 DEF BroadcastMatch, TypeOK
  <1>3. ASSUME NEW d \in Events, NEW c \in Conns, BroadcastConn(d, c)
        PROVE  t \in pub[e].cur \/ (pub[e].todo # {} /\ Visible(t.conn, e))
    <2> DEFINE mine == {x \in pub[d].todo : x.conn = c}
    <2>1. /\ pub' = [pub EXCEPT ![d].todo = @ \ mine,
                                ![d].cur  = IF Visible(c, d) THEN mine ELSE {}]
          /\ mine # {}
      BY <1>3 DEF BroadcastConn
    <2>2. e # d => pub'[e] = pub[e]
      BY <2>1 DEF TypeOK
    <2>3. e = d => pub'[e].cur = IF Visible(c, d) THEN mine ELSE {}
      BY <2>1 DEF TypeOK
    <2> QED BY <2>1, <2>2, <2>3
  <1>4. ASSUME NEW d \in Events, NEW u \in Targets, DoneWith(d, u) PROVE t \in pub[e].cur
    BY <1>4 DEF DoneWith, TypeOK
  <1>5. ASSUME NEW d \in Events, Broadcast(d)
        PROVE  t \in pub[e].cur \/ (pub[e].todo # {} /\ Visible(t.conn, e))
    BY <1>2, <1>3, <1>4, <1>5 DEF Broadcast, DeliverStale, DeliverBuffered, DeliverOverflow, DeliverLive
  <1> QED BY <1>1, <1>5, StepEvents DEF events

\* Pages stay within the store.
LEMMA PrivPages ==
  ASSUME TypeOK, PagesStored, [Next]_vars
  PROVE  PagesStored'
  <1>1. stored \subseteq stored'
    BY StepEvents DEF SaveEvent, Broadcast, BroadcastMatch, BroadcastConn, DeliverStale,
                      DeliverBuffered, DeliverOverflow, DeliverLive, events
  <1>2. jobs \in Seq(Jobs)
    BY DEF TypeOK
  <1>3. ASSUME NEW a \in Actors PROVE job'[a].page \subseteq stored'
    <2>1. CASE job'[a].page \subseteq job[a].page \cup stored
      BY <1>1, <2>1 DEF PagesStored
    <2>2. CASE jobs # <<>> /\ job'[a] = Head(jobs)
      <3>1. 1 \in DOMAIN jobs /\ Head(jobs) = jobs[1]
        BY <1>2, <2>2
      <3> QED BY <1>1, <2>2, <3>1 DEF PagesStored
    <2> QED BY <2>1, <2>2, StepPages DEF PageStep
  <1>4. ASSUME NEW i \in DOMAIN jobs' PROVE jobs'[i].page \subseteq stored'
    <2>1. CASE UNCHANGED jobs
      BY <1>1, <2>1 DEF PagesStored
    <2>2. CASE jobs # <<>> /\ jobs' = Tail(jobs)
      <3>1. i + 1 \in DOMAIN jobs /\ jobs'[i] = jobs[i + 1]
        BY <1>2, <2>2
      <3> QED BY <1>1, <3>1 DEF PagesStored
    <2>3. ASSUME NEW a \in Actors, jobs' = Append(jobs, job[a]) PROVE jobs'[i].page \subseteq stored'
      <3>1. job[a] \in Jobs
        BY DEF TypeOK
      <3>2. \/ i \in DOMAIN jobs /\ jobs'[i] = jobs[i]
            \/ jobs'[i] = job[a]
        BY <1>2, <2>3, <3>1
      <3> QED BY <1>1, <3>2 DEF PagesStored
    <2> QED BY <2>1, <2>2, <2>3, StepQueue
  <1> QED BY <1>3, <1>4 DEF PagesStored

\* Whatever is about to be sent has been cleared, however long ago.
LEMMA PrivSources ==
  ASSUME TypeOK, PrivInv, [Next]_vars
  PROVE  SourcesCleared'
  <1> USE DEF PrivInv
  <1>1. \A c \in Conns : \A e \in Events : Cleared(c, e) => Cleared(c, e)'
    BY ClearedStays
  <1>2. \A c \in Conns : \A e \in Events : Sourced(c, e) => Cleared(c, e)
    BY DEF SourcesCleared
  <1>3. ASSUME NEW c \in Conns, NEW e \in Events, NEW a \in Actors,
               pc'[a] = "push", job'[a].conn = c, e \in job'[a].page, \A d \in job'[a].page : e <= d
        PROVE  Cleared(c, e)
    <2>1. CASE pc[a] = "push" /\ job'[a] = job[a]
      <3>1. Sourced(c, e)
        BY <1>3, <2>1 DEF Sourced
      <3> QED BY <1>2, <3>1
    <2>2. ASSUME NEW v \in Events, SendVisible(a, v) PROVE Cleared(c, e)
      <3>1. /\ job' = job /\ v \in job[a].page /\ (\A d \in job[a].page : v <= d)
            /\ Visible(job[a].conn, v)
        BY <2>2 DEF SendVisible
      <3>2. e = v
        <4>1. e <= v /\ v <= e
          BY <1>3, <3>1
        <4> QED BY <4>1, ConstantsAssumption DEF Events
      <3>3. e \in stored
        BY <3>1, <3>2 DEF PagesStored
      <3> QED BY <1>3, <3>1, <3>2, <3>3, VisibleCleared
    <2> QED BY <1>3, <2>1, <2>2, StepPages DEF PageStep
  <1>4. ASSUME NEW c \in Conns, NEW e \in Events, NEW t \in pub'[e].cur, t.conn = c
        PROVE  Cleared(c, e)
    <2>1. CASE t \in pub[e].cur
      <3>1. Sourced(c, e)
        BY <1>4, <2>1 DEF Sourced
      <3> QED BY <1>2, <3>1
    <2>2. CASE pub[e].todo # {} /\ Visible(t.conn, e)
      <3>1. e \in stored
        BY <2>2 DEF UnsavedUntouched
      <3> QED BY <1>4, <2>2, <3>1, VisibleCleared
    <2> QED BY <2>1, <2>2, StepDeliveries
  <1>5. ASSUME NEW c \in Conns, NEW e \in Events, NEW s \in SubIDs,
               NEW i \in DOMAIN subs'[c][s].pending, subs'[c][s].pending[i] = e
        PROVE  Cleared(c, e)
    <2> DEFINE p == subs[c][s].pending
    <2>0. p \in Seq(Events)
      BY DEF TypeOK, Entries
    <2>1. ASSUME i \in DOMAIN p, p[i] = e PROVE Cleared(c, e)
      <3>1. Sourced(c, e)
        BY <2>1 DEF Sourced
      <3> QED BY <1>2, <3>1
    <2>2. CASE subs'[c][s].pending \in {p, <<>>}
      BY <1>5, <2>1, <2>2
    <2>3. ASSUME NEW v \in Events, NEW t \in Targets, DeliverBuffered(v, t), t.conn = c, t.sub = s,
                 subs'[c][s].pending = Append(p, v)
          PROVE  Cleared(c, e)
      <3> HIDE DEF p
      <3>1. (i \in DOMAIN p /\ p[i] = e) \/ e = v
        BY <1>5, <2>0, <2>3
      <3>2. Sourced(c, v)
        BY <2>3 DEF DeliverBuffered, Sourced
      <3> QED BY <1>2, <2>1, <3>1, <3>2
    <2> QED BY <2>2, <2>3, StepPending
  <1>6. ASSUME NEW c \in Conns, NEW e \in Events, Sourced(c, e)' PROVE Cleared(c, e)
    BY <1>3, <1>4, <1>5, <1>6 DEF Sourced
  <1> QED BY <1>1, <1>6 DEF SourcesCleared

\* And so is whatever is sent.
LEMMA PrivWire ==
  ASSUME TypeOK, PrivInv, [Next]_vars
  PROVE  WireCleared'
  <1>1. \A c \in Conns : \A e \in Events : Cleared(c, e) => Cleared(c, e)'
    BY ClearedStays DEF PrivInv
  <1>2. PICK c \in Conns, fs \in Seq(Frames) :
           /\ wire' = [wire EXCEPT ![c] = @ \o fs]
           /\ \A k \in 1 .. Len(fs) : fs[k].ev # 0 => fs[k].ev \in Events /\ Sourced(c, fs[k].ev)
    BY StepFrames DEF SendsSourced
  <1> DEFINE w == wire[c]
  <1>3. /\ w \in Seq(Frames) /\ Len(w) \in Nat /\ Len(fs) \in Nat
        /\ DOMAIN w = 1 .. Len(w)
        /\ DOMAIN wire'[c] = 1 .. Len(w) + Len(fs)
        /\ \A i \in 1 .. Len(w) : wire'[c][i] = w[i]
        /\ \A i \in 1 .. Len(fs) : wire'[c][Len(w) + i] = fs[i]
        /\ \A d \in Conns : d # c => wire'[d] = wire[d]
    BY <1>2, ConcatAppends
  <1>4. ASSUME NEW d \in Conns, NEW i \in DOMAIN wire'[d], wire'[d][i].ev # 0
        PROVE  wire'[d][i].ev \in Events /\ Cleared(d, wire'[d][i].ev)
    <2>1. CASE i \in DOMAIN wire[d] /\ wire'[d][i] = wire[d][i]
      BY <1>4, <2>1 DEF PrivInv, WireCleared
    <2>2. CASE d = c /\ i > Len(w)
      <3> DEFINE k == i - Len(w)
      <3>1. k \in 1 .. Len(fs) /\ i = Len(w) + k
        BY <1>3, <2>2
      <3>2. wire'[d][i] = fs[k]
        BY <1>3, <2>2, <3>1
      <3>3. fs[k].ev \in Events /\ Sourced(c, fs[k].ev)
        BY <1>2, <1>4, <3>1, <3>2
      <3> QED BY <2>2, <3>2, <3>3 DEF PrivInv, SourcesCleared
    <2>3. CASE d = c /\ ~(i > Len(w))
      <3>1. i \in 1 .. Len(w)
        BY <1>3, <2>3
      <3> QED BY <1>3, <2>1, <2>3, <3>1
    <2>4. CASE d # c
      BY <1>3, <2>1, <2>4
    <2> QED BY <2>2, <2>3, <2>4
  <1>5. ASSUME NEW d \in Conns, NEW i \in DOMAIN wire'[d], wire'[d][i].ev # 0
        PROVE  /\ wire'[d][i].ev \in Events
               /\ wire'[d][i].ev \in stored'
               /\ wire'[d][i].ev \in Private => wire'[d][i].ev \notin auth'[d].late
    BY <1>1, <1>4, <1>5 DEF Cleared
  <1> QED BY <1>5 DEF WireCleared, Cleared

\* Whatever a connection is sent has been cleared for it.
THEOREM ClearanceCorrect == Spec => []PrivInv
  <1>1. Init => PrivInv
    <2> SUFFICES ASSUME Init PROVE PrivInv
      OBVIOUS
    <2>1. NoJob.page = {} /\ NoEntry.pending = <<>> /\ DOMAIN <<>> = {}
      BY DEF NoJob, NewJob, NoEntry, NewEntry
    <2>2. UnsavedUntouched /\ RecipientSeesAll
      BY DEF Init, UnsavedUntouched, RecipientSeesAll, NewAuth
    <2>3. PagesStored
      BY <2>1 DEF Init, PagesStored
    <2>4. SourcesCleared
      <3>1. \A a \in Actors : job[a].page = {}
        BY <2>1 DEF Init
      <3>2. \A e \in Events : pub[e].cur = {}
        BY DEF Init
      <3>3. \A c \in Conns, s \in SubIDs : DOMAIN subs[c][s].pending = {}
        BY <2>1 DEF Init
      <3> QED BY <3>1, <3>2, <3>3 DEF SourcesCleared, Sourced
    <2>5. WireCleared
      BY <2>1 DEF Init, WireCleared
    <2> QED BY <2>2, <2>3, <2>4, <2>5 DEF PrivInv
  <1>2. TypeOK /\ PrivInv /\ [Next]_vars => PrivInv'
    BY PrivPub, PrivAuth, PrivPages, PrivSources, PrivWire DEF PrivInv
  <1> QED BY <1>1, <1>2, TypeCorrect, PTL DEF Spec

\* A gift wrap is only ever sent to a connection that was authenticated as its
\* recipient after the wrap was saved, although the key may change between the
\* visibility check and the sending.
THEOREM WrapsOnlyToRecipient == Spec => []PrivateOnlyToRecipient
  <1>1. PrivInv => PrivateOnlyToRecipient
    <2>1. 0 \notin Private
      BY ConstantsAssumption DEF Events
    <2> QED BY <2>1 DEF PrivInv, WireCleared, Cleared, PrivateOnlyToRecipient
  <1> QED BY <1>1, ClearanceCorrect, PTL

-----------------------------------------------------------------------------
(* The hand-over from snapshot to live stream. *)

Sent(c, g, e) == \E i \in DOMAIN wire[c] : wire[c][i].gen = g /\ wire[c][i].ev = e

Target(c, s) == [conn |-> c, sub |-> s, gen |-> subs[c][s].gen]

\* The client has e, or e is on its way to it without the snapshot's help.
Reached(c, s, e) ==
    \/ Sent(c, subs[c][s].gen, e)
    \/ pub[e].st = "saved"
    \/ Target(c, s) \in pub[e].todo \cup pub[e].cur
    \/ \E i \in DOMAIN subs[c][s].pending : subs[c][s].pending[i] = e

\* The subscriptions NoGap speaks about, live or still in their snapshot.
Promised(c, s) ==
    /\ subs[c][s].gen # 0
    /\ ~subs[c][s].skipped
    /\ subs[c][s].filter.limit = 0
    /\ c \notin cancelled

\* Job j works for the entry that is in the map.
Answers(j) == subs[j.conn][j.sub].gen # 0 /\ j.gen = subs[j.conn][j.sub].gen

\* What is left of the snapshot, the page in hand and the events after the
\* cursor, covers every stored event that has not been reached otherwise.
JobOK(j) ==
    /\ j.filter = subs[j.conn][j.sub].filter.set
    /\ subs[j.conn][j.sub].filter.limit = 0 => j.left = 0
    /\ Promised(j.conn, j.sub) =>
         \A e \in stored \cap subs[j.conn][j.sub].filter.set :
            Reached(j.conn, j.sub, e) \/ e \in j.page \/ (j.more /\ e > j.cursor)

\* The manager: an entry's connection is registered, an entry that may withhold
\* gift wraps says so, and a live entry has no buffer.
EntriesAgree ==
    \A c \in Conns, s \in SubIDs :
       /\ subs[c][s].gen # 0 => c \in senders
       /\ subs[c][s].gen # 0 /\ subs[c][s].filter.set \cap Private # {} /\ auth[c].key # "recipient"
             => subs[c][s].skipped
       /\ subs[c][s].done => subs[c][s].pending = <<>>

\* A live subscription has missed nothing ...
LiveComplete ==
    \A c \in Conns, s \in SubIDs :
       Promised(c, s) /\ subs[c][s].done
          => \A e \in stored \cap subs[c][s].filter.set : Reached(c, s, e)

\* ... and whoever holds a running snapshot still covers what is missing.
JobsCover ==
    /\ \A a \in Actors : \A j \in Jobs : job[a] = j /\ Answers(j) => JobOK(j)
    /\ \A i \in DOMAIN jobs : \A j \in Jobs : jobs[i] = j /\ Answers(j) => JobOK(j)
    /\ \A c \in Conns : \A j \in Jobs :
          job[c] = j /\ pc[c] = "gen" => j.conn = c /\ (subs[c][j.sub].gen # 0 => JobOK(j))

\* A page is in hand only while it is sent; the last one has been fetched when
\* the snapshot is completed.
PagesInHand ==
    /\ \A a \in Actors : /\ pc[a] \notin {"send", "push"} => job[a].page = {}
                         /\ pc[a] = "complete" => ~job[a].more
    /\ \A i \in DOMAIN jobs : jobs[i].page = {}

\* Inductive: NoGap speaks of live subscriptions only, and what it says of them
\* is decided while their snapshots are paged through.
HandoverInv == EntriesAgree /\ LiveComplete /\ JobsCover /\ PagesInHand

\* A non-empty set of events has a first event.
LEMMA EventSetMin ==
  ASSUME NEW S, S \subseteq Events, S # {}
  PROVE  \E e \in S : \A d \in S : e <= d
  <1> DEFINE R == OpToRel(<, Nat)
  <1>1. S \subseteq Nat
    BY ConstantsAssumption DEF Events
  <1>2. \A m, n \in Nat : m < n => <<m, n>> \in R
    BY DEF OpToRel
  <1>3. IsWellFoundedOn(R, Nat)
    BY NatLessThanWellFounded
  <1> HIDE DEF R
  <1>4. PICK e \in S : \A d \in S : ~(d < e)
    BY <1>1, <1>2, <1>3, WFMin, Zenon
  <1> QED BY <1>1, <1>4

\* A page takes the first candidates.
LEMMA PageFirst ==
  ASSUME NEW j \in Jobs, NEW e \in Candidates(j), e \notin Page(j), NEW d \in Page(j)
  PROVE  d < e
  <1> DEFINE Before(x) == {y \in Candidates(j) : y < x}
  <1>1. Candidates(j) \subseteq Events /\ Events \subseteq Nat
    BY ConstantsAssumption DEF Candidates, Jobs, Events
  <1>2. d \in Candidates(j) /\ Cardinality(Before(d)) < PageLimit(j)
    BY DEF Page
  <1>3. ~(Cardinality(Before(e)) < PageLimit(j))
    BY DEF Page
  <1> HIDE DEF Candidates
  <1>4. IsFiniteSet(Before(d)) /\ Cardinality(Before(d)) \in Nat /\ Cardinality(Before(e)) \in Nat
    <2>1. Before(d) \subseteq Events /\ Before(e) \subseteq Events
      BY <1>1
    <2> QED BY <2>1, EventSetFinite
  <1>5. ASSUME ~(d < e) PROVE FALSE
    <2>1. Before(e) \subseteq Before(d)
      <3>1. e \in Nat /\ d \in Nat /\ \A y \in Candidates(j) : y \in Nat
        BY <1>1, <1>2
      <3>2. \A y \in Candidates(j) : y < e => y < d
        BY <1>5, <3>1
      <3> QED BY <3>2
    <2>2. Cardinality(Before(e)) <= Cardinality(Before(d))
      BY <1>4, <2>1, FS_Subset
    <2>3. PageLimit(j) \in Nat
      BY ConstantsAssumption DEF PageLimit, Jobs
    <2> HIDE DEF Before
    <2> QED BY <1>2, <1>3, <1>4, <2>2, <2>3
  <1> QED BY <1>5

\* A page that is not full has taken them all.
LEMMA PageAll ==
  ASSUME NEW j \in Jobs, Cardinality(Page(j)) < PageLimit(j)
  PROVE  Candidates(j) \subseteq Page(j)
  <1> DEFINE Rest == Candidates(j) \ Page(j)
             Before(x) == {y \in Candidates(j) : y < x}
  <1>1. Candidates(j) \subseteq Events /\ Events \subseteq Nat /\ Page(j) \subseteq Candidates(j)
    BY ConstantsAssumption DEF Candidates, Jobs, Events, Page
  <1>2. ASSUME Rest # {} PROVE FALSE
    <2>1. PICK e \in Rest : \A d \in Rest : e <= d
      BY <1>1, <1>2, EventSetMin
    <2>2. Before(e) \subseteq Page(j)
      <3>1. e \in Nat /\ \A y \in Candidates(j) : y \in Nat
        BY <1>1, <2>1
      <3>2. \A y \in Candidates(j) : y < e => y \notin Rest
        BY <2>1, <3>1
      <3> QED BY <3>2
    <2>3. IsFiniteSet(Page(j)) /\ Cardinality(Page(j)) \in Nat
      BY <1>1, EventSetFinite
    <2>4. Cardinality(Before(e)) <= Cardinality(Page(j)) /\ Cardinality(Before(e)) \in Nat
      <3>1. Before(e) \subseteq Events
        BY <1>1
      <3> QED BY <2>2, <2>3, <3>1, FS_Subset, EventSetFinite
    <2>5. ~(Cardinality(Before(e)) < PageLimit(j))
      BY <2>1 DEF Page
    <2>6. PageLimit(j) \in Nat
      BY ConstantsAssumption DEF PageLimit, Jobs
    <2> HIDE DEF Before
    <2> QED BY <2>3, <2>4, <2>5, <2>6
  <1> QED BY <1>2

\* fetchREQPage without a limit: a candidate is in the page or after the cursor
\* of a job that goes on.
LEMMA FetchedCovers ==
  ASSUME NEW j \in Jobs, j.left = 0, NEW e \in Candidates(j)
  PROVE  /\ Fetched(j).left = 0
         /\ e \in Fetched(j).page \/ (Fetched(j).more /\ e > Fetched(j).cursor)
  <1> DEFINE n == Cardinality(Page(j))
  <1>1. Candidates(j) \subseteq Events /\ Events \subseteq Nat /\ Page(j) \subseteq Candidates(j)
    BY ConstantsAssumption DEF Candidates, Jobs, Events, Page
  <1>2. n \in Nat /\ PageLimit(j) \in Nat
    BY <1>1, EventSetFinite, ConstantsAssumption DEF PageLimit, Jobs
  <1>3. /\ Fetched(j).page = Page(j)
        /\ Fetched(j).cursor = AdvancedCursor(j)
        /\ Fetched(j).left = IF j.left > n THEN j.left - n ELSE 0
        /\ Fetched(j).more = ~(n < PageLimit(j) \/ (j.left > 0 /\ j.left <= n))
    BY DEF Fetched, Jobs
  <1>4. ASSUME e \notin Page(j) PROVE ~(n < PageLimit(j)) /\ e > AdvancedCursor(j)
    <2>1. ~(n < PageLimit(j))
      BY <1>4, PageAll
    <2>2. CASE Page(j) = {}
      BY <2>1, <2>2 DEF AdvancedCursor, Candidates
    <2>3. CASE Page(j) # {}
      <3>1. \E x \in Page(j) : \A d \in Page(j) : d <= x
        BY <1>1, <2>3, EventSetMax
      <3>2. AdvancedCursor(j) \in Page(j)
        BY <2>3, <3>1 DEF AdvancedCursor
      <3>3. AdvancedCursor(j) < e
        BY <1>4, <3>2, PageFirst
      <3> QED BY <1>1, <2>1, <3>2, <3>3
    <2> QED BY <2>1, <2>2, <2>3
  <1>5. Fetched(j).left = 0 /\ Fetched(j).more = ~(n < PageLimit(j))
    <2> HIDE DEF n
    <2> QED BY <1>2, <1>3
  <1> QED BY <1>3, <1>4, <1>5

\* A connection that is shut down stays so.
LEMMA StepCancelled ==
  ASSUME [Next]_vars
  PROVE  cancelled \subseteq cancelled'
  <1>1. ASSUME NEW a \in Actors, Snapshot(a) PROVE cancelled \subseteq cancelled'
    BY <1>1 DEF Snapshot, FetchPage, FetchFails, CloseOnQueryError, SendInvisible, SendVisible,
                SendEvent, SendStops, PageSent, EnqueueJob, DrainNext, CompleteSnapshot,
                CompleteLost, CompleteStale, out
  <1>2. ASSUME NEW c \in Conns, Client(c) \/ ReadLoop(c) PROVE cancelled \subseteq cancelled'
    BY <1>1, <1>2 DEF Client, RegisterSender, Authenticate, SwitchIdentity, OtherFrame, CloseSend, ReqAdd,
                      ReadLoop, ReqGeneration, ReqNote, CloseRemove, CloseNote, Actors, out
  <1>3. ASSUME ReaderQueue PROVE cancelled \subseteq cancelled'
    BY <1>1, <1>3 DEF ReaderQueue, WorkerTake, Actors, out
  <1>4. ASSUME NEW e \in Events, SaveEvent(e) \/ Broadcast(e) PROVE cancelled \subseteq cancelled'
    BY <1>4 DEF SaveEvent, Broadcast, BroadcastMatch, BroadcastConn, DeliverStale, DeliverBuffered,
                DeliverOverflow, DeliverLive, EnqueueSubscriptionFrame, out
  <1> QED BY <1>2, <1>3, <1>4 DEF Next, vars, Teardown, WriteFrame, WriteFails, SweepIdle, out

\* What is sent stays sent.
LEMMA SentStays ==
  ASSUME TypeOK, [Next]_vars, NEW c \in Conns
  PROVE  \A i \in DOMAIN wire[c] : i \in DOMAIN wire'[c] /\ wire'[c][i] = wire[c][i]
  <1>1. PICK d \in Conns, fs \in Seq(Frames) : wire' = [wire EXCEPT ![d] = @ \o fs]
    BY StepFrames DEF SendsSourced
  <1>2. /\ Len(wire[d]) \in Nat /\ Len(fs) \in Nat
        /\ DOMAIN wire[d] = 1 .. Len(wire[d])
        /\ DOMAIN wire'[d] = 1 .. Len(wire[d]) + Len(fs)
        /\ \A i \in 1 .. Len(wire[d]) : wire'[d][i] = wire[d][i]
        /\ \A b \in Conns : b # d => wire'[b] = wire[b]
    BY <1>1, ConcatAppends
  <1> QED BY <1>2

\* A promise that holds after a step on an entry that was kept held before it.
LEMMA PromisedBefore ==
  ASSUME [Next]_vars, NEW c \in Conns, NEW s \in SubIDs, EntryKept(c, s), Promised(c, s)'
  PROVE  /\ Promised(c, s)
         /\ c \notin cancelled' /\ ~subs'[c][s].skipped
         /\ subs'[c][s].gen = subs[c][s].gen /\ subs[c][s].gen # 0
         /\ subs'[c][s].filter = subs[c][s].filter
  BY StepCancelled DEF EntryKept, Promised

\* A broadcast that is to reach an entry does so, unless the connection is shut
\* down or the entry marked as withholding.
LEMMA TargetStays ==
  ASSUME TypeOK, GenInv, EntriesAgree, [Next]_vars, NEW c \in Conns, NEW s \in SubIDs, NEW e \in Events,
         EntryKept(c, s), Promised(c, s)', e \in subs[c][s].filter.set,
         pub[e].st = "saved" \/ Target(c, s) \in pub[e].todo \cup pub[e].cur
  PROVE  Reached(c, s, e)'
  <1> DEFINE g == subs[c][s].gen
             T == [conn |-> c, sub |-> s, gen |-> g]
  <1>1. /\ g # 0 /\ subs'[c][s].gen = g
        /\ c \notin cancelled' /\ ~subs[c][s].skipped
    BY PromisedBefore DEF Promised
  <1>2. g \in Gens /\ g \notin closed /\ c \in senders
    <2>1. g \in 0 .. MaxGen
      BY DEF TypeOK, Entries
    <2>2. g \in Gens
      BY <1>1, <2>1, ConstantsAssumption DEF Gens
    <2> QED BY <1>1, <2>2 DEF GenInv, GensAgree, EntriesAgree
  <1>3. SameSnapshot(c, s, g)
    BY <1>1, <1>2 DEF SameSnapshot
  <1>4. ASSUME pub'[e].st = "saved" \/ T \in pub'[e].todo \cup pub'[e].cur PROVE Reached(c, s, e)'
    BY <1>1, <1>4 DEF Reached, Target
  <1>5. ASSUME pub'[e] = pub[e] PROVE Reached(c, s, e)'
    BY <1>4, <1>5 DEF Target
  <1>6. ASSUME NEW d \in Events, SaveEvent(d) PROVE Reached(c, s, e)'
    <2>1. pub' = [pub EXCEPT ![d].st = "saved"]
      BY <1>6 DEF SaveEvent
    <2>2. pub'[e] = pub[e] \/ pub'[e].st = "saved"
      BY <2>1 DEF TypeOK
    <2> QED BY <1>4, <1>5, <2>2
  <1>7. CASE BroadcastMatch(e)
    <2>1. pub'[e].todo = {t \in Targets : /\ t.conn \in senders
                                          /\ t.gen = subs[t.conn][t.sub].gen
                                          /\ t.gen \notin closed
                                          /\ e \in subs[t.conn][t.sub].filter.set}
      BY <1>7 DEF BroadcastMatch, TypeOK
    <2>2. T \in pub'[e].todo
      BY <1>2, <2>1 DEF Targets
    <2> QED BY <1>4, <2>2
  <1>8. ASSUME NEW d \in Conns, BroadcastConn(e, d) PROVE Reached(c, s, e)'
    <2> DEFINE mine == {t \in pub[e].todo : t.conn = d}
    <2>1. /\ pub'[e].todo = pub[e].todo \ mine /\ pub'[e].st = pub[e].st
          /\ pub'[e].cur = IF Visible(d, e) THEN mine ELSE {}
          /\ pub[e].cur = {}
      BY <1>8 DEF BroadcastConn, TypeOK
    <2>2. pub[e].st = "saved" \/ T \in pub[e].todo
      BY <2>1 DEF Target
    <2>3. T.conn = c
      OBVIOUS
    <2>4. ASSUME T \in mine PROVE Visible(d, e)
      <3>1. d = c
        BY <2>3, <2>4
      <3>2. e \in Private => auth[c].key = "recipient"
        BY <1>1 DEF EntriesAgree
      <3> QED BY <3>1, <3>2 DEF Visible
    <2> HIDE DEF T
    <2> QED BY <1>4, <2>1, <2>2, <2>4
  <1>9. ASSUME NEW t \in Targets, DoneWith(e, t), t # T PROVE Reached(c, s, e)'
    <2>1. pub'[e].st = pub[e].st /\ pub'[e].todo = pub[e].todo /\ pub'[e].cur = pub[e].cur \ {t}
      BY <1>9 DEF DoneWith, TypeOK
    <2> QED BY <1>4, <1>9, <2>1 DEF Target
  <1>10. ASSUME NEW t \in Targets, t = T, DeliverStale(e, t) PROVE FALSE
    BY <1>3, <1>10 DEF DeliverStale
  <1>11. ASSUME NEW t \in Targets, t = T, DeliverBuffered(e, t) PROVE Reached(c, s, e)'
    <2>1. subs' = [subs EXCEPT ![c][s].pending = Append(@, e)]
      BY <1>11 DEF DeliverBuffered
    <2>2. subs[c][s].pending \in Seq(Events) /\ subs[c][s] \in Entries
      BY DEF TypeOK, Entries
    <2>3. subs'[c][s].pending = Append(subs[c][s].pending, e)
      BY <2>1, <2>2 DEF TypeOK, Entries
    <2>4. \E i \in DOMAIN subs'[c][s].pending : subs'[c][s].pending[i] = e
      <3>1. LET p == subs[c][s].pending
            IN  Len(p) + 1 \in DOMAIN Append(p, e) /\ Append(p, e)[Len(p) + 1] = e
        BY <2>2
      <3> QED BY <2>3, <3>1
    <2> QED BY <2>4 DEF Reached
  <1>12. ASSUME NEW t \in Targets, t = T, DeliverOverflow(e, t) PROVE FALSE
    <2>1. RemoveLocked(c, s)
      BY <1>12 DEF DeliverOverflow
    <2>2. subs'[c][s].gen = 0
      BY <2>1 DEF RemoveLocked, TypeOK, NoEntry, NewEntry
    <2> QED BY <1>1, <2>2
  <1>13. ASSUME NEW t \in Targets, t = T, DeliverLive(e, t) PROVE Reached(c, s, e)'
    <2> DEFINE f == Frame("live", s, g, e)
    <2>1. EnqueueSubscriptionFrame(c, f)
      BY <1>13 DEF DeliverLive
    <2>2. f \in Frames /\ f.gen = g /\ f.ev = e
      BY <1>2, FrameType, EventsInRange DEF Frame
    <2> HIDE DEF f
    <2>3. Enqueue(c, f)
      BY <1>1, <2>1 DEF EnqueueSubscriptionFrame
    <2>4. Len(wire[c]) + 1 \in DOMAIN wire'[c] /\ wire'[c][Len(wire[c]) + 1] = f
      BY <2>2, <2>3, EnqueueAppends
    <2>5. \E i \in DOMAIN wire'[c] : wire'[c][i].gen = subs'[c][s].gen /\ wire'[c][i].ev = e
      BY <1>1, <2>2, <2>4
    <2> QED BY <2>5 DEF Reached, Sent
  <1>14. ASSUME NEW d \in Events, Broadcast(d), d # e PROVE pub'[e] = pub[e]
    BY <1>14 DEF Broadcast, BroadcastMatch, BroadcastConn, DeliverStale, DeliverBuffered,
                  DeliverOverflow, DeliverLive, DoneWith, TypeOK
  <1>15. CASE Broadcast(e)
    <2>1. ASSUME NEW t \in Targets, DeliverStale(e, t) \/ DeliverBuffered(e, t)
                                    \/ DeliverOverflow(e, t) \/ DeliverLive(e, t)
          PROVE  Reached(c, s, e)'
      <3>1. DoneWith(e, t)
        BY <2>1 DEF DeliverStale, DeliverBuffered, DeliverOverflow, DeliverLive
      <3> HIDE DEF T
      <3> QED BY <1>9, <1>10, <1>11, <1>12, <1>13, <2>1, <3>1
    <2> QED BY <1>7, <1>8, <1>15, <2>1 DEF Broadcast
  <1> QED BY <1>5, <1>6, <1>14, <1>15, StepEvents DEF events

\* An event on its way to the client stays on its way until it is sent.
LEMMA ReachedStays ==
  ASSUME TypeOK, GenInv, EntriesAgree, [Next]_vars, NEW c \in Conns, NEW s \in SubIDs, NEW e \in Events,
         EntryKept(c, s), Promised(c, s)', e \in subs[c][s].filter.set, Reached(c, s, e)
  PROVE  Reached(c, s, e)'
  <1>1. subs'[c][s].gen = subs[c][s].gen /\ c \notin cancelled'
    BY PromisedBefore
  <1>2. CASE Sent(c, subs[c][s].gen, e)
    <2>1. \E i \in DOMAIN wire'[c] : wire'[c][i].gen = subs'[c][s].gen /\ wire'[c][i].ev = e
      BY <1>1, <1>2, SentStays DEF Sent
    <2> QED BY <2>1 DEF Reached, Sent
  <1>3. CASE pub[e].st = "saved" \/ Target(c, s) \in pub[e].todo \cup pub[e].cur
    BY <1>3, TargetStays
  <1>4. ASSUME NEW i \in DOMAIN subs[c][s].pending, subs[c][s].pending[i] = e
        PROVE  Reached(c, s, e)'
    <2> DEFINE p == subs[c][s].pending
    <2>0. p \in Seq(Events)
      BY DEF TypeOK, Entries
    <2>1. CASE subs'[c][s].pending = p
      BY <1>4, <2>1 DEF Reached
    <2>2. ASSUME NEW v \in Events, subs'[c][s].pending = Append(p, v) PROVE Reached(c, s, e)'
      <3>1. i \in DOMAIN Append(p, v) /\ Append(p, v)[i] = e
        BY <1>4, <2>0
      <3> QED BY <2>2, <3>1 DEF Reached
    <2>3. ASSUME NEW a \in Actors, CompleteSnapshot(a), job[a].conn = c, job[a].sub = s
          PROVE  Reached(c, s, e)'
      <3>0. PICK fs \in Seq(Frames) :
               /\ wire' = [wire EXCEPT ![job[a].conn] = @ \o fs]
               /\ Len(fs) >= 1 /\ fs[1].kind = "eose" /\ fs[1].ev = 0
               /\ \A k \in 1 .. Len(fs) : /\ fs[k].gen = job[a].gen
                                          /\ fs[k].sub = job[a].sub
               /\ \A k \in 2 .. Len(fs) :
                     /\ fs[k].kind = "live"
                     /\ k - 1 \in DOMAIN subs[job[a].conn][job[a].sub].pending
                     /\ fs[k].ev = subs[job[a].conn][job[a].sub].pending[k - 1]
               /\ \/ Len(fs) = Len(subs[job[a].conn][job[a].sub].pending) + 1
                  \/ job[a].conn \in cancelled'
        BY <2>3, CompleteFrames, Zenon
      <3>1. /\ wire' = [wire EXCEPT ![c] = @ \o fs]
            /\ \A k \in 1 .. Len(fs) : fs[k].gen = job[a].gen
            /\ \A k \in 2 .. Len(fs) : fs[k].ev = p[k - 1]
            /\ Len(fs) = Len(p) + 1
        BY <1>1, <2>3, <3>0
      <3>2. job[a].gen = subs[c][s].gen
        BY <2>3, CompleteFrames
      <3> DEFINE k == i + 1
      <3>3. k \in 1 .. Len(fs) /\ k \in 2 .. Len(fs) /\ k - 1 = i
        <4>1. i \in 1 .. Len(p) /\ Len(p) \in Nat
          BY <1>4, <2>0
        <4> QED BY <3>1, <4>1
      <3>4. fs[k].gen = subs'[c][s].gen /\ fs[k].ev = e
        BY <1>1, <1>4, <3>1, <3>2, <3>3
      <3> HIDE DEF k
      <3>5. Len(wire[c]) + k \in DOMAIN wire'[c] /\ wire'[c][Len(wire[c]) + k] = fs[k]
        <4>1. /\ Len(wire[c]) \in Nat /\ Len(fs) \in Nat
              /\ DOMAIN wire'[c] = 1 .. Len(wire[c]) + Len(fs)
              /\ \A x \in 1 .. Len(fs) : wire'[c][Len(wire[c]) + x] = fs[x]
          BY <3>1, ConcatAppends
        <4> QED BY <3>3, <4>1
      <3>6. \E x \in DOMAIN wire'[c] : wire'[c][x].gen = subs'[c][s].gen /\ wire'[c][x].ev = e
        BY <3>4, <3>5
      <3> QED BY <3>6 DEF Reached, Sent
    <2> QED BY <2>1, <2>2, <2>3 DEF EntryKept
  <1> QED BY <1>2, <1>3, <1>4 DEF Reached

\* An event that a step saves has its broadcast before it.
LEMMA NewlySaved ==
  ASSUME TypeOK, [Next]_vars, NEW e \in stored', e \notin stored
  PROVE  e \in Events /\ pub'[e].st = "saved"
  <1>1. ASSUME NEW d \in Events, Broadcast(d) PROVE UNCHANGED stored
    BY <1>1 DEF Broadcast, BroadcastMatch, BroadcastConn, DeliverStale, DeliverBuffered,
                DeliverOverflow, DeliverLive
  <1>2. PICK d \in Events : SaveEvent(d)
    BY <1>1, StepEvents DEF events
  <1>3. e = d
    BY <1>2 DEF SaveEvent
  <1> QED BY <1>2, <1>3 DEF SaveEvent, TypeOK

\* A job whose entry is kept still covers what is missing.
LEMMA JobStays ==
  ASSUME TypeOK, GenInv, EntriesAgree, [Next]_vars, NEW j \in Jobs, JobOK(j), EntryKept(j.conn, j.sub)
  PROVE  JobOK(j)'
  <1> DEFINE c == j.conn
             s == j.sub
  <1>1. c \in Conns /\ s \in SubIDs
    BY DEF Jobs
  <1>2. subs'[c][s].filter = subs[c][s].filter /\ subs'[c][s].gen = subs[c][s].gen
    BY DEF EntryKept
  <1>3. subs[c][s].filter.set \subseteq Events
    <2>1. subs[c][s].filter \in Filters \cup {NoFilter}
      BY <1>1 DEF TypeOK, Entries
    <2> QED BY <2>1, ConstantsAssumption DEF NoFilter
  <1>4. ASSUME Promised(c, s)', NEW e \in stored' \cap subs[c][s].filter.set
        PROVE  Reached(c, s, e)' \/ e \in j.page \/ (j.more /\ e > j.cursor)
    <2>1. Promised(c, s)
      BY <1>1, <1>4, PromisedBefore
    <2>2. CASE e \in stored
      <3>1. Reached(c, s, e) \/ e \in j.page \/ (j.more /\ e > j.cursor)
        BY <1>4, <2>1, <2>2 DEF JobOK
      <3> QED BY <1>1, <1>3, <1>4, <3>1, ReachedStays
    <2>3. CASE e \notin stored
      <3>1. pub'[e].st = "saved"
        BY <1>4, <2>3, NewlySaved
      <3> QED BY <3>1 DEF Reached
    <2> QED BY <2>2, <2>3
  <1>5. /\ j.filter = subs'[c][s].filter.set
        /\ subs'[c][s].filter.limit = 0 => j.left = 0
    BY <1>2 DEF JobOK
  <1>6. ASSUME Promised(c, s)'
        PROVE  \A e \in stored' \cap subs'[c][s].filter.set :
                  Reached(c, s, e)' \/ e \in j.page \/ (j.more /\ e > j.cursor)
    BY <1>2, <1>4, <1>6
  <1> QED BY <1>5, <1>6 DEF JobOK

\* A job that works for an entry did so before the step.
LEMMA AnswersBefore ==
  ASSUME TypeOK, GenInv, [Next]_vars, NEW j \in Jobs, j.gen <= nextGen, Answers(j)'
  PROVE  Answers(j) /\ EntryKept(j.conn, j.sub)
  <1> DEFINE c == j.conn
             s == j.sub
  <1>1. c \in Conns /\ s \in SubIDs /\ nextGen \in Nat /\ j.gen \in Nat
    BY ConstantsAssumption DEF Jobs, TypeOK
  <1>2. subs'[c][s].gen # 0 /\ j.gen = subs'[c][s].gen
    BY DEF Answers
  <1>3. subs'[c][s] # NoEntry
    BY <1>2 DEF NoEntry, NewEntry
  <1>4. ASSUME NEW f \in Filters, ReqAdd(c, s, f) PROVE FALSE
    <2>1. subs'[c][s].gen = nextGen + 1
      BY <1>1, <1>4 DEF ReqAdd, TypeOK, NewEntry
    <2> QED BY <1>1, <1>2, <2>1
  <1>5. EntryKept(c, s)
    BY <1>1, <1>3, <1>4, StepEntry
  <1> QED BY <1>2, <1>5 DEF EntryKept, Answers

\* How a goroutine comes by the job it has after a step.
JobStep(a) ==
    \/ /\ job'[a] = job[a]
       /\ pc'[a] = "gen" => pc[a] = "gen"
       /\ pc'[a] \notin {"send", "push"} => pc[a] \notin {"send", "push"} \/ job[a].page = {}
       /\ pc'[a] = "complete" => pc[a] = "complete" \/ ~job[a].more
    \/ /\ job'[a].gen = 0
       /\ pc'[a] \notin {"gen", "complete"}
       /\ job'[a].page = {} \/ (job'[a].page = job[a].page /\ pc[a] = "idle")
    \/ a \in Conns /\ \E s \in SubIDs, f \in Filters : ReqAdd(a, s, f)
    \/ a \in Conns /\ ReqGeneration(a)
    \/ jobs # <<>> /\ job'[a] = Head(jobs) /\ pc'[a] = "fetch"
    \/ FetchPage(a)
    \/ \E e \in Events : SendInvisible(a, e) \/ SendEvent(a, e)
    \/ pc[a] = "enqueue" /\ pc'[a] = "drain" /\ job'[a] = [job[a] EXCEPT !.sync = TRUE]

\* By its own steps ...
LEMMA SnapshotJob ==
  ASSUME TypeOK, NEW a \in Actors, Snapshot(a)
  PROVE  JobStep(a)
  <1>1. ASSUME Return(a) PROVE JobStep(a)
    <2>1. NoJob.gen = 0 /\ NoJob.page = {}
      BY DEF NoJob, NewJob
    <2> QED BY <1>1, <2>1 DEF Return, TypeOK, JobStep
  <1>2. CASE FetchPage(a) \/ \E e \in Events : SendInvisible(a, e) \/ SendEvent(a, e)
    BY <1>2 DEF JobStep
  <1>3. CASE FetchFails(a)
    <2>1. job'[a] = job[a] /\ pc'[a] = "qerr" /\ pc[a] = "fetch"
      BY <1>3 DEF FetchFails, Goto, TypeOK
    <2> QED BY <2>1 DEF JobStep
  <1>4. ASSUME NEW e \in Events, SendVisible(a, e) PROVE JobStep(a)
    <2>1. job'[a] = job[a] /\ pc'[a] = "push"
      BY <1>4 DEF SendVisible, Goto, TypeOK
    <2> QED BY <2>1 DEF JobStep
  <1>5. CASE PageSent(a)
    <2>1. /\ job'[a] = job[a] /\ job[a].page = {}
          /\ pc'[a] = IF ~job[a].more THEN "complete" ELSE IF job[a].sync THEN "drain" ELSE "enqueue"
      BY <1>5 DEF PageSent, Goto, TypeOK
    <2> QED BY <2>1 DEF JobStep
  <1>6. CASE EnqueueJob(a)
    <2>1. CASE Len(jobs) < QueueCap
      BY <1>1, <1>6, <2>1 DEF EnqueueJob
    <2>2. CASE ~(Len(jobs) < QueueCap)
      <3>1. pc[a] = "enqueue" /\ pc'[a] = "drain" /\ job'[a] = [job[a] EXCEPT !.sync = TRUE]
        BY <1>6, <2>2 DEF EnqueueJob, Goto, TypeOK
      <3> QED BY <3>1 DEF JobStep
    <2> QED BY <2>1, <2>2
  <1>7. CASE DrainNext(a)
    <2>1. CASE Goto(a, "fetch") /\ UNCHANGED job
      <3>1. job'[a] = job[a] /\ pc'[a] = "fetch" /\ pc[a] = "drain"
        BY <1>7, <2>1 DEF DrainNext, Goto, TypeOK
      <3> QED BY <3>1 DEF JobStep
    <2> QED BY <1>1, <1>7, <2>1 DEF DrainNext
  <1>8. CASE \/ CloseOnQueryError(a) \/ SendStops(a) \/ CompleteSnapshot(a)
             \/ CompleteLost(a) \/ CompleteStale(a)
    BY <1>1, <1>8 DEF CloseOnQueryError, SendStops, CompleteSnapshot, CompleteLost, CompleteStale
  <1> QED BY <1>2, <1>3, <1>4, <1>5, <1>6, <1>7, <1>8 DEF Snapshot

\* ... and by every step.
LEMMA StepJob ==
  ASSUME TypeOK, HandsAgree, [Next]_vars, NEW a \in Actors
  PROVE  JobStep(a)
  <1>1. ASSUME pc'[a] = pc[a], job'[a] = job[a] PROVE JobStep(a)
    BY <1>1 DEF JobStep
  <1>2. ASSUME UNCHANGED tasks PROVE JobStep(a)
    BY <1>1, <1>2 DEF tasks
  <1>3. ASSUME NEW b \in Actors, Snapshot(b) PROVE JobStep(a)
    BY <1>1, <1>3, SnapshotLocal, SnapshotJob
  <1>4. ASSUME NEW c \in Conns, Client(c) PROVE JobStep(a)
    <2>1. ASSUME NEW s \in SubIDs, CloseSend(c, s) PROVE JobStep(a)
      <3>1. CASE a = c
        <4>1. job[a] \in Jobs /\ pc[a] = "idle" /\ job[a].gen = 0
          BY <2>1, <3>1 DEF TypeOK, HandsAgree, CloseSend
        <4>2. job'[a] = [job[a] EXCEPT !.sub = s] /\ pc'[a] = "remove"
          BY <2>1, <3>1 DEF CloseSend, Goto, TypeOK
        <4>3. job'[a].page = job[a].page /\ job'[a].gen = 0
          BY <4>1, <4>2 DEF Jobs
        <4> QED BY <4>1, <4>2, <4>3 DEF JobStep
      <3>2. CASE a # c
        BY <1>1, <2>1, <3>2 DEF CloseSend, Goto, TypeOK
      <3> QED BY <3>1, <3>2
    <2>2. ASSUME NEW s \in SubIDs, NEW f \in Filters, ReqAdd(c, s, f) PROVE JobStep(a)
      <3>1. CASE a = c
        BY <2>2, <3>1 DEF JobStep
      <3>2. CASE a # c
        BY <1>1, <2>2, <3>2 DEF ReqAdd, Goto, TypeOK
      <3> QED BY <3>1, <3>2
    <2> QED BY <1>2, <1>4, <2>1, <2>2 DEF Client, RegisterSender, Authenticate, SwitchIdentity, OtherFrame
  <1>5. ASSUME NEW c \in Conns, ReadLoop(c) PROVE JobStep(a)
    <2>0. c \in Actors
      BY DEF Actors
    <2>1. CASE ReqGeneration(c)
      <3>1. CASE a = c
        BY <2>1, <3>1 DEF JobStep
      <3>2. CASE a # c
        BY <1>1, <2>0, <2>1, <3>2 DEF ReqGeneration, Goto, TypeOK
      <3> QED BY <3>1, <3>2
    <2>2. CASE ReqNote(c) \/ CloseRemove(c)
      <3>1. CASE a = c
        <4>1. /\ job'[a] = job[a] /\ pc[a] \in {"note", "remove"}
              /\ pc'[a] \in {"fetch", "noteClose"}
          BY <2>0, <2>2, <3>1 DEF ReqNote, CloseRemove, Goto, TypeOK
        <4> QED BY <4>1 DEF JobStep
      <3>2. CASE a # c
        BY <1>1, <2>0, <2>2, <3>2 DEF ReqNote, CloseRemove, Goto, TypeOK
      <3> QED BY <3>1, <3>2
    <2>3. CASE CloseNote(c)
      <3>1. CASE a = c
        <4>1. NoJob.gen = 0 /\ NoJob.page = {}
          BY DEF NoJob, NewJob
        <4>2. job'[a] = NoJob /\ pc'[a] = "idle"
          BY <2>3, <3>1 DEF CloseNote, Return, TypeOK
        <4> QED BY <4>1, <4>2 DEF JobStep
      <3>2. CASE a # c
        BY <1>1, <2>0, <2>3, <3>2 DEF CloseNote, Return, TypeOK
      <3> QED BY <3>1, <3>2
    <2> QED BY <1>3, <1>5, <2>0, <2>1, <2>2, <2>3 DEF ReadLoop
  <1>6. CASE WorkerTake
    <2>1. CASE UNCHANGED <<pc, job>>
      BY <1>1, <2>1
    <2>2. CASE job' = [job EXCEPT ![Worker] = Head(jobs)] /\ Goto(Worker, "fetch")
      <3>1. CASE a = Worker
        <4>1. job'[a] = Head(jobs) /\ pc'[a] = "fetch" /\ jobs # <<>>
          BY <1>6, <2>2, <3>1 DEF WorkerTake, Goto, TypeOK
        <4> QED BY <4>1 DEF JobStep
      <3>2. CASE a # Worker
        BY <1>1, <2>2, <3>2 DEF Goto, TypeOK
      <3> QED BY <3>1, <3>2
    <2> QED BY <1>6, <2>1, <2>2 DEF WorkerTake
  <1>7. ASSUME ReaderQueue PROVE JobStep(a)
    BY <1>3, <1>6, <1>7 DEF ReaderQueue, Actors
  <1>8. ASSUME NEW e \in Events, SaveEvent(e) \/ Broadcast(e) PROVE JobStep(a)
    BY <1>2, <1>8 DEF SaveEvent, Broadcast, BroadcastMatch, BroadcastConn, DeliverStale, DeliverBuffered,
                DeliverOverflow, DeliverLive
  <1>9. ASSUME NEW c \in Conns, Teardown(c) \/ WriteFrame(c) \/ WriteFails(c) \/ SweepIdle(c)
        PROVE  JobStep(a)
    BY <1>2, <1>9 DEF Teardown, WriteFrame, WriteFails, SweepIdle
  <1>10. CASE UNCHANGED vars
    BY <1>2, <1>10 DEF vars
  <1> QED BY <1>4, <1>5, <1>7, <1>8, <1>9, <1>10 DEF Next

\* A job k made from job j by a step covers what j does, or the step sends it.
LEMMA JobPasses ==
  ASSUME NEW j \in Jobs, NEW k \in Jobs, JobOK(j)',
         k.conn = j.conn, k.sub = j.sub, k.filter = j.filter, j.left = 0 => k.left = 0,
         Promised(k.conn, k.sub)' =>
            \A e \in stored' \cap k.filter :
               e \in j.page \/ (j.more /\ e > j.cursor)
                  => Reached(k.conn, k.sub, e)' \/ e \in k.page \/ (k.more /\ e > k.cursor)
  PROVE  JobOK(k)'
  <1> DEFINE c == k.conn
             s == k.sub
  <1>1. /\ k.filter = subs'[c][s].filter.set
        /\ subs'[c][s].filter.limit = 0 => k.left = 0
    BY DEF JobOK
  <1>2. ASSUME Promised(c, s)', NEW e \in stored' \cap subs'[c][s].filter.set
        PROVE  Reached(c, s, e)' \/ e \in k.page \/ (k.more /\ e > k.cursor)
    <2>1. Reached(c, s, e)' \/ e \in j.page \/ (j.more /\ e > j.cursor)
      BY <1>2 DEF JobOK
    <2> QED BY <1>1, <1>2, <2>1
  <1> QED BY <1>1, <1>2 DEF JobOK

\* The job a goroutine holds after a step, other than by SubGeneration.
LEMMA CoverHeld ==
  ASSUME TypeOK, GenInv, OwnInv, HandoverInv, [Next]_vars, NEW a \in Actors,
         ~(a \in Conns /\ ReqGeneration(a)),
         NEW j \in Jobs, job'[a] = j, Answers(j)'
  PROVE  JobOK(j)'
  <1>1. PICK i \in Jobs : i = job[a]
    BY DEF TypeOK
  <1>2. ASSUME Answers(i)' PROVE JobOK(i) /\ JobOK(i)' /\ EntryKept(i.conn, i.sub)
    <2>1. i.gen <= nextGen
      BY <1>1 DEF OwnInv, HandsAgree
    <2>2. Answers(i) /\ EntryKept(i.conn, i.sub)
      BY <1>2, <2>1, AnswersBefore
    <2>3. JobOK(i)
      BY <1>1, <2>2 DEF HandoverInv, JobsCover
    <2> QED BY <2>2, <2>3, JobStays DEF HandoverInv
  <1>3. j.gen # 0
    BY DEF Answers
  <1>4. CASE job'[a] = job[a]
    BY <1>1, <1>2, <1>4
  <1>5. ASSUME NEW s \in SubIDs, NEW f \in Filters, ReqAdd(a, s, f) PROVE FALSE
    BY <1>3, <1>5 DEF ReqAdd, TypeOK, NewJob
  <1>6. CASE jobs # <<>> /\ job'[a] = Head(jobs)
    <2>1. 1 \in DOMAIN jobs /\ jobs[1] = j
      BY <1>6 DEF TypeOK
    <2>2. j.gen <= nextGen
      BY <2>1 DEF OwnInv, HandsAgree
    <2>3. Answers(j) /\ EntryKept(j.conn, j.sub)
      BY <2>2, AnswersBefore
    <2>4. JobOK(j)
      BY <2>1, <2>3 DEF HandoverInv, JobsCover
    <2> QED BY <2>3, <2>4, JobStays DEF HandoverInv
  <1>7. CASE FetchPage(a)
    <2>1. /\ j = Fetched(i) /\ pc[a] = "fetch" /\ UNCHANGED <<subs, stored>>
      BY <1>1, <1>7 DEF FetchPage, TypeOK, mgr, events
    <2>2. i.page = {}
      BY <1>1, <2>1 DEF HandoverInv, PagesInHand
    <2>3. j.conn = i.conn /\ j.sub = i.sub /\ j.gen = i.gen /\ j.filter = i.filter
      BY <2>1 DEF Fetched, Jobs
    <2>4. Answers(i)'
      BY <2>3 DEF Answers
    <2>5. JobOK(i) /\ JobOK(i)'
      BY <1>2, <2>4
    <2>6. i.left = 0 => j.left = 0
      <3>1. Cardinality(Page(i)) \in Nat
        <4>1. Page(i) \subseteq Events
          BY DEF Page, Candidates, Jobs
        <4> QED BY <4>1, EventSetFinite
      <3>2. Fetched(i).left = IF i.left > Cardinality(Page(i)) THEN i.left - Cardinality(Page(i)) ELSE 0
        BY DEF Fetched, Jobs
      <3> QED BY <2>1, <3>1, <3>2
    <2>7. ASSUME Promised(j.conn, j.sub)', NEW e \in stored' \cap j.filter,
                 e \in i.page \/ (i.more /\ e > i.cursor)
          PROVE  e \in j.page \/ (j.more /\ e > j.cursor)
      <3>1. e \in Candidates(i)
        BY <2>1, <2>2, <2>3, <2>7 DEF Candidates
      <3>2. i.left = 0
        BY <2>1, <2>3, <2>5, <2>7 DEF JobOK, Promised
      <3> QED BY <2>1, <3>1, <3>2, FetchedCovers
    <2> QED BY <2>3, <2>5, <2>6, <2>7, JobPasses
  <1>8. ASSUME NEW v \in Events, SendInvisible(a, v) \/ SendEvent(a, v) PROVE JobOK(j)'
    <2>1. j = [i EXCEPT !.page = @ \ {v}]
      BY <1>1, <1>8 DEF SendInvisible, SendEvent, TypeOK
    <2>2. /\ j.conn = i.conn /\ j.sub = i.sub /\ j.gen = i.gen /\ j.filter = i.filter
          /\ j.left = i.left /\ j.page = i.page \ {v} /\ j.more = i.more /\ j.cursor = i.cursor
      BY <2>1 DEF Jobs
    <2>3. Answers(i)'
      BY <2>2 DEF Answers
    <2>4. JobOK(i) /\ JobOK(i)' /\ EntryKept(i.conn, i.sub) /\ i.conn \in Conns /\ i.sub \in SubIDs
      BY <1>2, <2>3 DEF Jobs
    <2>5. ASSUME Promised(i.conn, i.sub)', v \in i.filter PROVE Reached(i.conn, i.sub, v)'
      <3> DEFINE c == i.conn
                 s == i.sub
      <3>1. /\ Promised(c, s) /\ ~subs'[c][s].skipped
            /\ subs'[c][s].gen = subs[c][s].gen /\ subs[c][s].gen # 0
        BY <2>4, <2>5, PromisedBefore
      <3>2. CASE SendInvisible(a, v)
        <4>1. v \in Private /\ auth[c].key # "recipient"
          BY <1>1, <3>2 DEF SendInvisible, Visible
        <4>2. v \in subs[c][s].filter.set
          BY <2>4, <2>5 DEF JobOK
        <4>3. subs[c][s].skipped
          BY <2>4, <3>1, <4>1, <4>2 DEF HandoverInv, EntriesAgree
        <4> QED BY <3>1, <4>3 DEF Promised
      <3>3. CASE SendEvent(a, v)
        <4> DEFINE f == Frame("snap", s, i.gen, v)
        <4>1. SameSnapshot(c, s, i.gen)
          BY <1>1, <3>3 DEF SendEvent
        <4>2. i.gen \in Gens /\ i.gen = subs[c][s].gen
          BY <2>4, <4>1, SameSnapshotGen
        <4>3. f \in Frames /\ f.gen = subs'[c][s].gen /\ f.ev = v
          BY <2>4, <3>1, <4>2, FrameType, EventsInRange DEF Frame
        <4>4. Enqueue(c, f) \/ subs' = [subs EXCEPT ![c][s].skipped = TRUE]
          BY <1>1, <3>3 DEF SendEvent
        <4>5. subs' # [subs EXCEPT ![c][s].skipped = TRUE]
          <5>1. subs[c][s] \in Entries
            BY <2>4 DEF TypeOK
          <5> HIDE DEF c, s
          <5>2. [subs EXCEPT ![c][s].skipped = TRUE][c][s].skipped = TRUE
            BY <2>4, <5>1 DEF TypeOK, Entries, c, s
          <5> QED BY <3>1, <5>2
        <4> HIDE DEF f
        <4>6. Len(wire[c]) + 1 \in DOMAIN wire'[c] /\ wire'[c][Len(wire[c]) + 1] = f
          BY <2>4, <4>3, <4>4, <4>5, EnqueueAppends
        <4>7. \E x \in DOMAIN wire'[c] : wire'[c][x].gen = subs'[c][s].gen /\ wire'[c][x].ev = v
          BY <4>3, <4>6
        <4> QED BY <4>7 DEF Reached, Sent
      <3> QED BY <1>8, <3>2, <3>3
    <2> QED BY <2>2, <2>4, <2>5, JobPasses
  <1>9. CASE job'[a] = [job[a] EXCEPT !.sync = TRUE]
    <2>1. /\ j.conn = i.conn /\ j.sub = i.sub /\ j.gen = i.gen /\ j.filter = i.filter
          /\ j.left = i.left /\ j.page = i.page /\ j.more = i.more /\ j.cursor = i.cursor
      BY <1>1, <1>9 DEF Jobs
    <2>2. Answers(i)'
      BY <2>1 DEF Answers
    <2>3. JobOK(i)'
      BY <1>2, <2>2
    <2> QED BY <2>1, <2>3, JobPasses
  <1>10. HandsAgree
    BY DEF OwnInv
  <1> QED BY <1>3, <1>4, <1>5, <1>6, <1>7, <1>8, <1>9, <1>10, StepJob DEF JobStep

\* SubGeneration: the read loop holds the job of its new entry.
LEMMA CoverGeneration ==
  ASSUME TypeOK, GenInv, OwnInv, HandoverInv, [Next]_vars, NEW c \in Conns, ReqGeneration(c),
         NEW j \in Jobs, job'[c] = j, Answers(j)'
  PROVE  JobOK(j)'
  <1>0. c \in Actors
    BY DEF Actors
  <1>1. PICK i \in Jobs : i = job[c]
    BY <1>0 DEF TypeOK
  <1>2. pc[c] = "gen" /\ UNCHANGED subs /\ i.conn = c
    BY <1>1 DEF ReqGeneration, mgr, HandoverInv, JobsCover
  <1>3. /\ j.conn = i.conn /\ j.sub = i.sub /\ j.filter = i.filter
        /\ j.left = i.left /\ j.page = i.page /\ j.more = i.more /\ j.cursor = i.cursor
    <2>1. \E g : j = [i EXCEPT !.gen = g]
      BY <1>0, <1>1 DEF ReqGeneration, TypeOK
    <2> QED BY <2>1 DEF Jobs
  <1>4. subs[c][i.sub].gen # 0
    BY <1>2, <1>3 DEF Answers
  <1>5. JobOK(i)
    BY <1>1, <1>2, <1>4 DEF HandoverInv, JobsCover
  <1>6. EntryKept(i.conn, i.sub)
    BY <1>2 DEF EntryKept
  <1>7. JobOK(i)'
    BY <1>5, <1>6, JobStays DEF HandoverInv
  <1> QED BY <1>3, <1>7, JobPasses

\* The job of a new entry, from Add to SubGeneration.
LEMMA CoverNew ==
  ASSUME TypeOK, GenInv, OwnInv, HandoverInv, [Next]_vars, NEW c \in Conns,
         NEW j \in Jobs, job'[c] = j, pc'[c] = "gen"
  PROVE  j.conn = c /\ (subs'[c][j.sub].gen # 0 => JobOK(j)')
  <1>0. c \in Actors /\ HandsAgree
    BY DEF Actors, OwnInv
  <1>1. CASE job'[c] = job[c] /\ pc[c] = "gen"
    <2>1. j.conn = c /\ (subs[c][j.sub].gen # 0 => JobOK(j)) /\ j.sub \in SubIDs
      BY <1>1 DEF HandoverInv, JobsCover, Jobs
    <2>2. ASSUME subs'[c][j.sub].gen # 0 PROVE JobOK(j)'
      <3>1. subs'[c][j.sub] # NoEntry
        BY <2>2 DEF NoEntry, NewEntry
      <3>2. \A f \in Filters : ~ReqAdd(c, j.sub, f)
        BY <1>1 DEF ReqAdd
      <3>3. EntryKept(c, j.sub)
        BY <2>1, <3>1, <3>2, StepEntry
      <3>4. subs[c][j.sub].gen # 0
        BY <2>2, <3>3 DEF EntryKept
      <3> QED BY <2>1, <3>3, <3>4, JobStays DEF HandoverInv
    <2> QED BY <2>1, <2>2
  <1>2. ASSUME NEW s \in SubIDs, NEW f \in Filters, ReqAdd(c, s, f)
        PROVE  j.conn = c /\ JobOK(j)'
    <2>1. j = NewJob(c, s, f)
      BY <1>0, <1>2 DEF ReqAdd, TypeOK
    <2>2. /\ j.conn = c /\ j.sub = s /\ j.filter = f.set /\ j.left = f.limit
          /\ j.more = TRUE /\ j.cursor = 0
      BY <2>1 DEF NewJob
    <2>3. subs'[c][s].filter = f
      BY <1>2 DEF ReqAdd, TypeOK, NewEntry
    <2>4. \A e \in stored' : e > 0
      BY <1>2, ConstantsAssumption DEF ReqAdd, TypeOK, Events, events
    <2> QED BY <2>2, <2>3, <2>4 DEF JobOK
  <1>3. ASSUME ReqGeneration(c) PROVE pc'[c] # "gen"
    BY <1>0, <1>3 DEF ReqGeneration, Goto, TypeOK
  <1>4. ASSUME FetchPage(c) \/ \E e \in Events : SendInvisible(c, e) \/ SendEvent(c, e)
        PROVE  pc'[c] # "gen"
    BY <1>0, <1>4 DEF FetchPage, SendInvisible, SendEvent, Goto, TypeOK
  <1>5. JobStep(c)
    BY <1>0, StepJob
  <1> QED BY <1>1, <1>2, <1>3, <1>4, <1>5 DEF JobStep

\* The queue's jobs.
LEMMA CoverQueue ==
  ASSUME TypeOK, GenInv, OwnInv, HandoverInv, [Next]_vars, NEW i \in DOMAIN jobs',
         NEW j \in Jobs, jobs'[i] = j
  PROVE  j.page = {} /\ (Answers(j)' => JobOK(j)')
  <1>0. jobs \in Seq(Jobs)
    BY DEF TypeOK
  <1>1. \/ \E k \in DOMAIN jobs : jobs[k] = j
        \/ \E a \in Actors : pc[a] = "enqueue" /\ job[a] = j
    <2>1. CASE UNCHANGED jobs
      BY <2>1
    <2>2. CASE jobs # <<>> /\ jobs' = Tail(jobs)
      <3>1. i + 1 \in DOMAIN jobs /\ jobs'[i] = jobs[i + 1]
        BY <1>0, <2>2
      <3> QED BY <3>1
    <2>3. ASSUME NEW a \in Actors, pc[a] = "enqueue", jobs' = Append(jobs, job[a])
          PROVE  (\E k \in DOMAIN jobs : jobs[k] = j) \/ job[a] = j
      <3>1. job[a] \in Jobs
        BY DEF TypeOK
      <3> QED BY <1>0, <2>3, <3>1
    <2> QED BY <2>1, <2>2, <2>3, StepQueue
  <1>2. j.page = {} /\ j.gen <= nextGen /\ (Answers(j) => JobOK(j))
    <2>1. ASSUME NEW k \in DOMAIN jobs, jobs[k] = j
          PROVE  j.page = {} /\ j.gen <= nextGen /\ (Answers(j) => JobOK(j))
      BY <2>1 DEF HandoverInv, PagesInHand, JobsCover, OwnInv, HandsAgree
    <2>2. ASSUME NEW a \in Actors, pc[a] = "enqueue", job[a] = j
          PROVE  j.page = {} /\ j.gen <= nextGen /\ (Answers(j) => JobOK(j))
      BY <2>2 DEF HandoverInv, PagesInHand, JobsCover, OwnInv, HandsAgree
    <2> QED BY <1>1, <2>1, <2>2
  <1> QED BY <1>2, AnswersBefore, JobStays DEF HandoverInv

\* Pages are in hand only while they are sent.
LEMMA HandoverPages ==
  ASSUME TypeOK, GenInv, OwnInv, HandoverInv, [Next]_vars, TypeOK'
  PROVE  PagesInHand'
  <1>1. ASSUME NEW a \in Actors
        PROVE  /\ pc'[a] \notin {"send", "push"} => job'[a].page = {}
               /\ pc'[a] = "complete" => ~job'[a].more
    <2>1. /\ pc[a] \notin {"send", "push"} => job[a].page = {}
          /\ pc[a] = "complete" => ~job[a].more
      BY DEF HandoverInv, PagesInHand
    <2>2. job[a] \in Jobs
      BY DEF TypeOK
    <2>3. ASSUME NEW s \in SubIDs, NEW f \in Filters, ReqAdd(a, s, f)
          PROVE  pc'[a] = "gen" /\ job'[a].page = {}
      BY <2>3 DEF ReqAdd, Goto, TypeOK, NewJob
    <2>4. ASSUME ReqGeneration(a) PROVE pc'[a] = "note" /\ pc[a] = "gen" /\ job'[a].page = job[a].page
      BY <2>2, <2>4 DEF ReqGeneration, Goto, TypeOK, Jobs
    <2>5. ASSUME jobs # <<>>, job'[a] = Head(jobs) PROVE job'[a].page = {}
      <3>1. 1 \in DOMAIN jobs /\ Head(jobs) = jobs[1]
        BY <2>5 DEF TypeOK
      <3> QED BY <2>5, <3>1 DEF HandoverInv, PagesInHand
    <2>6. ASSUME FetchPage(a) \/ \E e \in Events : SendInvisible(a, e) \/ SendEvent(a, e)
          PROVE  pc'[a] = "send"
      BY <2>6 DEF FetchPage, SendInvisible, SendEvent, Goto, TypeOK
    <2>7. ASSUME job'[a] = [job[a] EXCEPT !.sync = TRUE] PROVE job'[a].page = job[a].page
      BY <2>2, <2>7 DEF Jobs
    <2>8. JobStep(a)
      BY StepJob DEF OwnInv
    <2> QED BY <2>1, <2>3, <2>4, <2>5, <2>6, <2>7, <2>8 DEF JobStep
  <1>2. ASSUME NEW i \in DOMAIN jobs' PROVE jobs'[i].page = {}
    <2>1. PICK j \in Jobs : j = jobs'[i]
      BY DEF TypeOK
    <2> QED BY <2>1, CoverQueue
  <1> QED BY <1>1, <1>2 DEF PagesInHand

\* A sender is only unregistered by the teardown of its connection.
LEMMA StepSenders ==
  ASSUME [Next]_vars
  PROVE  senders \subseteq senders' \/ \E c \in Conns : Teardown(c)
  <1>1. ASSUME NEW a \in Actors, Snapshot(a) PROVE UNCHANGED senders
    BY <1>1 DEF Snapshot, FetchPage, FetchFails, CloseOnQueryError, SendInvisible, SendVisible,
                SendEvent, SendStops, PageSent, EnqueueJob, DrainNext, CompleteSnapshot,
                CompleteLost, CompleteStale, mgr
  <1>2. ASSUME NEW c \in Conns, Client(c) \/ ReadLoop(c) PROVE senders \subseteq senders'
    BY <1>1, <1>2 DEF Client, RegisterSender, Authenticate, SwitchIdentity, OtherFrame, CloseSend, ReqAdd,
                      ReadLoop, ReqGeneration, ReqNote, CloseRemove, CloseNote, Actors, mgr
  <1>3. ASSUME ReaderQueue PROVE UNCHANGED senders
    BY <1>1, <1>3 DEF ReaderQueue, WorkerTake, Actors, mgr
  <1>4. ASSUME NEW e \in Events, SaveEvent(e) \/ Broadcast(e) PROVE UNCHANGED senders
    BY <1>4 DEF SaveEvent, Broadcast, BroadcastMatch, BroadcastConn, DeliverStale, DeliverBuffered,
                DeliverOverflow, DeliverLive, mgr
  <1> QED BY <1>2, <1>3, <1>4 DEF Next, vars, WriteFrame, WriteFails, SweepIdle, mgr

\* The manager's entries.
LEMMA HandoverEntries ==
  ASSUME TypeOK, EntriesAgree, [Next]_vars
  PROVE  EntriesAgree'
  <1> SUFFICES ASSUME NEW c \in Conns, NEW s \in SubIDs
               PROVE  /\ subs'[c][s].gen # 0 => c \in senders'
                      /\ subs'[c][s].gen # 0 /\ subs'[c][s].filter.set \cap Private # {}
                            /\ auth'[c].key # "recipient" => subs'[c][s].skipped
                      /\ subs'[c][s].done => subs'[c][s].pending = <<>>
    BY DEF EntriesAgree
  <1>1. CASE subs'[c][s] = NoEntry
    <2>1. NoEntry.gen = 0 /\ NoEntry.done = FALSE
      BY DEF NoEntry, NewEntry
    <2> QED BY <1>1, <2>1
  <1>2. ASSUME NEW f \in Filters, ReqAdd(c, s, f)
        PROVE  /\ c \in senders'
               /\ subs'[c][s].filter.set \cap Private # {} => auth'[c].key = "recipient"
               /\ subs'[c][s].done = FALSE
    <2>1. subs'[c][s] = NewEntry(nextGen + 1, f)
      BY <1>2 DEF ReqAdd, TypeOK
    <2>2. subs'[c][s].filter = f /\ subs'[c][s].done = FALSE
      BY <2>1 DEF NewEntry
    <2> QED BY <1>2, <2>2 DEF ReqAdd, Allowed
  <1>3. CASE EntryKept(c, s)
    <2>1. subs'[c][s].gen # 0 => c \in senders'
      <3>1. ASSUME NEW d \in Conns, Teardown(d), subs'[c][s].gen # 0 PROVE c \in senders'
        <4>1. c # d
          BY <3>1 DEF Teardown, TypeOK, NoEntry, NewEntry
        <4> QED BY <1>3, <3>1, <4>1 DEF Teardown, EntriesAgree, EntryKept
      <3> QED BY <1>3, <3>1, StepSenders DEF EntriesAgree, EntryKept
    <2>2. ASSUME subs'[c][s].gen # 0, subs'[c][s].filter.set \cap Private # {}, auth'[c].key # "recipient"
          PROVE  subs'[c][s].skipped
      <3>1. CASE auth[c].key # "recipient"
        BY <1>3, <2>2, <3>1 DEF EntriesAgree, EntryKept
      <3>2. CASE auth[c].key = "recipient"
        <4>1. ASSUME NEW d \in Conns, Authenticate(d) PROVE FALSE
          BY <2>2, <3>2, <4>1 DEF Authenticate, TypeOK, NewAuth
        <4>2. PICK d \in Conns : SwitchIdentity(d)
          BY <2>2, <3>2, <4>1, StepAuth
        <4>3. d = c
          BY <2>2, <3>2, <4>2 DEF SwitchIdentity, TypeOK, NewAuth
        <4>4. subs'[c][s] = Withholding(subs[c][s])
          BY <4>2, <4>3 DEF SwitchIdentity, TypeOK
        <4>5. subs[c][s].filter.set \cap Private # {} /\ subs[c][s] \in Entries
          <5>1. subs'[c][s].filter = subs[c][s].filter
            BY <1>3 DEF EntryKept
          <5>2. subs[c][s] \in Entries
            BY DEF TypeOK
          <5> QED BY <2>2, <5>1, <5>2
        <4> QED BY <4>4, <4>5 DEF Withholding, Entries
      <3> QED BY <3>1, <3>2
    <2>3. subs'[c][s].done => subs'[c][s].pending = <<>>
      <3>1. ASSUME NEW e \in Events, NEW t \in Targets, DeliverBuffered(e, t), t.conn = c, t.sub = s
            PROVE  ~subs[c][s].done
        BY <3>1 DEF DeliverBuffered
      <3>2. subs[c][s].done => subs[c][s].pending = <<>>
        BY DEF EntriesAgree
      <3> QED BY <1>3, <3>1, <3>2 DEF EntryKept
    <2> QED BY <2>1, <2>2, <2>3
  <1> QED BY <1>1, <1>2, <1>3, StepEntry

\* A live subscription misses nothing, and a snapshot completes with nothing left.
LEMMA HandoverLive ==
  ASSUME TypeOK, GenInv, HandoverInv, [Next]_vars
  PROVE  LiveComplete'
  <1> SUFFICES ASSUME NEW c \in Conns, NEW s \in SubIDs, Promised(c, s)', subs'[c][s].done,
                      NEW e \in stored' \cap subs'[c][s].filter.set
               PROVE  Reached(c, s, e)'
    BY DEF LiveComplete
  <1>1. EntryKept(c, s)
    <2>1. subs'[c][s] # NoEntry
      BY DEF Promised, NoEntry, NewEntry
    <2>2. ASSUME NEW f \in Filters, ReqAdd(c, s, f) PROVE FALSE
      <3>1. subs'[c][s].done = FALSE
        BY <2>2 DEF ReqAdd, TypeOK, NewEntry
      <3> QED BY <3>1
    <2> QED BY <2>1, <2>2, StepEntry
  <1>2. Promised(c, s) /\ subs'[c][s].filter = subs[c][s].filter /\ subs[c][s].gen # 0
    BY <1>1, PromisedBefore
  <1>3. CASE e \notin stored
    <2>1. pub'[e].st = "saved"
      BY <1>3, NewlySaved
    <2> QED BY <2>1 DEF Reached
  <1>4. CASE e \in stored
    <2>1. e \in Events /\ e \in subs[c][s].filter.set
      BY <1>2, <1>4 DEF TypeOK
    <2>2. CASE subs[c][s].done
      <3>1. Reached(c, s, e)
        BY <1>2, <1>4, <2>1, <2>2 DEF HandoverInv, LiveComplete
      <3> QED BY <1>1, <2>1, <3>1, ReachedStays DEF HandoverInv
    <2>3. CASE ~subs[c][s].done
      <3>1. PICK a \in Actors : CompleteSnapshot(a) /\ job[a].conn = c /\ job[a].sub = s
        BY <1>1, <2>3 DEF EntryKept
      <3>2. PICK j \in Jobs : j = job[a]
        BY DEF TypeOK
      <3>3. /\ j.conn = c /\ j.sub = s /\ pc[a] = "complete"
            /\ j.gen = subs[c][s].gen
        BY <3>1, <3>2, SameSnapshotGen DEF CompleteSnapshot
      <3>4. Answers(j)
        BY <1>2, <3>3 DEF Answers
      <3>5. JobOK(j) /\ j.page = {} /\ ~j.more
        BY <3>2, <3>3, <3>4 DEF HandoverInv, JobsCover, PagesInHand
      <3>6. Reached(j.conn, j.sub, e)
        BY <1>2, <1>4, <2>1, <3>3, <3>5 DEF JobOK
      <3>7. Reached(c, s, e)
        BY <3>3, <3>6
      <3> QED BY <1>1, <2>1, <3>7, ReachedStays DEF HandoverInv
    <2> QED BY <2>2, <2>3
  <1> QED BY <1>3, <1>4

\* Nothing is lost between a snapshot and the live stream that follows it.
THEOREM HandoverCorrect == Spec => []HandoverInv
  <1>1. Init => HandoverInv
    <2> SUFFICES ASSUME Init PROVE HandoverInv
      OBVIOUS
    <2>1. NoJob.page = {} /\ NoEntry.gen = 0 /\ NoEntry.done = FALSE
      BY DEF NoJob, NewJob, NoEntry, NewEntry
    <2>2. \A c \in Conns, s \in SubIDs : subs[c][s].gen = 0 /\ subs[c][s].done = FALSE
      BY <2>1 DEF Init
    <2>3. /\ \A a \in Actors : job[a].page = {} /\ pc[a] = "idle"
          /\ DOMAIN jobs = {} /\ Conns \subseteq Actors
      BY <2>1 DEF Init, Actors
    <2>4. \A j \in Jobs : ~Answers(j)
      <3>1. \A j \in Jobs : j.conn \in Conns /\ j.sub \in SubIDs
        BY DEF Jobs
      <3> QED BY <2>2, <3>1 DEF Answers
    <2>5. EntriesAgree
      BY <2>2 DEF EntriesAgree
    <2>6. LiveComplete
      BY <2>2 DEF LiveComplete
    <2>7. JobsCover
      BY <2>3, <2>4 DEF JobsCover
    <2>8. PagesInHand
      BY <2>3 DEF PagesInHand
    <2> QED BY <2>5, <2>6, <2>7, <2>8 DEF HandoverInv
  <1>2. TypeOK /\ TypeOK' /\ GenInv /\ OwnInv /\ HandoverInv /\ [Next]_vars => HandoverInv'
    <2> SUFFICES ASSUME TypeOK, TypeOK', GenInv, OwnInv, HandoverInv, [Next]_vars
                 PROVE  HandoverInv'
      OBVIOUS
    <2>1. EntriesAgree' /\ LiveComplete' /\ PagesInHand'
      BY HandoverEntries, HandoverLive, HandoverPages DEF HandoverInv
    <2>2. ASSUME NEW a \in Actors, NEW j \in Jobs, job'[a] = j, Answers(j)' PROVE JobOK(j)'
      BY <2>2, CoverHeld, CoverGeneration
    <2>3. ASSUME NEW i \in DOMAIN jobs', NEW j \in Jobs, jobs'[i] = j, Answers(j)' PROVE JobOK(j)'
      BY <2>3, CoverQueue
    <2>4. ASSUME NEW c \in Conns, NEW j \in Jobs, job'[c] = j, pc'[c] = "gen"
          PROVE  j.conn = c /\ (subs'[c][j.sub].gen # 0 => JobOK(j)')
      BY <2>4, CoverNew
    <2>5. JobsCover'
      BY <2>2, <2>3, <2>4 DEF JobsCover
    <2> QED BY <2>1, <2>5 DEF HandoverInv
  <1> QED BY <1>1, <1>2, TypeCorrect, GenerationsCorrect, OwnershipCorrect, PTL DEF Spec

\* Once a subscription without limit is live, every stored event that matches it
\* has been sent to it or is still on its way in a broadcast: whatever is saved
\* while its pages are fetched, sent, queued and buffered around.
THEOREM NothingMissed == Spec => []NoGap
  <1>1. HandoverInv => NoGap
    <2> SUFFICES ASSUME HandoverInv, NEW c \in Conns \ cancelled, NEW s \in SubIDs,
                        subs[c][s].gen # 0, subs[c][s].done, ~subs[c][s].skipped,
                        subs[c][s].filter.limit = 0,
                        NEW e \in stored \cap subs[c][s].filter.set
                 PROVE  \/ \E i \in DOMAIN wire[c] : wire[c][i].gen = subs[c][s].gen /\ wire[c][i].ev = e
                        \/ pub[e].st = "saved"
                        \/ [conn |-> c, sub |-> s, gen |-> subs[c][s].gen] \in pub[e].todo \cup pub[e].cur
      BY DEF NoGap
    <2>1. Reached(c, s, e)
      BY DEF HandoverInv, LiveComplete, Promised
    <2>2. subs[c][s].pending = <<>>
      BY DEF HandoverInv, EntriesAgree
    <2>3. DOMAIN subs[c][s].pending = {}
      BY <2>2
    <2> QED BY <2>1, <2>3 DEF Reached, Sent, Target
  <1> QED BY <1>1, HandoverCorrect, PTL

=============================================================================
