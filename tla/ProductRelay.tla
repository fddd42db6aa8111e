--------------------------- MODULE ProductRelay ---------------------------
(***************************************************************************)
(* The product projection of the Conduit relay: goroutines that store      *)
(* products and deletions (third_party/khatru, the relay synchronisation)  *)
(* and then tell the projection through the OnEventSaved and               *)
(* OnEventDeleted hooks, restarts that seed it from the store, and a       *)
(* client that pages through a listing with cursors.                       *)
(*                                                                         *)
(* The event store (BoltDB, external) runs every call in one transaction.  *)
(* Each message of a connection has a goroutine of its own, so a store     *)
(* call and its hook are two steps that others may come between.           *)
(***************************************************************************)
EXTENDS ProductSearch

CONSTANTS
  Deletions,    \* the events of kind 5
  Author,       \* [Events -> public keys]
  DeleteTags,   \* [Deletions -> Seq]: ["e", product] or ["a", address]
  Handlers,     \* goroutines that handle an event
  Syncer,       \* the handler that imports for RelaySync
  NoEvent,
  Plans,        \* the searches of the client
  SeedLimit,    \* the query limit of the event store (500)
  MaxSends,     \* bound: [Handlers -> events it receives]
  MaxFaults     \* bound: refused writes and restarts

ASSUME ProductAssumption ==
  /\ Products \cap Deletions = {} /\ Products \cup Deletions = Events /\ IsFiniteSet(Events)
  /\ NoEvent \notin Events
  /\ \A p \in Products : AddrOf[p] # Regular
  /\ \A d \in Deletions : AddrOf[d] = Regular /\ DeleteTags[d] \in Seq(Range(DeleteTags[d]))
  /\ MaxSends \in [Handlers -> Nat] /\ MaxFaults \in Nat /\ SeedLimit \in Nat
  /\ \A pl \in Plans : pl.limit \in Nat

VARIABLES
  store,    \* the events stored
  proj,     \* [addresses -> [ev, tomb]]: scope2State.products
  pc, ev,   \* [Handlers -> where it is, and its event]
  todo,     \* [Handlers -> tags of its deletion still to be carried out]
  target,   \* [Handlers -> the event it is deleting]
  left,     \* [Handlers -> events it will still receive]
  plan, stage, cursor, got,  \* the client: its search, and what it was sent
  steady,   \* products among the results since the client began
  removed,  \* products deleted from the store
  raced,    \* products deleted between being stored and being projected
  cut,      \* events the last seed did not see
  faults

work == <<pc, ev, todo, target, left>>
client == <<plan, stage, cursor, got>>
ghosts == <<removed, raced, cut>>
productVars == <<store, proj, work, client, steady, ghosts, faults>>

Addresses == {AddrOf[p] : p \in Products}
Unknown == [ev |-> NoEvent, tomb |-> FALSE]

\* What matchProducts sees of a projection.
ShownIn(pr) == {pr[a].ev : a \in {x \in Addresses : pr[x].ev # NoEvent /\ ~pr[x].tomb}}

\* A step that changes the projection may move the results of the client.
Projects(pr) ==
  /\ proj' = pr
  /\ steady' = steady \cap Results(ShownIn(pr), plan)

Fault == faults < MaxFaults /\ faults' = faults + 1

---------------------------------------------------------------------------
(* The projection. *)

\* Mutant: the version handled last replaces what is known.
UpsertProductLast(p, pr) == [pr EXCEPT ![AddrOf[p]] = [ev |-> p, tomb |-> FALSE]]

\* upsertProduct: only a newer version replaces what is known of an address.
UpsertProduct(p, pr) ==
  LET a == AddrOf[p] IN
  IF pr[a].ev # NoEvent /\ ~Newer(p, pr[a].ev) THEN pr
  ELSE [pr EXCEPT ![a] = [ev |-> p, tomb |-> FALSE]]

\* One tag of a deletion d, on the entries known by now.
Buried(d, tag, entry) ==
  /\ entry.ev # NoEvent
  /\ \/ tag[1] = "e" /\ entry.ev = tag[2]
     \/ tag[1] = "a" /\ AddrOf[entry.ev] = tag[2] /\ CreatedAt[entry.ev] <= CreatedAt[d]

ApplyDeleteEvent(d, pr) ==
  [a \in Addresses |->
     IF \E k \in DOMAIN DeleteTags[d] : Buried(d, DeleteTags[d][k], pr[a])
       THEN [pr[a] EXCEPT !.tomb = TRUE] ELSE pr[a]]

ApplyEvent(e, pr) ==
  IF e \in Products THEN UpsertProduct(e, pr) ELSE ApplyDeleteEvent(e, pr)

\* applyDeletedEvent: the store dropped p.
ApplyDeletedEvent(p, pr) ==
  IF pr[AddrOf[p]].ev = p THEN [pr EXCEPT ![AddrOf[p]].tomb = TRUE] ELSE pr

\* compareSeedEvents: by time, products before deletions, then by id.
SeedBefore(e, f) ==
  \/ CreatedAt[e] < CreatedAt[f]
  \/ /\ CreatedAt[e] = CreatedAt[f]
     /\ \/ e \in Products /\ f \in Deletions
        \/ (e \in Products <=> f \in Products) /\ IdRank[e] < IdRank[f]

\* The projection after each prefix of a list of events.
Replayed(list) ==
  LET after[n \in 0 .. Len(list)] ==
        IF n = 0 THEN [a \in Addresses |-> Unknown] ELSE ApplyEvent(list[n], after[n - 1])
  IN  after

\* seed: apply what the query returned, oldest first.
Seeded(seen) ==
  LET list == SortedBy(seen, SeedBefore) IN Replayed(list)[Len(list)]

\* The query of seed returns at most SeedLimit events, the newest.
SeenBySeed(s) ==
  {e \in s : Cardinality({f \in s : CreatedAt[f] > CreatedAt[e]}) < SeedLimit}

---------------------------------------------------------------------------
(* Handlers. *)

Step(h, where) == pc' = [pc EXCEPT ![h] = where]

Idle(h) ==
  /\ Step(h, "idle")
  /\ ev' = [ev EXCEPT ![h] = NoEvent]
  /\ todo' = [todo EXCEPT ![h] = <<>>]
  /\ target' = [target EXCEPT ![h] = NoEvent]
  /\ UNCHANGED left

\* A client sends a valid event; RelaySync only adds what is not stored and
\* not older than what is.
Receive(h, e) ==
  /\ pc[h] = "idle" /\ left[h] > 0
  /\ h = Syncer => ~KeptIn(e, store)
  /\ ev' = [ev EXCEPT ![h] = e]
  /\ left' = [left EXCEPT ![h] = @ - 1]
  /\ Step(h, "save")
  /\ UNCHANGED <<store, proj, todo, target, client, steady, ghosts, faults>>

\* What follows the hook: a client's deletion is carried out, RelaySync's is
\* only stored.
AfterHook(h) ==
  IF ev[h] \in Deletions /\ h # Syncer
    THEN /\ Step(h, "delete")
         /\ todo' = [todo EXCEPT ![h] = DeleteTags[ev[h]]]
         /\ UNCHANGED <<ev, target, left>>
    ELSE Idle(h)

\* handleNormal: a product replaces older versions, and is accepted without
\* being stored when a newer one is there; a deletion is stored once, and a
\* repeated one reaches no hook.
Save(h) ==
  /\ pc[h] = "save"
  /\ IF ev[h] \in Deletions /\ ev[h] \in store
       THEN UNCHANGED store /\ AfterHook(h)
       ELSE /\ store' = IF KeptIn(ev[h], store) THEN store
                        ELSE (store \ Older(ev[h], store)) \cup {ev[h]}
            /\ Step(h, "hook")
            /\ UNCHANGED <<ev, todo, target, left>>
  /\ UNCHANGED <<proj, client, steady, ghosts, faults>>

SaveFails(h) ==
  /\ pc[h] = "save" /\ Fault
  /\ Idle(h)
  /\ UNCHANGED <<store, proj, client, steady, ghosts>>

\* OnEventSaved.
RunHook(h) ==
  /\ pc[h] = "hook"
  /\ Projects(ApplyEvent(ev[h], proj))
  /\ AfterHook(h)
  /\ UNCHANGED <<store, client, ghosts, faults>>

\* handleDeleteRequest looks up the event a tag names.
Named(d, tag) ==
  {p \in store \cap Products :
     \/ tag[1] = "e" /\ p = tag[2]
     \/ tag[1] = "a" /\ AddrOf[p] = tag[2] /\ CreatedAt[p] <= CreatedAt[d]}

FindTarget(h) ==
  /\ pc[h] = "delete" /\ todo[h] # <<>>
  /\ LET named == Named(ev[h], Head(todo[h])) IN
     \/ /\ named = {}
        /\ todo' = [todo EXCEPT ![h] = Tail(@)]
        /\ UNCHANGED <<pc, ev, target, left>>
     \/ \E p \in named :
          IF Author[p] = Author[ev[h]]
            THEN /\ target' = [target EXCEPT ![h] = p]
                 /\ Step(h, "remove")
                 /\ UNCHANGED <<ev, todo, left>>
            ELSE Idle(h)
  /\ UNCHANGED <<store, proj, client, steady, ghosts, faults>>

DeletionDone(h) ==
  /\ pc[h] = "delete" /\ todo[h] = <<>>
  /\ Idle(h)
  /\ UNCHANGED <<store, proj, client, steady, ghosts, faults>>

DropTarget(h) ==
  LET p == target[h] IN
  /\ pc[h] = "remove"
  /\ store' = store \ {p}
  /\ removed' = removed \cup {p}
  /\ raced' = IF \E o \in Handlers : pc[o] = "hook" /\ ev[o] = p
                THEN raced \cup {p} ELSE raced
  /\ Step(h, "forget")
  /\ UNCHANGED <<proj, ev, todo, target, left, client, steady, cut, faults>>

\* The store refuses: the deletion is answered with the error.
DropFails(h) ==
  /\ pc[h] = "remove" /\ Fault
  /\ Idle(h)
  /\ UNCHANGED <<store, proj, client, steady, ghosts>>

\* OnEventDeleted, then the next tag.
RunForget(h) ==
  /\ pc[h] = "forget"
  /\ Projects(ApplyDeletedEvent(target[h], proj))
  /\ todo' = [todo EXCEPT ![h] = Tail(@)]
  /\ target' = [target EXCEPT ![h] = NoEvent]
  /\ Step(h, "delete")
  /\ UNCHANGED <<store, ev, left, client, ghosts, faults>>

\* The process starts again: the handlers are gone, the projection is seeded
\* from the store, and the client connects and asks again.
Restart ==
  /\ Fault
  /\ pc' = [h \in Handlers |-> "idle"]
  /\ ev' = [h \in Handlers |-> NoEvent]
  /\ todo' = [h \in Handlers |-> <<>>]
  /\ target' = [h \in Handlers |-> NoEvent]
  /\ Projects(Seeded(SeenBySeed(store)))
  /\ cut' = store \ SeenBySeed(store)
  /\ raced' = {}
  /\ stage' = IF stage = "asked" THEN "paging" ELSE stage
  /\ UNCHANGED <<store, left, plan, cursor, got, removed>>

---------------------------------------------------------------------------
(* A client that pages through a listing until a page is empty. *)

\* OnRequest evaluates the plan to find out whether it is blocked.
Ask ==
  /\ stage \in {"start", "paging"}
  /\ UNCHANGED <<store, proj, work, plan, cursor, got, ghosts, faults>>
  /\ stage' = IF Blocked(ShownIn(proj), plan) THEN "refused" ELSE "asked"
  /\ steady' = IF stage = "start" THEN Results(ShownIn(proj), plan) ELSE steady

\* QueryStored evaluates it again and sends the page.
Answer ==
  LET page == PageAfter(ShownIn(proj), plan, cursor) IN
  /\ stage = "asked"
  /\ UNCHANGED <<store, proj, work, plan, steady, ghosts, faults>>
  /\ got' = got \cup ToSet(page)
  /\ IF page = <<>> THEN stage' = "done" /\ UNCHANGED cursor
     ELSE stage' = "paging" /\ cursor' = Last(page)

---------------------------------------------------------------------------
ProductInit ==
  /\ store = {} /\ proj = [a \in Addresses |-> Unknown]
  /\ pc = [h \in Handlers |-> "idle"] /\ ev = [h \in Handlers |-> NoEvent]
  /\ todo = [h \in Handlers |-> <<>>] /\ target = [h \in Handlers |-> NoEvent]
  /\ left = MaxSends
  /\ plan \in Plans /\ stage = "start" /\ cursor = NoValue /\ got = {}
  /\ steady = {} /\ removed = {} /\ raced = {} /\ cut = {} /\ faults = 0

Handle(h) ==
  \/ Save(h) \/ RunHook(h) \/ FindTarget(h) \/ DeletionDone(h)
  \/ DropTarget(h) \/ RunForget(h)

ProductNext ==
  \/ \E h \in Handlers :
       \/ \E e \in Events : Receive(h, e)
       \/ Handle(h) \/ SaveFails(h) \/ DropFails(h)
  \/ Restart \/ Ask \/ Answer

ProductSpec == ProductInit /\ [][ProductNext]_productVars

---------------------------------------------------------------------------
Quiet == \A h \in Handlers : pc[h] = "idle"

\* A stored deletion names p, whoever signed it: applyDeleteEvent does not
\* compare authors.
Covered(p) ==
  \E d \in store \cap Deletions : \E k \in DOMAIN DeleteTags[d] :
    Buried(d, DeleteTags[d][k], [ev |-> p])

\* A newer version of p is in S.
Superseded(p, S) == \E q \in S : SameAddress(p, q) /\ Newer(q, p)

\* When no event is being handled, browsing and the store agree.  What is
\* shown is stored, unless it was deleted between its two steps; what is
\* stored is shown, unless a deletion names it or a newer version was deleted.
\* After a restart whose seed was cut, a stored product that the seed did not
\* see is not shown, and an older version of it that is sent again is.
BrowseAgrees ==
  Quiet => /\ \A p \in ShownIn(proj) : p \in store \/ p \in raced \/ Superseded(p, cut)
           /\ \A p \in store \cap Products :
                \/ p \in ShownIn(proj) \/ Covered(p) \/ p \in cut
                \/ Superseded(p, removed)

\* A listing that ended has shown every product that was among the results
\* from its first to its last page, however the catalogue changed meanwhile.
PagesComplete == stage = "done" => steady \subseteq got

\* A deletion the relay has stored hides the products it names
\* (applyDeleteEvent): "Deleted product revisions are filtered out of
\* accelerated browse results."
DeletedHidden == Quiet => \A p \in ShownIn(proj) : ~Covered(p)
=============================================================================
