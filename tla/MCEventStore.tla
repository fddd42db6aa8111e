--------------------------- MODULE MCEventStore ---------------------------
(***************************************************************************)
(* The event store for TLC: publishing, with two versions of one           *)
(* addressable event, a regular and an ephemeral event at two relay        *)
(* processes, and the snapshot of a REQ over up to four stored events.     *)
(* They share no variable, so the first state chooses which moves.         *)
(***************************************************************************)
EXTENDS EventStore, REQQuery

CONSTANTS a1, a2, b, x, g, h, r1, r2, c1, c2, up, addr

VARIABLE part
allVars == <<part, vars, queryVars>>

MCAddrOf == [e \in Events |-> IF e \in {a1, a2} THEN addr ELSE Regular]
MCCreatedAt == [e \in Events |-> IF e = a1 THEN 1 ELSE IF e = h THEN 3 ELSE 2]
MCIdRank == [e \in Events |-> CASE e = a1 -> 1 [] e = a2 -> 2 [] e = b -> 3
                                [] e = g -> 4 [] e = h -> 5 [] OTHER -> 6]
MCInstanceOf == [k \in Handlers |-> IF k = c2 THEN r2 ELSE r1]
MCOffers == [k \in Handlers |-> CASE k = c1 -> {a1, x} [] k = c2 -> {b} [] OTHER -> {a2, b}]

MCPubkeyOf == [e \in Events |-> IF e \in {a1, a2} THEN "alice" ELSE "bob"]
MCKindOf == [e \in Events |-> IF e \in {a1, a2} THEN 30000 ELSE IF e = g THEN 7 ELSE 1]
MCTagsOf == [e \in Events |->
  CASE e \in {a1, a2} -> <<<<"d", "x">>, <<"t", "go">>>>
    [] e = b -> <<<<"t">>, <<>>, <<"p", "alice", "extra">>>>
    [] e = g -> <<<<"t", "tla">>, <<"p", "alice">>>>
    [] OTHER -> <<>>]
MCScore == [text \in {"word"} |->
              [e \in Events |-> CASE e = b -> 1 [] e = a1 -> 2 [] e = g -> 2 [] OTHER -> 0]]

One(f) == <<f>>
MCRequests ==
  {One(AnyEvent), One([AnyEvent EXCEPT !.limit = 2]),
   One([AnyEvent EXCEPT !.ids = {a1, h}, !.limit = 0]),
   One([AnyEvent EXCEPT !.tag = ("t" :> {"", "go"})]),
   <<[AnyEvent EXCEPT !.authors = {"bob"}, !.limit = 2], [AnyEvent EXCEPT !.until = 2]>>,
   <<[AnyEvent EXCEPT !.search = "word", !.limit = 2],
     [AnyEvent EXCEPT !.kinds = {1, 30000}, !.since = 2, !.limit = 1],
     [AnyEvent EXCEPT !.tag = ("t" :> {"go", "tla"} @@ "p" :> {"alice"})]>>}

MCInit ==
  /\ part \in {"publish", "query"}
  /\ Init /\ (part = "query" => engine = "sqlite")
  /\ QueryInit
  /\ part = "publish" => rows = {} /\ pageSize = 0 /\ filters = ApplyDefaultQueryLimit(One(AnyEvent))

MCNext ==
  /\ UNCHANGED part
  /\ \/ part = "publish" /\ Next /\ UNCHANGED queryVars
     \/ part = "query" /\ QueryStep /\ UNCHANGED vars

\* FairSpec of EventStore, where it moves.
MCSpec ==
  /\ MCInit /\ [][MCNext]_allVars
  /\ \A k \in Handlers : WF_vars(part = "publish" /\ HandlerStep(k))
  /\ \A i \in Instances : /\ WF_vars(part = "publish" /\ ListenStep(i))
                          /\ WF_vars(part = "publish" /\ FanStep(i))
=============================================================================
