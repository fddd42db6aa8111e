---------------------------- MODULE MCL2Relay ----------------------------
(***************************************************************************)
(* The Conduit relay for TLC.  Products and gift wraps share no variable,  *)
(* so interleaving them adds nothing: the first state chooses which moves. *)
(***************************************************************************)
EXTENDS ProductRelay, GiftWraps

CONSTANTS p1, p2, q, d, ka, kb, w1, w2, ws, wm, other

VARIABLE part
allVars == <<part, productVars, wrapVars>>

MCAddrOf == [e \in Events |-> CASE e \in {p1, p2} -> "P" [] e = q -> "Q" [] OTHER -> Regular]
MCCreatedAt == [e \in Events |-> CASE e = p1 -> 1 [] e = p2 -> 2 [] OTHER -> 3]
MCIdRank == [e \in Events |-> CASE e = p1 -> 1 [] e = p2 -> 2 [] e = q -> 3 [] OTHER -> 4]
MCAuthor == [e \in Events |-> IF e = q THEN other ELSE ka]
MCDeleteTags == [x \in Deletions |-> <<<<"e", p2>>, <<"a", "Q">>>>]

Empty == [f \in {"title", "summary", "price", "price_currency", "currency",
                 "updated_at", "updatedAt", "published_at", "publishedAt"} |-> NoValue]
MCTags == [x \in Products |->
             CASE x = p1 -> [Empty EXCEPT !.price = 5, !.currency = "EUR"]
               [] x = p2 -> [Empty EXCEPT !.title = "boots"]
               [] OTHER -> [Empty EXCEPT !.price = 2, !.price_currency = "USD", !.updated_at = 1]]
MCJson == [x \in Products |->
             IF x = p2 THEN [Empty EXCEPT !.price = 3, !.currency = "EUR", !.updatedAt = 4]
             ELSE [Empty EXCEPT !.title = "boots", !.price = 9]]
MCCurrencyRank == [c \in {"EUR", "USD", NoValue} |-> CASE c = "EUR" -> 1 [] c = "USD" -> 2 [] OTHER -> 0]
Plan(sort, partial, limit) ==
  [filter |-> Products, text |-> NoValue, sort |-> sort, partial |-> partial, limit |-> limit]
MCMaxSends == [h \in Handlers |-> 2]
MCPlans == {Plan("newest", FALSE, 1), Plan("price_asc", TRUE, 2),
            Plan("price_desc", FALSE, 1),
            [Plan("updated_at_desc", FALSE, 0) EXCEPT !.text = "boots"]}

MCPTags == [w \in Wraps |-> CASE w = w1 -> <<ka>> [] w = w2 -> <<kb>> [] OTHER -> <<ka, kb>>]
F(wraps, mixed, ps) == [wraps |-> wraps, mixed |-> mixed, ps |-> ps]
MCRequests == {F(TRUE, FALSE, {ka}), F(TRUE, FALSE, {kb}), F(TRUE, TRUE, {ka})}

\* The half that does not move has one initial state.
Init ==
  /\ part \in {"products", "wraps"}
  /\ ProductInit /\ (part = "wraps" => plan = Plan("newest", FALSE, 1))
  /\ WrapInit /\ (part = "products" => mode = "enforce")

Next ==
  /\ UNCHANGED part
  /\ \/ part = "products" /\ ProductNext /\ UNCHANGED wrapVars
     \/ part = "wraps" /\ WrapNext /\ UNCHANGED productVars

Spec == Init /\ [][Next]_allVars
\* A client goes on asking, and is answered.  ClientMoves is Ask \/ Answer by
\* what they change: both can always be taken in the stages named here, and
\* the only other step that changes stage is a restart.
ClientMoves ==
  /\ part = "products" /\ stage \in {"start", "paging", "asked"}
  /\ stage' \in {"paging", "asked", "done", "refused"} /\ faults' = faults

FairSpec == Spec /\ WF_stage(ClientMoves)

\* A client that goes on asking reaches the end of its listing although
\* products come and go and a lost cursor starts it again (findCursorStart).
ListingEnds == part = "products" ~> stage \in {"done", "refused"}
=============================================================================
