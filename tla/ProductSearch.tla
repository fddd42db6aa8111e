--------------------------- MODULE ProductSearch ---------------------------
(***************************************************************************)
(* Browsing products on the Conduit relay (scope2.go) as operators: what   *)
(* the projection keeps of a product event, and what evaluate answers for  *)
(* a search plan.                                                          *)
(*                                                                         *)
(* The document of a product is abstracted to its fields: a field holds a  *)
(* number, a word, or NoValue (absent, or not parsable as what is asked    *)
(* for).  A word stands for a text that occurs in the field.               *)
(***************************************************************************)
EXTENDS EventOrder, SortedSets, SequencesExt

CONSTANTS
  Products,      \* the events of kind 30402
  NoValue,       \* a field that is absent or malformed
  Tags,          \* [Products -> [field names -> value]]: its tags
  Json,          \* [Products -> [field names -> value]]: its content
  CurrencyRank,  \* [currencies -> Nat]: the order of the currency names
  AllowMixedCurrencySort, MaxQueryLimit, DefaultQueryLimit

\* Times and prices are numbers, and a page has room for a product.
ASSUME SearchAssumption ==
  /\ Products \subseteq Events /\ NoValue \notin Products /\ NoValue \notin Int
  /\ \A p \in Products : \A doc \in {Tags[p], Json[p]} :
       \A name \in {"price", "updated_at", "updatedAt", "published_at", "publishedAt"} :
         doc[name] \in Int \cup {NoValue}
  /\ MaxQueryLimit \in Nat \ {0} /\ DefaultQueryLimit \in Nat \ {0}

Sorts == {"newest", "price_asc", "price_desc", "updated_at_desc"}

\* The value of the first of these fields that has one.
FirstOf(names, doc) ==
  LET k == {i \in DOMAIN names : doc[names[i]] # NoValue}
  IN IF k = {} THEN NoValue ELSE doc[names[Min(k)]]

\* Tags first, then the content, field by field.
TitleOf(p) == IF Tags[p].title # NoValue THEN Tags[p].title ELSE Json[p].title
SummaryOf(p) == IF Tags[p].summary # NoValue THEN Tags[p].summary ELSE Json[p].summary

\* A price tag may carry its currency; otherwise the currency tag has it.
\* The content is only read when no tag holds a price.
PriceOf(p) ==
  IF Tags[p].price # NoValue
    THEN [has |-> TRUE, price |-> Tags[p].price,
          currency |-> FirstOf(<<"price_currency", "currency">>, Tags[p])]
    ELSE [has |-> Json[p].price # NoValue, price |-> Json[p].price,
          currency |-> Json[p].currency]

UpdatedAt(p) ==
  LET t == FirstOf(<<"updated_at", "updatedAt", "published_at", "publishedAt">>, Tags[p])
      j == FirstOf(<<"updatedAt", "updated_at", "publishedAt", "published_at">>, Json[p])
  IN IF t # NoValue THEN t ELSE IF j # NoValue THEN j ELSE CreatedAt[p]

---------------------------------------------------------------------------
\* Greater keys first; equal keys leave the decision to `rest`.
Descending(x, y, rest) == x > y \/ (x = y /\ rest)

\* The order every mode ends in.
ByRecency(p, q) ==
  Descending(UpdatedAt(p), UpdatedAt(q),
             Descending(CreatedAt[p], CreatedAt[q], IdRank[p] < IdRank[q]))

\* compareProducts(p, q) < 0: with a price sort, a product without a price
\* comes last.
Before(p, q, sort) ==
  LET a == PriceOf(p)  b == PriceOf(q) IN
  \/ sort = "newest" /\ Descending(CreatedAt[p], CreatedAt[q], ByRecency(p, q))
  \/ sort = "updated_at_desc" /\ ByRecency(p, q)
  \/ /\ sort \notin {"newest", "updated_at_desc"}
     /\ \/ a.has /\ ~b.has
        \/ a.has = b.has /\ (~a.has \/ a.price = b.price) /\ ByRecency(p, q)
        \/ a.has /\ b.has /\ IF sort = "price_asc" THEN a.price < b.price ELSE a.price > b.price

---------------------------------------------------------------------------
\* The products a plan finds among those the projection shows.
Matching(shown, plan) ==
  {p \in shown : /\ p \in plan.filter
                 /\ plan.text = NoValue \/ plan.text \in {TitleOf(p), SummaryOf(p)}}

CurrenciesOf(found) == {PriceOf(p).currency : p \in {x \in found : PriceOf(x).has}}

\* evaluatePricePolicy: prices in several currencies do not compare.
MixedPrices(found, plan) ==
  /\ plan.sort \in {"price_asc", "price_desc"} /\ ~AllowMixedCurrencySort
  /\ Cardinality(CurrenciesOf(found)) > 1

Cohort(found, c) == {p \in found : PriceOf(p).has /\ PriceOf(p).currency = c}

\* The currency most products have, the first by name among equals.
LargestCurrency(found) ==
  CHOOSE c \in CurrenciesOf(found) : \A o \in CurrenciesOf(found) \ {c} :
    Descending(Cardinality(Cohort(found, c)), Cardinality(Cohort(found, o)),
               CurrencyRank[c] < CurrencyRank[o])

Blocked(shown, plan) == MixedPrices(Matching(shown, plan), plan) /\ ~plan.partial

\* The products the pages of this plan are cut from.
Results(shown, plan) ==
  LET found == Matching(shown, plan) IN
  IF ~MixedPrices(found, plan) THEN found
  ELSE IF plan.partial THEN Cohort(found, LargestCurrency(found)) ELSE {}

\* applyRequestBounds and resolvedLimit.
PageLimit(plan) ==
  LET limit == IF plan.limit = 0 THEN DefaultQueryLimit ELSE plan.limit
  IN IF limit > MaxQueryLimit THEN MaxQueryLimit ELSE limit

\* Mutant: a cursor that is no longer found ends the listing.
FindCursorEnds(list, cursor) ==
  LET at == {i \in DOMAIN list : list[i] = cursor}
  IN IF cursor = NoValue THEN 0 ELSE IF at = {} THEN Len(list) ELSE Min(at)

\* Mutant: the page after the cursor repeats the cursor's product.
FindCursorAgain(list, cursor) ==
  LET at == {i \in DOMAIN list : list[i] = cursor}
  IN IF at = {} THEN 0 ELSE Min(at) - 1

\* The products up to the cursor's are skipped; an unknown cursor starts
\* again at the beginning.
FindCursorStart(list, cursor) ==
  LET at == {i \in DOMAIN list : list[i] = cursor}
  IN IF at = {} THEN 0 ELSE Min(at)

\* evaluate: the page that follows the cursor.
PageAfter(shown, plan, cursor) ==
  LET list == SortedBy(Results(shown, plan), LAMBDA p, q : Before(p, q, plan.sort))
      from == FindCursorStart(list, cursor)
  IN SubSeq(list, from + 1, Min({Len(list), from + PageLimit(plan)}))
=============================================================================
