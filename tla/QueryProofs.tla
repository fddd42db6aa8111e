---------------------------- MODULE QueryProofs ----------------------------
(***************************************************************************)
(* Proofs about the answers to queries.  REQQuery, for every set of        *)
(* events, every request and page size and any number of writes between    *)
(* the pages: a snapshot is exact, and a filter means the same wherever it *)
(* is evaluated.  ProductRelay, for every catalogue, any number of         *)
(* handlers, deletions and restarts and every search: a listing misses     *)
(* nothing, and browsing agrees with the store.                            *)
(***************************************************************************)
EXTENDS REQQuery, ProductRelay, FiniteSetTheorems, TLAPS

----------------------------------------------------------------------------
(* Sorting: what ORDER BY and slices.SortFunc return. *)

\* s lists the elements of S, each one once.
Lists(s, S) ==
  /\ s \in [1 .. Len(s) -> S] /\ Len(s) \in Nat /\ Len(s) = Cardinality(S)
  /\ \A x \in S : \E i \in 1 .. Len(s) : s[i] = x
  /\ \A i, j \in 1 .. Len(s) : s[i] = s[j] => i = j

\* Enumerated lists a finite set along a strict total order: the places are
\* those of the ranks, and no rank is left out.
LEMMA EnumeratedLists ==
  ASSUME NEW S, IsFiniteSet(S), NEW before \in [S -> SUBSET S],
         \A x \in S : x \notin before[x],
         \A x, y \in S : y \in before[x] => before[y] \subseteq before[x],
         \A x, y \in S : x = y \/ x \in before[y] \/ y \in before[x]
  PROVE  /\ Lists(Enumerated(S, before), S)
         /\ \A i, j \in 1 .. Cardinality(S) :
              i < j => Enumerated(S, before)[i] \in before[Enumerated(S, before)[j]]
<1> DEFINE n == Cardinality(S)
           rank == [x \in S |-> Cardinality(before[x]) + 1]
           s == Enumerated(S, before)
<1>1. n \in Nat /\ IsFiniteSet(1 .. n) /\ Cardinality(1 .. n) = n
  BY FS_CardinalityType, FS_Interval
<1>2. ASSUME NEW x \in S
      PROVE  IsFiniteSet(before[x]) /\ Cardinality(before[x]) \in Nat /\ rank[x] \in 1 .. n
  <2>1. before[x] \subseteq S \ {x}
    OBVIOUS
  <2>2. IsFiniteSet(S \ {x}) /\ Cardinality(S \ {x}) = n - 1
    BY FS_RemoveElement
  <2>3. IsFiniteSet(before[x]) /\ Cardinality(before[x]) <= n - 1
    BY <2>1, <2>2, FS_Subset
  <2> QED BY <2>3, <1>1, FS_CardinalityType
<1>3. ASSUME NEW x \in S, NEW y \in S, y \in before[x]
      PROVE  rank[y] < rank[x]
  <2>1. before[y] \cup {y} \subseteq before[x] /\ y \notin before[y]
    BY <1>3
  <2>2. Cardinality(before[y] \cup {y}) = Cardinality(before[y]) + 1
    BY <2>1, <1>2, FS_AddElement
  <2>3. Cardinality(before[y] \cup {y}) <= Cardinality(before[x])
    BY <2>1, <1>2, FS_Subset
  <2> QED BY <2>2, <2>3, <1>2
<1>4. \A x, y \in S : rank[x] = rank[y] => x = y
  BY <1>2, <1>3
<1>5. rank \in Injection(S, 1 .. n)
  BY <1>2, <1>4 DEF Injection, IsInjective
<1>6. rank \in Surjection(S, 1 .. n)
  BY <1>1, <1>5, FS_Injection
<1>7. \A i \in 1 .. n : \E x \in S : rank[x] = i
  BY <1>6 DEF Surjection
<1>8. \A i \in 1 .. n : s[i] \in S /\ Cardinality(before[s[i]]) = i - 1
  <2> TAKE i \in 1 .. n
  <2>1. s[i] = CHOOSE x \in S : Cardinality(before[x]) = i - 1
    BY <1>1 DEF Enumerated
  <2>2. \E x \in S : Cardinality(before[x]) = i - 1
    BY <1>7, <1>2
  <2> QED BY <2>1, <2>2
<1>9. \A i \in 1 .. n : rank[s[i]] = i
  BY <1>8
<1>10. s \in [1 .. n -> S] /\ Len(s) = n
  <2>1. s = [i \in 1 .. n |-> s[i]]
    BY DEF Enumerated
  <2> QED BY <1>1, <1>8, <2>1
<1>11. \A x \in S : s[rank[x]] = x
  BY <1>2, <1>8, <1>9, <1>4
<1>12. Lists(s, S)
  BY <1>1, <1>2, <1>9, <1>10, <1>11 DEF Lists
<1> HIDE DEF rank, s
<1>13. ASSUME NEW i \in 1 .. n, NEW j \in 1 .. n, i < j
       PROVE  s[i] \in before[s[j]]
  <2>1. s[i] \in S /\ s[j] \in S /\ rank[s[i]] = i /\ rank[s[j]] = j
    BY <1>8, <1>9
  <2>2. s[i] # s[j] /\ ~(rank[s[j]] < rank[s[i]])
    BY <2>1, <1>13
  <2> QED BY <2>1, <2>2, <1>3
<1> QED BY <1>12, <1>13 DEF s

\* SortedBy with the order of the SELECTs, newest first ...
LEMMA NewestFirst ==
  ASSUME NEW S, S \subseteq Events, IsFiniteSet(S)
  PROVE  /\ Lists(SortedBy(S, Newer), S)
         /\ \A i, j \in 1 .. Cardinality(S) :
              i < j => Newer(SortedBy(S, Newer)[i], SortedBy(S, Newer)[j])
<1> DEFINE before == [x \in S |-> {y \in S : Newer(y, x)}]
<1>1. before \in [S -> SUBSET S]
  OBVIOUS
<1>2. /\ \A x \in S : x \notin before[x]
      /\ \A x, y \in S : y \in before[x] => before[y] \subseteq before[x]
      /\ \A x, y \in S : x = y \/ x \in before[y] \/ y \in before[x]
  BY EventAssumption DEF Newer
<1>3. SortedBy(S, Newer) = Enumerated(S, before)
  BY DEF SortedBy
<1>4. \A x, y : x \in S /\ y \in before[x] => Newer(y, x)
  OBVIOUS
<1> HIDE DEF before
<1>5. /\ Lists(Enumerated(S, before), S)
      /\ \A i, j \in 1 .. Cardinality(S) :
           i < j => Enumerated(S, before)[i] \in before[Enumerated(S, before)[j]]
  BY <1>1, <1>2, EnumeratedLists
<1>6. \A i \in 1 .. Cardinality(S) : Enumerated(S, before)[i] \in S
  BY <1>5 DEF Lists
<1> QED BY <1>3, <1>4, <1>5, <1>6

\* ... with the order of the NIP-77 items, oldest first ...
LEMMA OldestFirst ==
  ASSUME NEW S, S \subseteq Events, IsFiniteSet(S)
  PROVE  Lists(SortedBy(S, LAMBDA e, g : \/ CreatedAt[e] < CreatedAt[g]
                                         \/ CreatedAt[e] = CreatedAt[g] /\ IdRank[e] < IdRank[g]), S)
<1> DEFINE before == [x \in S |-> {y \in S : \/ CreatedAt[y] < CreatedAt[x]
                                             \/ CreatedAt[y] = CreatedAt[x] /\ IdRank[y] < IdRank[x]}]
<1>1. before \in [S -> SUBSET S]
  OBVIOUS
<1>2. /\ \A x \in S : x \notin before[x]
      /\ \A x, y \in S : y \in before[x] => before[y] \subseteq before[x]
      /\ \A x, y \in S : x = y \/ x \in before[y] \/ y \in before[x]
  BY EventAssumption
<1>3. Lists(Enumerated(S, before), S)
  <2> HIDE DEF before
  <2> QED BY <1>1, <1>2, EnumeratedLists
<1> QED BY <1>3 DEF SortedBy

\* ... with the order of a search, best first ...
LEMMA BestFirst ==
  ASSUME NEW text \in DOMAIN Score, NEW S, S \subseteq Events, IsFiniteSet(S)
  PROVE  LET s == SortedBy(S, LAMBDA e, g : Better(text, e, g))
         IN  /\ Lists(s, S)
             /\ \A i, j \in 1 .. Cardinality(S) : i < j => Better(text, s[i], s[j])
<1> DEFINE s == SortedBy(S, LAMBDA e, g : Better(text, e, g))
<1> DEFINE before == [x \in S |-> {y \in S : Better(text, y, x)}]
<1>1. before \in [S -> SUBSET S]
  OBVIOUS
<1>2. /\ \A x \in S : x \notin before[x]
      /\ \A x, y \in S : y \in before[x] => before[y] \subseteq before[x]
      /\ \A x, y \in S : x = y \/ x \in before[y] \/ y \in before[x]
  <2>1. \A x \in S : Score[text][x] \in Int /\ IdRank[x] \in Int
    BY FilterAssumption, EventAssumption
  <2>3. \A x, y \in S : IdRank[x] = IdRank[y] => x = y
    BY EventAssumption
  <2>2. /\ \A x \in S : ~Better(text, x, x)
        /\ \A x, y, z \in S : Better(text, x, y) /\ Better(text, y, z) => Better(text, x, z)
        /\ \A x, y \in S : x = y \/ Better(text, x, y) \/ Better(text, y, x)
    BY <2>1, <2>3 DEF Better
  <2> QED BY <2>2
<1>3. s = Enumerated(S, before)
  BY DEF SortedBy
<1>4. \A x, y : x \in S /\ y \in before[x] => Better(text, y, x)
  OBVIOUS
<1> HIDE DEF before
<1>5. /\ Lists(Enumerated(S, before), S)
      /\ \A i, j \in 1 .. Cardinality(S) :
           i < j => Enumerated(S, before)[i] \in before[Enumerated(S, before)[j]]
  BY <1>1, <1>2, EnumeratedLists
<1>6. \A i \in 1 .. Cardinality(S) : Enumerated(S, before)[i] \in S
  BY <1>5 DEF Lists
<1> QED BY <1>3, <1>4, <1>5, <1>6

\* ... and indices in their own order.
LEMMA NumbersAscend ==
  ASSUME NEW S, S \subseteq Int, IsFiniteSet(S)
  PROVE  Lists(SortedBy(S, <), S)
<1> DEFINE before == [x \in S |-> {y \in S : y < x}]
<1>1. before \in [S -> SUBSET S]
  OBVIOUS
<1>2. /\ \A x \in S : x \notin before[x]
      /\ \A x, y \in S : y \in before[x] => before[y] \subseteq before[x]
      /\ \A x, y \in S : x = y \/ x \in before[y] \/ y \in before[x]
  <2>1. /\ \A x, y, z \in S : x < y /\ y < z => x < z
        /\ \A x, y \in S : x = y \/ x < y \/ y < x
        /\ \A x \in S : ~(x < x)
    OBVIOUS
  <2> QED BY <2>1, Zenon
<1>3. Lists(Enumerated(S, before), S)
  <2> HIDE DEF before
  <2> QED BY <1>1, <1>2, EnumeratedLists
<1> QED BY <1>3 DEF SortedBy

\* The values of such a list are the set.
LEMMA ListRange ==
  ASSUME NEW S, NEW s, Lists(s, S)
  PROVE  Range(s) = S /\ DOMAIN s = 1 .. Len(s) /\ s \in Seq(S) /\ IsInjective(s)
BY DEF Lists, Range, IsInjective

\* A part of a list has as many elements as places.
LEMMA SliceCounts ==
  ASSUME NEW S, NEW s, Lists(s, S), NEW n \in 0 .. Len(s)
  PROVE  /\ SubSeq(s, 1, n) \in Seq(S) /\ Len(SubSeq(s, 1, n)) = n
         /\ \A i \in 1 .. n : SubSeq(s, 1, n)[i] = s[i]
         /\ IsFiniteSet(Range(SubSeq(s, 1, n)))
         /\ Cardinality(Range(SubSeq(s, 1, n))) = n
<1> DEFINE t == SubSeq(s, 1, n)
<1>1. s \in Seq(S) /\ Len(s) \in Nat
  BY ListRange DEF Lists
<1>2. t \in Seq(S) /\ Len(t) = n /\ \A i \in 1 .. n : t[i] = s[i]
  BY <1>1
<1> HIDE DEF t
<1>3. DOMAIN t = 1 .. n /\ t \in [1 .. n -> Range(t)]
  BY <1>2 DEF Range
<1>4. t \in Surjection(1 .. n, Range(t))
  BY <1>2, <1>3 DEF Surjection, Range
<1>5. t \in Injection(1 .. n, Range(t))
  <2>1. \A i, j \in 1 .. n : t[i] = t[j] => i = j
    BY <1>1, <1>2 DEF Lists
  <2> QED BY <2>1, <1>3 DEF Injection, IsInjective
<1>6. IsFiniteSet(1 .. n) /\ Cardinality(1 .. n) = n
  BY FS_Interval
<1>7. IsFiniteSet(Range(t)) /\ Cardinality(Range(t)) = n
  BY <1>4, <1>5, <1>6, FS_Surjection
<1> QED BY <1>2, <1>7 DEF t

\* LIMIT keeps the first rows: what is left out comes after a full page.
LEMMA LimitCuts ==
  ASSUME NEW S, NEW before, NEW s, Lists(s, S),
         \A i, j \in 1 .. Len(s) : i < j => s[i] \in before[s[j]],
         NEW f, f.limit \in Int \cup {Absent}
  PROVE  LET r == Limited(f, s)
             R == Range(r)
         IN  /\ r \in Seq(S) /\ R \subseteq S /\ IsFiniteSet(R) /\ Cardinality(R) = Len(r)
             /\ Unlimited(f) => R = S
             /\ ~Unlimited(f) => Cardinality(R) <= f.limit
             /\ \A x \in S \ R :
                  ~Unlimited(f) /\ Cardinality(R) = f.limit /\ \A g \in R : g \in before[x]
<1> DEFINE n == FilterSQLLimit(f, s)
           m == IF n < Len(s) THEN n ELSE Len(s)
           r == Limited(f, s)
           R == Range(r)
<1>1. Len(s) \in Nat /\ s \in Seq(S) /\ DOMAIN s = 1 .. Len(s) /\ Range(s) = S
  BY ListRange DEF Lists
<1>2. /\ Unlimited(f) => m = Len(s)
      /\ ~Unlimited(f) => f.limit \in Nat /\ m <= f.limit /\ (m < Len(s) => m = f.limit)
      /\ m \in 0 .. Len(s)
  BY <1>1, FilterAssumption DEF FilterSQLLimit, Unlimited
<1>12. m \in Nat /\ m <= Len(s) /\ Len(s) \in Nat
  BY <1>1, FilterAssumption DEF FilterSQLLimit
<1>3. r = SubSeq(s, 1, m)
  BY DEF Limited
<1> HIDE DEF m, r
<1>4. /\ r \in Seq(S) /\ Len(r) = m /\ \A i \in 1 .. m : r[i] = s[i]
      /\ IsFiniteSet(R) /\ Cardinality(R) = m
  BY <1>2, <1>3, SliceCounts
<1>5. DOMAIN r = 1 .. m
  BY <1>2, <1>4
<1>6. R \subseteq S
  BY <1>4, <1>5 DEF Range
<1>7. \A x \in S \ R : \E j \in 1 .. Len(s) : s[j] = x /\ m < j
  <2> TAKE x \in S \ R
  <2>1. PICK j \in 1 .. Len(s) : s[j] = x
    BY DEF Lists
  <2>2. j \in 1 .. m => x \in R
    BY <1>4, <1>5, <2>1 DEF Range
  <2> QED BY <2>1, <2>2, <1>12
<1>8. \A x \in S \ R : \A g \in R : g \in before[x]
  <2> TAKE x \in S \ R
  <2> TAKE g \in R
  <2>1. PICK j \in 1 .. Len(s) : s[j] = x /\ m < j
    BY <1>7
  <2>2. PICK i \in 1 .. m : g = s[i]
    BY <1>4, <1>5 DEF Range
  <2>3. i \in 1 .. Len(s) /\ i < j
    BY <2>1, <2>2, <1>12
  <2> QED BY <2>1, <2>2, <2>3
<1>9. \A x \in S \ R : m < Len(s)
  BY <1>7, <1>12
<1>10. Unlimited(f) => R = S
  <2> SUFFICES ASSUME Unlimited(f) PROVE S \subseteq R
    BY <1>6
  <2> QED BY <1>2, <1>9, <1>12
<1>11. \A x \in S \ R : ~Unlimited(f) /\ m = f.limit
  BY <1>2, <1>9, <1>12
<1> QED BY <1>2, <1>4, <1>6, <1>8, <1>10, <1>11 DEF r

----------------------------------------------------------------------------
(* The statements of a snapshot. *)

\* g has the conditions of f, whatever its limit and its cursor.
SameConditions(f, g) ==
  /\ g.ids = f.ids /\ g.authors = f.authors /\ g.kinds = f.kinds
  /\ g.since = f.since /\ g.until = f.until /\ g.tag = f.tag

\* The rows of a filter with a cursor.
LEMMA FitsRow ==
  ASSUME NEW f, IsFilter(f), NEW g, SameConditions(f, g), NEW S
  PROVE  \A e : e \in ApplyFilterQuery(g, S) <=>
               /\ e \in S /\ e \in ApplyFilterQuery(WithoutSearch(f), {e})
               /\ g.cursor # Absent => Newer(g.cursor, e)
<1>1. WithoutSearch(f).cursor = Absent /\ SameConditions(f, WithoutSearch(f))
  BY DEF WithoutSearch, IsFilter, SameConditions
<1> QED BY <1>1 DEF ApplyFilterQuery, SameConditions

\* evs is a page that g asks for f: rows that fit and follow the cursor, the
\* last one closing the page; what follows it was cut off by a full page.
IsPage(f, g, S, evs) ==
  LET R == Range(evs)
      follows(e) == Fits(f, e) /\ (g.cursor # Absent => Newer(g.cursor, e))
  IN  /\ evs \in Seq(Events) /\ Len(evs) = Cardinality(R) /\ IsFiniteSet(R)
      /\ R \subseteq S
      /\ \A e \in R : follows(e)
      /\ ~Unlimited(g) => Cardinality(R) <= g.limit
      /\ \A e \in S \ R : follows(e) =>
           ~Unlimited(g) /\ Cardinality(R) = g.limit /\ \A x \in R : Newer(x, e)
      /\ evs # <<>> => /\ Last(evs) \in R
                       /\ \A x \in R : x = Last(evs) \/ Newer(x, Last(evs))

\* A filter that is no search is answered by a page.
LEMMA PageOfFilter ==
  ASSUME NEW f, IsFilter(f), ~HasSearch(f), NEW g, SameConditions(f, g), ~HasSearch(g),
         g.limit \in Int \cup {Absent}, g.cursor \in Events \cup {Absent},
         NEW S, S \subseteq Events
  PROVE  IsPage(f, g, S, QueryEvents(<<g>>, S))
<1> DEFINE c == g.cursor
           limit == g.limit
           evs == QueryEvents(<<g>>, S)
           M == ApplyFilterQuery(g, S)
           s == SortedBy(M, Newer)
           before == [x \in M |-> {y \in M : Newer(y, x)}]
           R == Range(Limited(g, s))
<1>2. M = {e \in S : Fits(f, e) /\ (c # Absent => Newer(c, e))}
  <2>2. \A e : e \in M <=> /\ e \in S /\ e \in ApplyFilterQuery(WithoutSearch(f), {e})
                           /\ c # Absent => Newer(c, e)
    BY FitsRow
  <2> QED BY <2>2 DEF Fits
<1>3. M \subseteq S /\ M \subseteq Events /\ IsFiniteSet(M)
  BY <1>2, FilterAssumption, FS_Subset
<1> HIDE DEF M
<1>4. Lists(s, M) /\ \A i, j \in 1 .. Cardinality(M) : i < j => Newer(s[i], s[j])
  BY <1>3, NewestFirst
<1>5. \A i, j \in 1 .. Len(s) : i < j => s[i] \in before[s[j]]
  BY <1>4 DEF Lists
<1>6. \A x \in M : \A y \in before[x] : Newer(y, x)
  OBVIOUS
<1> HIDE DEF s, before
<1>8. /\ R \subseteq M /\ IsFiniteSet(R)
      /\ ~Unlimited(g) => Cardinality(R) <= limit
      /\ \A x \in M \ R :
           ~Unlimited(g) /\ Cardinality(R) = limit /\ \A y \in R : y \in before[x]
  BY <1>4, <1>5, LimitCuts
<1>9. evs = SortedBy(R, Newer)
  <2>1. SelectRows(g, S) = Limited(g, s)
    BY DEF SelectRows, M, s
  <2>2. {SelectRows(<<g>>[i], S) : i \in DOMAIN <<g>>} = {SelectRows(g, S)}
    OBVIOUS
  <2>3. UNION {Range(SelectRows(<<g>>[i], S)) : i \in DOMAIN <<g>>} = R
    BY <2>1
  <2> QED BY <2>3 DEF QueryEvents
<1> HIDE DEF R, evs
<1>10. /\ Lists(evs, R)
       /\ \A i, j \in 1 .. Cardinality(R) : i < j => Newer(evs[i], evs[j])
  BY <1>3, <1>8, <1>9, NewestFirst
<1>11. Range(evs) = R /\ evs \in Seq(R) /\ Len(evs) = Cardinality(R) /\ DOMAIN evs = 1 .. Len(evs)
  BY <1>10, ListRange DEF Lists
<1>12. evs \in Seq(Events)
  BY <1>3, <1>8, <1>11
<1>14. ASSUME evs # <<>>
       PROVE  Last(evs) \in R /\ \A y \in R : y = Last(evs) \/ Newer(y, Last(evs))
  <2>1. Len(evs) \in Nat /\ Len(evs) \in 1 .. Len(evs)
    BY <1>11, <1>14
  <2>2. Last(evs) = evs[Len(evs)] /\ Last(evs) \in R
    BY <2>1, <1>11 DEF Last
  <2>3. ASSUME NEW y \in R PROVE y = Last(evs) \/ Newer(y, Last(evs))
    <3>1. PICK i \in 1 .. Len(evs) : evs[i] = y
      BY <1>10 DEF Lists
    <3> QED BY <2>1, <2>2, <3>1, <1>10, <1>11
  <2> QED BY <2>2, <2>3
<1>15. \A e \in M \ R : \A y \in R : Newer(y, e)
  BY <1>6, <1>8
<1> QED BY <1>2, <1>3, <1>8, <1>11, <1>12, <1>14, <1>15 DEF IsPage, evs

\* The hits of a search, likewise.
LEMMA HitsOfSearch ==
  ASSUME NEW f, IsFilter(f), HasSearch(f), NEW S, S \subseteq Events
  PROVE  LET hits == SearchEvents(f.search, f, S)
             R == Range(hits)
         IN  /\ hits \in Seq(Events) /\ IsFiniteSet(R) /\ R \subseteq S
             /\ \A e \in R : Fits(f, e)
             /\ ~Unlimited(f) => Cardinality(R) <= f.limit
             /\ \A e \in S \ R : Fits(f, e) =>
                  ~Unlimited(f) /\ Cardinality(R) = f.limit /\ \A g \in R : Outranks(f, g, e)
<1> DEFINE text == f.search
           g == [WithoutSearch(f) EXCEPT !.cursor = Absent]
           M == {e \in SearchConstraints(WithoutSearch(f), S) : Score[text][e] > 0}
           s == SortedBy(M, LAMBDA e, x : Better(text, e, x))
           before == [x \in M |-> {y \in M : Better(text, y, x)}]
           hits == SearchEvents(text, f, S)
           R == Range(hits)
<1>1. text \in DOMAIN Score /\ f.limit \in Int \cup {Absent}
  BY DEF IsFilter, HasSearch
<1>2. M = {e \in S : Fits(f, e)}
  <2>1. SameConditions(f, g) /\ g.cursor = Absent
    BY DEF IsFilter, SameConditions, WithoutSearch
  <2> HIDE DEF g
  <2>2. \A e : e \in ApplyFilterQuery(g, S) <=>
               e \in S /\ e \in ApplyFilterQuery(WithoutSearch(f), {e})
    BY <2>1, FitsRow
  <2>3. M = {e \in ApplyFilterQuery(g, S) : Score[text][e] > 0}
    BY DEF SearchConstraints, g
  <2> QED BY <2>2, <2>3 DEF Fits
<1>3. M \subseteq S /\ M \subseteq Events /\ IsFiniteSet(M)
  BY <1>2, FilterAssumption, FS_Subset
<1>4. hits = Limited(f, s)
  BY DEF SearchEvents
<1> HIDE DEF M
<1>5. Lists(s, M) /\ \A i, j \in 1 .. Cardinality(M) : i < j => Better(text, s[i], s[j])
  BY <1>1, <1>3, BestFirst
<1> HIDE DEF s
<1>6. \A i, j \in 1 .. Len(s) : i < j => s[i] \in before[s[j]]
  BY <1>5 DEF Lists
<1>7. \A x \in M : \A y \in before[x] : Better(text, y, x)
  OBVIOUS
<1> HIDE DEF before, hits
<1>8. /\ hits \in Seq(M) /\ R \subseteq M /\ IsFiniteSet(R)
      /\ ~Unlimited(f) => Cardinality(R) <= f.limit
      /\ \A x \in M \ R :
           ~Unlimited(f) /\ Cardinality(R) = f.limit /\ \A y \in R : y \in before[x]
  BY <1>1, <1>4, <1>5, <1>6, LimitCuts
<1>9. hits \in Seq(Events)
  BY <1>3, <1>8
<1>10. \A e \in M \ R : \A y \in R : Outranks(f, y, e)
  BY <1>2, <1>7, <1>8 DEF Outranks
<1> QED BY <1>2, <1>3, <1>8, <1>9, <1>10 DEF hits

----------------------------------------------------------------------------
(* Merging a page. *)

\* A non-empty set of numbers has a least one.
LEMMA LeastNumber ==
  ASSUME NEW S, S \subseteq Nat, S # {}
  PROVE  \E n \in S : \A m \in S : n <= m
<1> DEFINE R == OpToRel(<, Nat)
<1>1. \A m, n \in Nat : m < n => <<m, n>> \in R
  BY DEF OpToRel
<1>2. IsWellFoundedOn(R, Nat)
  BY NatLessThanWellFounded
<1> HIDE DEF R
<1>3. PICK n \in S : \A m \in S : ~(m < n)
  BY <1>1, <1>2, WFMin, Zenon
<1> QED BY <1>3

\* What two sequences hold, one after the other.
LEMMA RangeJoin ==
  ASSUME NEW E, NEW s \in Seq(E), NEW t \in Seq(E)
  PROVE  s \o t \in Seq(E) /\ Range(s \o t) = Range(s) \cup Range(t)
<1> DEFINE u == s \o t
<1>1. /\ u \in Seq(E) /\ Len(u) = Len(s) + Len(t) /\ DOMAIN u = 1 .. Len(s) + Len(t)
      /\ Len(s) \in Nat /\ Len(t) \in Nat /\ DOMAIN s = 1 .. Len(s) /\ DOMAIN t = 1 .. Len(t)
  OBVIOUS
<1>2. /\ \A i \in 1 .. Len(s) : u[i] = s[i]
      /\ \A i \in 1 .. Len(u) : i \notin 1 .. Len(s) =>
           i - Len(s) \in 1 .. Len(t) /\ u[i] = t[i - Len(s)]
      /\ \A i \in 1 .. Len(t) : i + Len(s) \in 1 .. Len(u) /\ u[i + Len(s)] = t[i]
  BY <1>1
<1> HIDE DEF u
<1>3. Range(u) = Range(s) \cup Range(t)
  <2>1. ASSUME NEW i \in 1 .. Len(u) PROVE u[i] \in Range(s) \cup Range(t)
    BY <1>1, <1>2 DEF Range
  <2>2. ASSUME NEW i \in 1 .. Len(s) PROVE i \in 1 .. Len(u) /\ s[i] = u[i]
    BY <1>1, <1>2
  <2>3. ASSUME NEW i \in 1 .. Len(t) PROVE i + Len(s) \in 1 .. Len(u) /\ t[i] = u[i + Len(s)]
    BY <1>2
  <2>4. DOMAIN u = 1 .. Len(u)
    BY <1>1
  <2>5. Range(s) \subseteq Range(u) /\ Range(t) \subseteq Range(u)
    BY <1>1, <2>2, <2>3, <2>4 DEF Range
  <2>6. Range(u) \subseteq Range(s) \cup Range(t)
    <3>1. \A x \in Range(u) : \E i \in 1 .. Len(u) : x = u[i]
      BY <2>4 DEF Range
    <3> QED BY <3>1, <2>1
  <2> QED BY <2>5, <2>6
<1> QED BY <1>1, <1>3 DEF u

\* Lists that share nothing, one after the other.
LEMMA ListsJoin ==
  ASSUME NEW E, NEW s \in Seq(E), NEW t \in Seq(E), IsInjective(s), IsInjective(t),
         Range(s) \cap Range(t) = {}
  PROVE  /\ s \o t \in Seq(E) /\ IsInjective(s \o t)
         /\ Range(s \o t) = Range(s) \cup Range(t)
<1> DEFINE u == s \o t
<1>1. /\ u \in Seq(E) /\ Len(u) = Len(s) + Len(t) /\ DOMAIN u = 1 .. Len(s) + Len(t)
      /\ Len(s) \in Nat /\ Len(t) \in Nat /\ DOMAIN s = 1 .. Len(s) /\ DOMAIN t = 1 .. Len(t)
  OBVIOUS
<1>2. /\ \A i \in 1 .. Len(s) : u[i] = s[i]
      /\ \A i \in 1 .. Len(u) : i \notin 1 .. Len(s) =>
           i - Len(s) \in 1 .. Len(t) /\ u[i] = t[i - Len(s)]
      /\ \A i \in 1 .. Len(t) : i + Len(s) \in 1 .. Len(u) /\ u[i + Len(s)] = t[i]
  BY <1>1
<1> HIDE DEF u
<1>3. Range(u) = Range(s) \cup Range(t)
  BY RangeJoin DEF u
<1>4. ASSUME NEW i \in 1 .. Len(u), NEW j \in 1 .. Len(u), u[i] = u[j]
      PROVE  i = j
  <2>1. CASE i \in 1 .. Len(s) /\ j \in 1 .. Len(s)
    BY <2>1, <1>1, <1>2, <1>4 DEF IsInjective
  <2>2. CASE i \notin 1 .. Len(s) /\ j \notin 1 .. Len(s)
    <3>2. /\ i - Len(s) \in DOMAIN t /\ j - Len(s) \in DOMAIN t
          /\ t[i - Len(s)] = t[j - Len(s)]
      BY <2>2, <1>1, <1>2, <1>4
    <3>1. i - Len(s) = j - Len(s)
      BY <3>2 DEF IsInjective
    <3> QED BY <3>1, <1>1
  <2>3. CASE ~(i \in 1 .. Len(s) <=> j \in 1 .. Len(s))
    <3>2. \A k \in 1 .. Len(u) : IF k \in 1 .. Len(s) THEN u[k] \in Range(s) ELSE u[k] \in Range(t)
      BY <1>1, <1>2 DEF Range
    <3>1. \/ u[i] \in Range(s) /\ u[j] \in Range(t)
          \/ u[i] \in Range(t) /\ u[j] \in Range(s)
      BY <2>3, <3>2
    <3> QED BY <3>1, <1>4
  <2> QED BY <2>1, <2>2, <2>3
<1> QED BY <1>1, <1>3, <1>4 DEF IsInjective, u

\* Fresh keeps the first occurrence of what was not sent.
LEMMA FreshLists ==
  ASSUME NEW s \in Seq(Events)
  PROVE  /\ Fresh(s) \in Seq(Events) /\ IsInjective(Fresh(s))
         /\ Range(Fresh(s)) = Range(s) \ Range(sent)
<1> DEFINE first(i) == s[i] \notin Range(sent) /\ \A j \in 1 .. i - 1 : s[j] # s[i]
           I == {i \in DOMAIN s : first(i)}
           index == SortedBy(I, <)
           t == Fresh(s)
<1>1. DOMAIN s = 1 .. Len(s) /\ Len(s) \in Nat /\ IsFiniteSet(1 .. Len(s))
  BY FS_Interval
<1>2. I \subseteq Int /\ I \subseteq Nat /\ IsFiniteSet(I)
  BY <1>1, FS_Subset
<1>3. t = [k \in DOMAIN index |-> s[index[k]]]
  BY DEF Fresh
<1>4. \A i, j \in I : s[i] = s[j] => i = j
  BY <1>1
<1>5. \A x \in Range(s) \ Range(sent) : \E i \in I : s[i] = x
  <2> TAKE x \in Range(s) \ Range(sent)
  <2> DEFINE J == {i \in DOMAIN s : s[i] = x}
  <2>1. J \subseteq Nat /\ J # {}
    BY <1>1 DEF Range
  <2>2. PICK i \in J : \A j \in J : i <= j
    BY <2>1, LeastNumber
  <2> QED BY <2>2, <1>1
<1>6. \A i \in I : s[i] \in Range(s) \ Range(sent) /\ s[i] \in Events
  BY <1>1 DEF Range
<1> HIDE DEF I
<1>7. Lists(index, I)
  BY <1>2, NumbersAscend
<1> HIDE DEF index, t
<1>8. DOMAIN index = 1 .. Len(index) /\ Len(index) \in Nat /\ \A k \in DOMAIN index : index[k] \in I
  BY <1>7, ListRange DEF Lists
<1>9. t \in Seq(Events) /\ DOMAIN t = 1 .. Len(index)
  BY <1>3, <1>6, <1>8
<1>10. IsInjective(t)
  BY <1>3, <1>4, <1>7, <1>8 DEF IsInjective, Lists
<1>11. \A x \in Range(s) \ Range(sent) : \E k \in DOMAIN index : s[index[k]] = x
  BY <1>5, <1>7, <1>8 DEF Lists
<1>12. Range(t) = Range(s) \ Range(sent)
  <2>1. \A x : x \in Range(t) <=> \E k \in DOMAIN index : x = s[index[k]]
    BY <1>3 DEF Range
  <2> QED BY <2>1, <1>6, <1>8, <1>11
<1> QED BY <1>9, <1>10, <1>12 DEF t

\* Merging sends the page, and nothing again.
LEMMA MergeSends ==
  ASSUME sent \in Seq(Events), IsInjective(sent), order \in Seq(Events),
         page \subseteq Events, Range(order) \subseteq page
  PROVE  LET all == sent \o MergePageEvents
         IN  /\ all \in Seq(Events) /\ IsInjective(all)
             /\ Range(all) = Range(sent) \cup page
<1> DEFINE rest == page \ (Range(sent) \cup Range(order))
           t == SortedBy(rest, Newer)
<1>1. rest \subseteq Events /\ IsFiniteSet(rest)
  BY FilterAssumption, FS_Subset
<1>2. Lists(t, rest)
  BY <1>1, NewestFirst
<1>3. t \in Seq(rest) /\ IsInjective(t) /\ Range(t) = rest
  BY <1>2, ListRange
<1>4. t \in Seq(Events)
  BY <1>1, <1>3
<1>5. /\ Fresh(order) \in Seq(Events) /\ IsInjective(Fresh(order))
      /\ Range(Fresh(order)) = Range(order) \ Range(sent)
  BY FreshLists
<1> DEFINE m == Fresh(order) \o t
<1>6. m \in Seq(Events) /\ IsInjective(m) /\ Range(m) = Range(Fresh(order)) \cup rest
  <2>1. Range(Fresh(order)) \cap Range(t) = {}
    BY <1>3, <1>5
  <2> HIDE DEF t
  <2> QED BY <2>1, <1>3, <1>4, <1>5, ListsJoin
<1>7. MergePageEvents = m
  BY DEF MergePageEvents
<1>8. Range(m) = page \ Range(sent)
  BY <1>5, <1>6
<1> HIDE DEF m
<1>9. /\ sent \o m \in Seq(Events) /\ IsInjective(sent \o m)
      /\ Range(sent \o m) = Range(sent) \cup Range(m)
  BY <1>6, <1>8, ListsJoin
<1> QED BY <1>7, <1>8, <1>9

----------------------------------------------------------------------------
(* The snapshot.  Every filter has a set of the events it took.  While the *)
(* filter is open, what it still owes follows its cursor; when it is not,  *)
(* it owes nothing, or its limit was used up by events that come first.    *)

\* A filter that will be asked (again): a search in its turn, the others until
\* they are exhausted.
Open(i) ==
  IF HasSearch(filters[i]) THEN phase = "search" /\ at <= i ELSE ~cur[i].exhausted

\* What filter i took so far, while more is to come.
Resumes(i, T) ==
  LET f == filters[i]  c == cur[i] IN
  IF HasSearch(f) \/ pageSize <= 0 THEN T = {} /\ c.cursor = Absent
  ELSE /\ c.cursor = Absent => T = {}
       /\ \A g \in T : g = c.cursor \/ Newer(g, c.cursor)
       /\ IF Unlimited(f) THEN c.remaining = 0
          ELSE c.remaining > 0 /\ Cardinality(T) + c.remaining = f.limit

\* Row e is still ahead of filter i, or lost its place to others.
Ahead(i, e) == Open(i) /\ (cur[i].cursor # Absent => Newer(cur[i].cursor, e))
CutOff(f, T, e) ==
  ~Unlimited(f) /\ Cardinality(T) >= f.limit /\ \A g \in T : Outranks(f, g, e)

FilterInv(i, T) ==
  LET f == filters[i] IN
  /\ T \subseteq ever
  /\ \A g \in T : Fits(f, g)
  /\ ~Unlimited(f) => Cardinality(T) <= f.limit
  /\ Open(i) => Resumes(i, T)
  /\ phase # "failed" =>
       \A e \in always \ T : Fits(f, e) => Ahead(i, e) \/ CutOff(f, T, e)

\* What was sent or merged is what the filters took.
TookInv ==
  \E took \in [DOMAIN filters -> SUBSET Events] :
    /\ Range(sent) \cup page = UNION {took[i] : i \in DOMAIN filters}
    /\ \A i \in DOMAIN filters : FilterInv(i, took[i])

Cursors == [cursor : Events \cup {Absent}, exhausted : BOOLEAN, remaining : Nat]

QueryTypes ==
  /\ rows \subseteq Events /\ ever \subseteq Events /\ page \subseteq Events
  /\ always \subseteq rows /\ rows \subseteq ever
  /\ pageSize \in Int
  /\ filters \in Seq(Range(filters)) /\ \A i \in DOMAIN filters : IsFilter(filters[i])
  /\ cur \in [DOMAIN filters -> Cursors]
  /\ at \in Nat \ {0}
  /\ order \in Seq(Events) /\ Range(order) \subseteq page
  /\ sent \in Seq(Events) /\ IsInjective(sent)

\* Searches have no page after the first, and a snapshot that ended has none.
Settles ==
  /\ \A i \in DOMAIN filters : HasSearch(filters[i]) => cur[i].exhausted
  /\ phase = "done" => page = {} /\ \A i \in DOMAIN filters : cur[i].exhausted

QueryInv == QueryTypes /\ Settles /\ TookInv

\* The invariant makes a snapshot exact.
LEMMA ExactFromInv == QueryInv => SnapshotExact
<1> SUFFICES ASSUME QueryInv PROVE SnapshotExact
  OBVIOUS
<1>1. PICK took \in [DOMAIN filters -> SUBSET Events] :
        /\ Range(sent) \cup page = UNION {took[i] : i \in DOMAIN filters}
        /\ \A i \in DOMAIN filters : FilterInv(i, took[i])
  BY DEF QueryInv, TookInv
<1>2. \A T : T \subseteq Events => IsFiniteSet(T) /\ Cardinality(T) \in Nat
  BY FilterAssumption, FS_Subset, FS_CardinalityType
<1>3. \A i \in DOMAIN filters : filters[i].limit \in Int \cup {Absent}
  BY DEF QueryInv, QueryTypes, IsFilter
<1>4. IsInjective(sent) /\ Range(sent) \subseteq ever
  <2>1. \A i \in DOMAIN filters : took[i] \subseteq ever
    BY <1>1 DEF FilterInv
  <2> QED BY <1>1, <2>1 DEF QueryInv, QueryTypes
<1>5. \E owner \in [Range(sent) -> DOMAIN filters] : \A i \in DOMAIN filters :
        LET own == {e \in Range(sent) : owner[e] = i}
        IN  /\ \A e \in own : Fits(filters[i], e)
            /\ Unlimited(filters[i]) \/ Cardinality(own) <= filters[i].limit
  <2> DEFINE owner == [e \in Range(sent) |-> CHOOSE i \in DOMAIN filters : e \in took[i]]
  <2>1. \A e \in Range(sent) : owner[e] \in DOMAIN filters /\ e \in took[owner[e]]
    BY <1>1
  <2>2. owner \in [Range(sent) -> DOMAIN filters]
    BY <2>1
  <2> HIDE DEF owner
  <2>3. ASSUME NEW i \in DOMAIN filters
        PROVE  LET own == {e \in Range(sent) : owner[e] = i}
               IN  /\ \A e \in own : Fits(filters[i], e)
                   /\ Unlimited(filters[i]) \/ Cardinality(own) <= filters[i].limit
    <3> DEFINE own == {e \in Range(sent) : owner[e] = i}
    <3>1. own \subseteq took[i] /\ took[i] \subseteq Events /\ own \subseteq Events
      BY <2>1
    <3>2. Cardinality(own) <= Cardinality(took[i])
      BY <3>1, <1>2, FS_Subset
    <3>3. /\ \A e \in took[i] : Fits(filters[i], e)
          /\ ~Unlimited(filters[i]) => Cardinality(took[i]) <= filters[i].limit
      BY <1>1 DEF FilterInv
    <3>4. Unlimited(filters[i]) \/ Cardinality(own) <= filters[i].limit
      <4>1. ~Unlimited(filters[i]) => filters[i].limit \in Int
        BY <1>3 DEF Unlimited
      <4>2. Cardinality(own) \in Nat /\ Cardinality(took[i]) \in Nat
        BY <3>1, <1>2
      <4> HIDE DEF own
      <4> QED BY <3>2, <3>3, <4>1, <4>2
    <3> QED BY <3>1, <3>3, <3>4
  <2> QED BY <2>2, <2>3
<1>6. ASSUME phase = "done", NEW i \in DOMAIN filters, NEW e \in Promised(filters[i])
      PROVE  e \in Range(sent)
  <2> DEFINE f == filters[i]
             first == {g \in ever : Outranks(f, g, e)}
  <2>1. SUFFICES ASSUME e \notin Range(sent) PROVE FALSE
    OBVIOUS
  <2>2. page = {} /\ ~Open(i)
    BY <1>6 DEF QueryInv, Settles, Open
  <2>3. e \in always \ took[i] /\ Fits(f, e)
    BY <2>1, <2>2, <1>1 DEF Promised
  <2>4. CutOff(f, took[i], e)
    BY <2>2, <2>3, <1>1, <1>6 DEF FilterInv, Ahead
  <2>5. took[i] \subseteq first /\ first \subseteq Events
    BY <2>4, <1>1 DEF CutOff, FilterInv, QueryInv, QueryTypes
  <2>6. Cardinality(took[i]) <= Cardinality(first)
    BY <2>5, <1>2, FS_Subset
  <2>7. ~Unlimited(f) /\ Cardinality(first) < f.limit /\ Cardinality(took[i]) >= f.limit
    BY <2>4 DEF CutOff, Promised
  <2>8. f.limit \in Int /\ Cardinality(first) \in Nat /\ Cardinality(took[i]) \in Nat
    BY <2>5, <2>7, <1>2, <1>3 DEF Unlimited
  <2> HIDE DEF f, first
  <2> QED BY <2>6, <2>7, <2>8
<1> QED BY <1>4, <1>5, <1>6 DEF SnapshotExact

\* A snapshot starts with nothing taken.
LEMMA QueryStarts == QueryInit => QueryInv
<1> SUFFICES ASSUME QueryInit PROVE QueryInv
  OBVIOUS
<1>1. PICK fs \in Requests : filters = ApplyDefaultQueryLimit(fs)
  BY DEF QueryInit
<1>2. fs \in Seq(Range(fs)) /\ \A i \in DOMAIN fs : IsFilter(fs[i])
  BY QueryAssumption DEF Range
<1>3. /\ DOMAIN filters = 1 .. Len(fs) /\ filters \in Seq(Range(filters))
      /\ \A i \in DOMAIN filters :
           filters[i] = IF DefaultLimit > 0 /\ fs[i].limit = Absent
                          THEN [fs[i] EXCEPT !.limit = DefaultLimit] ELSE fs[i]
  BY <1>1, <1>2 DEF ApplyDefaultQueryLimit, Range
<1>4. \A i \in DOMAIN filters : IsFilter(filters[i])
  <2>1. \A f : IsFilter(f) => IsFilter([f EXCEPT !.limit = DefaultLimit])
    BY QueryAssumption DEF IsFilter
  <2> QED BY <2>1, <1>2, <1>3
<1>5. \A i \in DOMAIN filters :
        /\ cur[i] \in Cursors /\ cur[i].cursor = Absent
        /\ cur[i].exhausted = HasSearch(filters[i])
        /\ IF Unlimited(filters[i]) THEN cur[i].remaining = 0
           ELSE cur[i].remaining > 0 /\ cur[i].remaining = filters[i].limit
  BY <1>4 DEF QueryInit, NewCursor, Cursors, IsFilter, Unlimited, HasSearch
<1>6. QueryTypes
  BY <1>3, <1>4, <1>5, QueryAssumption DEF QueryInit, QueryTypes, Range, IsInjective
<1>7. Settles
  BY <1>5 DEF QueryInit, Settles
<1>8. ASSUME NEW i \in DOMAIN filters PROVE FilterInv(i, {})
  <2>1. filters[i].limit \in Int \cup {Absent} /\ Cardinality({}) = 0 /\ i \in 1 .. Len(fs)
    BY <1>3, <1>4, FS_EmptySet DEF IsFilter
  <2>2. Open(i)
    BY <2>1, <1>5 DEF QueryInit, Open
  <2>3. Resumes(i, {})
    <3>1. cur[i].remaining \in Nat
      BY <1>5 DEF Cursors
    <3> QED BY <3>1, <2>1, <1>5 DEF Resumes
  <2>4. ~Unlimited(filters[i]) => Cardinality({}) <= filters[i].limit
    BY <2>1 DEF Unlimited
  <2>5. \A e : Ahead(i, e)
    BY <2>2, <1>5 DEF Ahead
  <2> QED BY <2>3, <2>4, <2>5 DEF FilterInv
<1>9. TookInv
  <2> DEFINE took == [i \in DOMAIN filters |-> {}]
  <2>1. took \in [DOMAIN filters -> SUBSET Events]
    OBVIOUS
  <2>2. Range(sent) \cup page = UNION {took[i] : i \in DOMAIN filters}
    BY DEF QueryInit, Range
  <2> QED BY <1>8, <2>1, <2>2 DEF TookInv
<1> QED BY <1>6, <1>7, <1>9 DEF QueryInv

\* A step that leaves a filter's place alone: rows may come and go.
LEMMA FilterKeeps ==
  ASSUME NEW i \in DOMAIN filters, NEW T, FilterInv(i, T),
         UNCHANGED <<filters, pageSize>>, cur'[i] = cur[i],
         phase = "failed" => phase' = "failed",
         Open(i)' => Open(i), phase' # "failed" => (Open(i) => Open(i)'),
         ever \subseteq ever', always' \subseteq always
  PROVE  FilterInv(i, T)'
<1>1. Resumes(i, T)' <=> Resumes(i, T)
  BY DEF Resumes
<1>2. \A e : phase' # "failed" /\ Ahead(i, e) => Ahead(i, e)'
  BY DEF Ahead
<1> QED BY <1>1, <1>2 DEF FilterInv

\* Every filter keeps what it took ...
LEMMA TookKept ==
  ASSUME TookInv, UNCHANGED filters, Range(sent)' \cup page' = Range(sent) \cup page,
         ASSUME NEW i \in DOMAIN filters, NEW T, FilterInv(i, T) PROVE FilterInv(i, T)'
  PROVE  TookInv'
<1>1. PICK took \in [DOMAIN filters -> SUBSET Events] :
        /\ Range(sent) \cup page = UNION {took[i] : i \in DOMAIN filters}
        /\ \A i \in DOMAIN filters : FilterInv(i, took[i])
  BY DEF TookInv
<1>2. \A i \in DOMAIN filters : FilterInv(i, took[i])'
  BY <1>1
<1> QED BY <1>1, <1>2 DEF TookInv

\* ... or one of them takes more.
LEMMA TookMore ==
  ASSUME TookInv, UNCHANGED <<filters, sent>>, NEW k \in DOMAIN filters,
         NEW R, R \subseteq Events, page' = page \cup R,
         ASSUME NEW i \in DOMAIN filters, i # k, NEW T, FilterInv(i, T) PROVE FilterInv(i, T)',
         ASSUME NEW T, T \subseteq Events, FilterInv(k, T) PROVE FilterInv(k, T \cup R)'
  PROVE  TookInv'
<1>1. PICK took \in [DOMAIN filters -> SUBSET Events] :
        /\ Range(sent) \cup page = UNION {took[i] : i \in DOMAIN filters}
        /\ \A i \in DOMAIN filters : FilterInv(i, took[i])
  BY DEF TookInv
<1> DEFINE more == [took EXCEPT ![k] = took[k] \cup R]
<1>2. /\ more \in [DOMAIN filters -> SUBSET Events]
      /\ more[k] = took[k] \cup R /\ \A i \in DOMAIN filters \ {k} : more[i] = took[i]
  OBVIOUS
<1>3. Range(sent) \cup page \cup R = UNION {more[i] : i \in DOMAIN filters}
  BY <1>1, <1>2
<1> HIDE DEF more
<1>4. FilterInv(k, more[k])'
  <2>1. FilterInv(k, took[k] \cup R)'
    BY <1>1
  <2> QED BY <2>1, <1>2
<1>5. \A i \in DOMAIN filters \ {k} : FilterInv(i, more[i])'
  <2> TAKE i \in DOMAIN filters \ {k}
  <2>1. FilterInv(i, took[i])'
    BY <1>1
  <2> QED BY <2>1, <1>2
<1>6. \A i \in DOMAIN filters : FilterInv(i, more[i])'
  BY <1>4, <1>5
<1> QED BY <1>2, <1>3, <1>6 DEF TookInv

\* A search takes its hits, once.
LEMMA SearchTakes == QueryInv /\ SearchNext => QueryInv'
<1> SUFFICES ASSUME QueryInv, SearchNext PROVE QueryInv'
  OBVIOUS
<1> USE DEF QueryInv
<1>1. PICK k : k = at
  OBVIOUS
<1> DEFINE f == filters[k]
           H == IF HasSearch(f) THEN SearchEvents(f.search, f, rows) ELSE <<>>
<1>2. PICK hits : hits = H
  OBVIOUS
<1>3. PICK R : R = Range(hits)
  OBVIOUS
<1>4. k \in DOMAIN filters /\ IsFilter(f) /\ k \in Nat /\ DOMAIN filters \subseteq Nat
  BY <1>1 DEF SearchNext, QueryTypes
<1>5. rows \subseteq Events /\ rows \subseteq ever /\ always \subseteq rows
  BY DEF QueryTypes
<1>6. hits \in Seq(Events) /\ R \subseteq rows /\ (~HasSearch(f) => R = {})
  <2>1. CASE HasSearch(f)
    <3>1. hits = SearchEvents(f.search, f, rows)
      BY <2>1, <1>2
    <3> QED BY <2>1, <3>1, <1>3, <1>4, <1>5, HitsOfSearch
  <2>2. CASE ~HasSearch(f)
    BY <2>2, <1>2, <1>3 DEF Range
  <2> QED BY <2>1, <2>2
<1>7. page' = page \cup R /\ order' = order \o hits
  BY <1>1, <1>2, <1>3 DEF SearchNext
<1>8. /\ UNCHANGED <<rows, pageSize, filters, cur, phase, sent, ever, always>>
      /\ phase = "search" /\ at = k /\ at' = k + 1
  BY <1>1 DEF SearchNext
<1>9. \A i \in DOMAIN filters : i # k \/ ~HasSearch(f) => (Open(i)' <=> Open(i))
  BY <1>4, <1>8 DEF Open
<1>10. ASSUME NEW i \in DOMAIN filters, i # k, NEW T, FilterInv(i, T) PROVE FilterInv(i, T)'
  BY <1>8, <1>9, <1>10, FilterKeeps
<1>11. ASSUME NEW T, T \subseteq Events, FilterInv(k, T) PROVE FilterInv(k, T \cup R)'
  <2>1. CASE ~HasSearch(f)
    <3>1. FilterInv(k, T)'
      BY <1>4, <1>8, <1>9, <1>11, <2>1, FilterKeeps
    <3> QED BY <2>1, <3>1, <1>6
  <2>2. CASE HasSearch(f)
    <3>1. T = {} /\ ~Open(k)'
      BY <2>2, <1>4, <1>8, <1>11 DEF Open, FilterInv, Resumes
    <3>2. /\ \A e \in R : Fits(f, e)
          /\ ~Unlimited(f) => Cardinality(R) <= f.limit
          /\ \A e \in rows \ R : Fits(f, e) =>
               ~Unlimited(f) /\ Cardinality(R) = f.limit /\ \A g \in R : Outranks(f, g, e)
      BY <2>2, <1>2, <1>3, <1>4, <1>5, HitsOfSearch
    <3>3. \A e \in always \ R : Fits(f, e) => CutOff(f, R, e)
      <4>1. ~Unlimited(f) => f.limit \in Int
        BY <1>4 DEF IsFilter, Unlimited
      <4> QED BY <1>5, <3>2, <4>1 DEF CutOff
    <3>4. FilterInv(k, R)'
      BY <1>5, <1>6, <1>8, <3>1, <3>2, <3>3 DEF FilterInv
    <3> QED BY <3>1, <3>4
  <2> QED BY <2>1, <2>2
<1>12. TookInv'
  BY <1>4, <1>5, <1>6, <1>7, <1>8, <1>10, <1>11, TookMore
<1>13. QueryTypes'
  <2>1. order' \in Seq(Events) /\ Range(order') \subseteq page'
    BY <1>3, <1>6, <1>7, RangeJoin DEF QueryTypes
  <2>2. page' \subseteq Events /\ at' \in Nat \ {0}
    BY <1>4, <1>5, <1>6, <1>7, <1>8 DEF QueryTypes
  <2> QED BY <1>5, <1>8, <2>1, <2>2 DEF QueryTypes
<1>14. Settles'
  BY <1>8 DEF Settles
<1> QED BY <1>12, <1>13, <1>14

\* Newer is a strict order.
LEMMA NewerOrders ==
  /\ \A x, y, z \in Events : Newer(x, y) /\ Newer(y, z) => Newer(x, z)
  /\ \A x, y \in Events : Newer(x, y) => ~Newer(y, x) /\ x # y
  /\ \A x, y \in Events : x = y \/ Newer(x, y) \/ Newer(y, x)
BY EventAssumption DEF Newer

\* A page of an open filter adds what follows the cursor: the filter is left
\* with a later cursor, or owes nothing that its limit has room for.
LEMMA PageTakes ==
  ASSUME QueryInv, UNCHANGED <<rows, pageSize, filters, ever, always>>,
         phase = "query", phase' = "query", pageSize > 0,
         NEW k \in DOMAIN filters, ~cur[k].exhausted,
         NEW evs, evs = QueryEvents(<<PageFilter(k)>>, rows), NEW R, R = Range(evs),
         cur'[k] = Advanced(cur[k], evs),
         NEW T, T \subseteq Events, FilterInv(k, T)
  PROVE  FilterInv(k, T \cup R)'
<1> DEFINE f == filters[k]
           c == cur[k]
           lim == Lim(c)
           rest == IF c.remaining > 0 THEN c.remaining - Len(evs) ELSE c.remaining
<1>1. /\ IsFilter(f) /\ ~HasSearch(f) /\ f.limit \in Int \cup {Absent}
      /\ c \in Cursors /\ rows \subseteq Events /\ rows \subseteq ever /\ always \subseteq rows
      /\ pageSize \in Int
  BY DEF QueryInv, QueryTypes, Settles, IsFilter
<1>2. /\ c.cursor \in Events \cup {Absent} /\ c.remaining \in Nat
      /\ lim \in Nat \ {0} /\ (c.remaining > 0 => lim <= c.remaining)
  BY <1>1 DEF Cursors, Lim
<1>3. PageFilter(k) = [f EXCEPT !.limit = lim, !.cursor = c.cursor]
  BY <1>1 DEF PageFilter
<1>4. /\ evs \in Seq(Events) /\ Len(evs) = Cardinality(R) /\ IsFiniteSet(R)
      /\ R \subseteq rows
      /\ \A e \in R : Fits(f, e) /\ (c.cursor # Absent => Newer(c.cursor, e))
      /\ Cardinality(R) <= lim
      /\ \A e \in rows \ R : Fits(f, e) /\ (c.cursor # Absent => Newer(c.cursor, e)) =>
           Cardinality(R) = lim /\ \A g \in R : Newer(g, e)
      /\ evs # <<>> => /\ Last(evs) \in R
                       /\ \A g \in R : g = Last(evs) \/ Newer(g, Last(evs))
  <2> DEFINE g == PageFilter(k)
  <2>1. lim \in Int \cup {Absent} /\ ~(lim = Absent \/ lim <= 0)
    BY <1>2, FilterAssumption
  <2>2. SameConditions(f, g) /\ ~HasSearch(g) /\ g.limit = lim /\ g.cursor = c.cursor
    BY <1>1, <1>3 DEF SameConditions, IsFilter, HasSearch
  <2> HIDE DEF f, c, lim, g
  <2>3. ~Unlimited(g)
    BY <2>1, <2>2 DEF Unlimited
  <2>4. IsPage(f, g, rows, evs)
    BY <1>1, <1>2, <2>1, <2>2, PageOfFilter DEF g
  <2> QED BY <2>2, <2>3, <2>4 DEF IsPage
<1>5. Open(k) /\ Resumes(k, T)
  BY <1>1 DEF Open, FilterInv
<1>6. /\ c.cursor = Absent => T = {}
      /\ \A g \in T : g = c.cursor \/ Newer(g, c.cursor)
      /\ Unlimited(f) => c.remaining = 0
      /\ ~Unlimited(f) => c.remaining > 0 /\ Cardinality(T) + c.remaining = f.limit
  BY <1>1, <1>5 DEF Resumes
<1>7. /\ T \subseteq ever /\ \A g \in T : Fits(f, g)
      /\ \A e \in always \ T : Fits(f, e) => Ahead(k, e) \/ CutOff(f, T, e)
  BY DEF FilterInv
<1>8. /\ ~Unlimited(f) => f.limit \in Nat
      /\ IsFiniteSet(T) /\ Cardinality(T) \in Nat /\ Cardinality(R) \in Nat
  BY <1>1, <1>4, FilterAssumption, FS_Subset, FS_CardinalityType DEF Unlimited
<1>9. cur'[k] = [cursor |-> IF evs = <<>> THEN c.cursor ELSE Last(evs),
                 remaining |-> rest,
                 exhausted |-> (c.remaining > 0 /\ rest <= 0) \/ Len(evs) < lim]
  BY <1>1 DEF Advanced
<1>10. Open(k)' <=> ~((c.remaining > 0 /\ rest <= 0) \/ Cardinality(R) < lim)
  <2>1. Open(k)' <=> ~cur'[k].exhausted
    BY <1>1 DEF Open
  <2>2. cur'[k].exhausted = ((c.remaining > 0 /\ rest <= 0) \/ Len(evs) < lim)
    BY <1>9
  <2> QED BY <2>1, <2>2, <1>4
<1>11. \A g \in T : \A e \in R : Newer(g, e)
  BY <1>2, <1>4, <1>6, <1>1, NewerOrders, FilterAssumption
<1>12. Cardinality(T \cup R) = Cardinality(T) + Cardinality(R)
  <2>1. T \cap R = {}
    BY <1>1, <1>4, <1>11, NewerOrders
  <2>2. Cardinality(T \cap R) = 0
    BY <2>1, FS_EmptySet
  <2>3. Cardinality(T \cup R) = Cardinality(T) + Cardinality(R) - Cardinality(T \cap R)
    BY <1>4, <1>8, FS_Union
  <2> QED BY <2>2, <2>3, <1>8
<1>13. ~Unlimited(f) => Cardinality(T \cup R) <= f.limit
  BY <1>2, <1>4, <1>6, <1>8, <1>12
<1> HIDE DEF f, c, lim
<1>14. ASSUME Open(k)' PROVE Resumes(k, T \cup R)'
  <2>1. Cardinality(R) = lim /\ evs # <<>> /\ ~(c.remaining > 0 /\ rest <= 0)
    BY <1>2, <1>4, <1>8, <1>10, <1>14
  <2>2. cur'[k].cursor = Last(evs) /\ Last(evs) \in R /\ Last(evs) # Absent
    BY <2>1, <1>1, <1>4, <1>9, FilterAssumption
  <2>3. \A g \in T \cup R : g = Last(evs) \/ Newer(g, Last(evs))
    BY <2>1, <2>2, <1>4, <1>11
  <2>4. IF Unlimited(f) THEN cur'[k].remaining = 0
        ELSE cur'[k].remaining > 0 /\ Cardinality(T \cup R) + cur'[k].remaining = f.limit
    <3>1. cur'[k].remaining = rest /\ Len(evs) = Cardinality(R)
      BY <1>9, <1>4
    <3>2. CASE Unlimited(f)
      BY <3>1, <3>2, <1>6
    <3>3. CASE ~Unlimited(f)
      <4>1. c.remaining > 0 /\ rest = c.remaining - Cardinality(R) /\ rest > 0
        BY <3>1, <3>3, <2>1, <1>2, <1>6, <1>8
      <4> HIDE DEF rest
      <4> QED BY <3>1, <3>3, <4>1, <1>2, <1>6, <1>8, <1>12
    <3> QED BY <3>2, <3>3
  <2> QED BY <2>2, <2>3, <2>4, <1>1 DEF Resumes, f
<1>15. ASSUME NEW e \in always \ (T \cup R), Fits(f, e)
       PROVE  Ahead(k, e)' \/ CutOff(f, T \cup R, e)
  <2>1. c.cursor # Absent => Newer(c.cursor, e)
    <3>1. ~CutOff(f, T, e)
      BY <1>2, <1>6, <1>8 DEF CutOff
    <3> QED BY <3>1, <1>7, <1>15 DEF Ahead, c
  <2>2. e \in rows \ R /\ e \in Events
    BY <1>1
  <2>3. Cardinality(R) = lim /\ \A g \in R : Newer(g, e)
    BY <2>1, <2>2, <1>4, <1>15
  <2>4. \A g \in T : Newer(g, e)
    BY <2>1, <2>2, <1>2, <1>6, NewerOrders, FilterAssumption
  <2>5. CASE Open(k)'
    <3>1. evs # <<>> /\ Last(evs) \in R /\ cur'[k].cursor = Last(evs)
      BY <2>3, <1>2, <1>4, <1>9
    <3> QED BY <2>3, <2>5, <3>1 DEF Ahead
  <2>6. CASE ~Open(k)'
    <3>1. c.remaining > 0 /\ Cardinality(R) >= c.remaining
      BY <2>3, <2>6, <1>2, <1>4, <1>8, <1>10
    <3>2. ~Unlimited(f) /\ Cardinality(T \cup R) >= f.limit
      BY <3>1, <1>2, <1>6, <1>8, <1>12
    <3>3. \A g \in T \cup R : Outranks(f, g, e)
      BY <2>3, <2>4, <1>1, <1>4, <1>7 DEF Outranks
    <3> QED BY <3>2, <3>3 DEF CutOff
  <2> QED BY <2>5, <2>6
<1>16. T \cup R \subseteq ever /\ \A g \in T \cup R : Fits(f, g)
  BY <1>1, <1>4, <1>7
<1> QED BY <1>13, <1>14, <1>15, <1>16 DEF FilterInv, f

\* Without pages a filter takes its whole answer at once (fetchREQAll).
LEMMA AllTaken ==
  ASSUME QueryInv, UNCHANGED <<rows, pageSize, filters, ever, always>>,
         pageSize <= 0,
         NEW k \in DOMAIN filters, ~cur[k].exhausted,
         NEW evs, evs = QueryEvents(<<PageFilter(k)>>, rows), NEW R, R = Range(evs),
         cur'[k] = Advanced(cur[k], evs),
         NEW T, T \subseteq Events, FilterInv(k, T)
  PROVE  FilterInv(k, T \cup R)'
<1> DEFINE f == filters[k]
<1>1. /\ IsFilter(f) /\ ~HasSearch(f) /\ f.limit \in Int \cup {Absent} /\ f.cursor = Absent
      /\ rows \subseteq Events /\ rows \subseteq ever /\ always \subseteq rows
      /\ cur[k] \in Cursors
  BY DEF QueryInv, QueryTypes, Settles, IsFilter
<1>2. PageFilter(k) = f /\ SameConditions(f, f)
  BY DEF PageFilter, SameConditions
<1>3. IsPage(f, f, rows, evs)
  BY <1>1, <1>2, PageOfFilter
<1>4. T = {} /\ ~Open(k)'
  <2>1. cur'[k].exhausted
    BY <1>1 DEF Advanced, Cursors
  <2>2. ~Open(k)'
    BY <1>1, <2>1 DEF Open
  <2> QED BY <1>1, <2>2 DEF Open, FilterInv, Resumes
<1>5. /\ R \subseteq ever /\ \A g \in R : Fits(f, g)
      /\ ~Unlimited(f) => Cardinality(R) <= f.limit
  BY <1>1, <1>3 DEF IsPage
<1>6. \A e \in always \ R : Fits(f, e) => CutOff(f, R, e)
  <2>1. ~Unlimited(f) => f.limit \in Int
    BY <1>1 DEF Unlimited
  <2> HIDE DEF f
  <2> QED BY <1>1, <1>3, <2>1 DEF CutOff, Outranks, IsPage
<1>7. FilterInv(k, R)'
  BY <1>4, <1>5, <1>6 DEF FilterInv
<1> QED BY <1>4, <1>7

\* QueryNext, for the filter in turn and for the others.
LEMMA QueryTakes == QueryInv /\ QueryNext => QueryInv'
<1> SUFFICES ASSUME QueryInv, QueryNext PROVE QueryInv'
  OBVIOUS
<1> USE DEF QueryInv
<1>1. PICK k : k = at
  OBVIOUS
<1>2. /\ k \in DOMAIN filters /\ at \in Nat
      /\ UNCHANGED <<rows, pageSize, filters, phase, order, sent, ever, always>>
      /\ phase = "query" /\ at' = at + 1
  BY <1>1 DEF QueryNext, QueryTypes
<1>3. \A i \in DOMAIN filters : cur'[i] = cur[i] => (Open(i)' <=> Open(i))
  BY <1>2 DEF Open
<1>4. ASSUME NEW i \in DOMAIN filters, cur'[i] = cur[i], NEW T, FilterInv(i, T)
      PROVE  FilterInv(i, T)'
  BY <1>2, <1>3, <1>4, FilterKeeps
<1>5. CASE cur[k].exhausted
  <2>1. UNCHANGED <<cur, page>>
    BY <1>1, <1>5 DEF QueryNext
  <2>2. TookInv'
    BY <1>2, <1>4, <2>1, TookKept
  <2> QED BY <1>2, <2>1, <2>2 DEF QueryTypes, Settles
<1>6. CASE ~cur[k].exhausted
  <2>1. PICK evs : evs = QueryEvents(<<PageFilter(k)>>, rows)
    OBVIOUS
  <2>2. PICK R : R = Range(evs)
    OBVIOUS
  <2>3. cur' = [cur EXCEPT ![k] = Advanced(cur[k], evs)] /\ page' = page \cup R
    BY <1>1, <1>6, <2>1, <2>2 DEF QueryNext
  <2>4. /\ cur \in [DOMAIN filters -> Cursors] /\ rows \subseteq Events /\ pageSize \in Int
        /\ cur'[k] = Advanced(cur[k], evs)
        /\ \A i \in DOMAIN filters \ {k} : cur'[i] = cur[i]
    BY <1>2, <2>3 DEF QueryTypes
  <2>5. ASSUME NEW T, T \subseteq Events, FilterInv(k, T) PROVE FilterInv(k, T \cup R)'
    <3>1. CASE pageSize > 0
      BY <1>2, <1>6, <2>1, <2>2, <2>4, <2>5, <3>1, PageTakes
    <3>2. CASE pageSize <= 0
      BY <1>2, <1>6, <2>1, <2>2, <2>4, <2>5, <3>2, AllTaken
    <3> QED BY <3>1, <3>2, <2>4
  <2>6. ~HasSearch(filters[k]) /\ IsFilter(filters[k]) /\ cur[k] \in Cursors
    BY <1>2, <1>6, <2>4 DEF Settles, QueryTypes
  <2>7. evs \in Seq(Events) /\ R \subseteq rows /\ (evs # <<>> => Last(evs) \in Events)
    <3> DEFINE g == PageFilter(k)
    <3>1. /\ SameConditions(filters[k], g) /\ ~HasSearch(g)
          /\ g.limit \in Int \cup {Absent} /\ g.cursor \in Events \cup {Absent}
      BY <2>4, <2>6 DEF PageFilter, SameConditions, HasSearch, IsFilter, Lim, Cursors
    <3> HIDE DEF g
    <3>2. IsPage(filters[k], g, rows, evs)
      BY <2>1, <2>4, <2>6, <3>1, PageOfFilter DEF g
    <3> QED BY <2>2, <2>4, <3>2 DEF IsPage
  <2>8. Advanced(cur[k], evs) \in Cursors
    <3>1. pageSize > 0 => Len(evs) \in Nat /\ (cur[k].remaining > 0 => Len(evs) <= cur[k].remaining)
      <4> SUFFICES ASSUME pageSize > 0
                   PROVE  Len(evs) \in Nat /\ (cur[k].remaining > 0 => Len(evs) <= cur[k].remaining)
        OBVIOUS
      <4> DEFINE g == PageFilter(k)
      <4>1. /\ SameConditions(filters[k], g) /\ ~HasSearch(g) /\ g.limit = Lim(cur[k])
            /\ g.cursor \in Events \cup {Absent}
        BY <2>4, <2>6 DEF PageFilter, SameConditions, HasSearch, IsFilter, Cursors
      <4>2. /\ Lim(cur[k]) \in Nat \ {0} /\ cur[k].remaining \in Nat
            /\ cur[k].remaining > 0 => Lim(cur[k]) <= cur[k].remaining
        BY <2>4, <2>6 DEF Lim, Cursors
      <4> HIDE DEF g
      <4>3. IsPage(filters[k], g, rows, evs)
        BY <2>1, <2>4, <2>6, <4>1, <4>2, PageOfFilter DEF g
      <4>4. ~Unlimited(g)
        BY <4>1, <4>2, FilterAssumption DEF Unlimited
      <4>5. Len(evs) \in Nat /\ Len(evs) <= Lim(cur[k])
        BY <2>7, <4>1, <4>3, <4>4 DEF IsPage
      <4> QED BY <4>2, <4>5
    <3>2. CASE pageSize <= 0
      BY <2>6, <3>2 DEF Advanced, Cursors
    <3>3. CASE ~(pageSize <= 0)
      <4> DEFINE c == cur[k]
                 rest == IF c.remaining > 0 THEN c.remaining - Len(evs) ELSE c.remaining
                 next == IF evs = <<>> THEN c.cursor ELSE Last(evs)
                 ends == (c.remaining > 0 /\ rest <= 0) \/ Len(evs) < Lim(c)
      <4>1. rest \in Nat /\ next \in Events \cup {Absent} /\ ends \in BOOLEAN
        BY <2>4, <2>6, <2>7, <3>1, <3>3 DEF Cursors
      <4>2. Advanced(c, evs) = [cursor |-> next, remaining |-> rest, exhausted |-> ends]
        BY <3>3 DEF Advanced
      <4> HIDE DEF rest, next, ends
      <4> QED BY <4>1, <4>2 DEF Cursors
    <3> QED BY <3>2, <3>3
  <2>9. TookInv'
    BY <1>2, <1>4, <2>3, <2>4, <2>5, <2>7, TookMore
  <2>10. QueryTypes'
    BY <1>2, <2>3, <2>4, <2>7, <2>8 DEF QueryTypes
  <2>11. Settles'
    BY <1>2, <2>4, <2>6 DEF Settles
  <2> QED BY <2>9, <2>10, <2>11
<1> QED BY <1>5, <1>6

\* The steps in which no filter takes anything.
LEMMA OthersTakeNothing ==
  ASSUME QueryInv,
         SearchDone \/ PageDone \/ QueryFails \/ \E e \in Events \ Ephemeral : SaveOther(e)
  PROVE  QueryInv'
<1> USE DEF QueryInv
<1>1. CASE SearchDone
  <2>1. \A i \in DOMAIN filters : Open(i)' <=> Open(i)
    BY <1>1 DEF SearchDone, QueryTypes, Open
  <2>2. ASSUME NEW i \in DOMAIN filters, NEW T, FilterInv(i, T) PROVE FilterInv(i, T)'
    BY <1>1, <2>1, <2>2, FilterKeeps DEF SearchDone
  <2>3. TookInv'
    BY <1>1, <2>2, TookKept DEF SearchDone
  <2> QED BY <1>1, <2>3 DEF SearchDone, QueryTypes, Settles
<1>2. CASE PageDone
  <2>1. \A i \in DOMAIN filters : Open(i)' <=> Open(i)
    BY <1>2 DEF PageDone, Open
  <2>2. ASSUME NEW i \in DOMAIN filters, NEW T, FilterInv(i, T) PROVE FilterInv(i, T)'
    BY <1>2, <2>1, <2>2, FilterKeeps DEF PageDone
  <2>3. /\ sent' \in Seq(Events) /\ IsInjective(sent')
        /\ Range(sent') = Range(sent) \cup page /\ page' = {} /\ order' = <<>>
    BY <1>2, MergeSends DEF PageDone, QueryTypes
  <2>4. TookInv'
    BY <1>2, <2>2, <2>3, TookKept DEF PageDone
  <2>5. QueryTypes'
    BY <1>2, <2>3 DEF PageDone, QueryTypes, Range
  <2>6. Settles'
    BY <1>2 DEF PageDone, Settles
  <2> QED BY <2>4, <2>5, <2>6
<1>3. CASE QueryFails
  <2>1. \A i \in DOMAIN filters : Open(i)' => Open(i)
    BY <1>3 DEF QueryFails, Open
  <2>2. ASSUME NEW i \in DOMAIN filters, NEW T, FilterInv(i, T) PROVE FilterInv(i, T)'
    BY <1>3, <2>1, <2>2, FilterKeeps DEF QueryFails
  <2>3. TookInv'
    BY <1>3, <2>2, TookKept DEF QueryFails
  <2> QED BY <1>3, <2>3 DEF QueryFails, QueryTypes, Settles
<1>4. CASE \E e \in Events \ Ephemeral : SaveOther(e)
  <2> PICK e \in Events \ Ephemeral : SaveOther(e)
    BY <1>4
  <2>1. \A i \in DOMAIN filters : Open(i)' <=> Open(i)
    BY DEF SaveOther, Open
  <2>2. ASSUME NEW i \in DOMAIN filters, NEW T, FilterInv(i, T) PROVE FilterInv(i, T)'
    BY <2>1, <2>2, FilterKeeps DEF SaveOther
  <2>3. TookInv'
    BY <2>2, TookKept DEF SaveOther
  <2>4. QueryTypes'
    BY DEF SaveOther, QueryTypes, Older
  <2>5. Settles'
    BY DEF SaveOther, Settles
  <2> QED BY <2>3, <2>4, <2>5
<1> QED BY <1>1, <1>2, <1>3, <1>4

\* Every step of a query, and every save beside it, keeps the invariant.
LEMMA QueryKeeps == QueryInv /\ [QueryStep]_queryVars => QueryInv'
<1> SUFFICES ASSUME QueryInv, [QueryStep]_queryVars PROVE QueryInv'
  OBVIOUS
<1>1. CASE UNCHANGED queryVars
  <2>1. ASSUME NEW i \in DOMAIN filters, NEW T, FilterInv(i, T) PROVE FilterInv(i, T)'
    BY <1>1, <2>1 DEF queryVars, FilterInv, Open, Resumes, Ahead
  <2>2. TookInv'
    BY <1>1, <2>1, TookKept DEF QueryInv, queryVars
  <2> QED BY <1>1, <2>2 DEF QueryInv, queryVars, QueryTypes, Settles
<1> QED BY <1>1, SearchTakes, QueryTakes, OthersTakeNothing DEF QueryStep

\* A snapshot sends no event twice and none that does not belong there, keeps
\* within every limit, and leaves out nothing it owes, whatever other handlers
\* store or replace between its pages (req_query.go).
THEOREM SnapshotIsExact == QuerySpec => []SnapshotExact
BY QueryStarts, QueryKeeps, ExactFromInv, PTL DEF QuerySpec

----------------------------------------------------------------------------
(* What a filter means. *)

\* A value that is not missing is in the event_tags rows exactly when it is the
\* first value of a tag.
LEMMA TagRowsMatch ==
  ASSUME NEW e \in Events, NEW name, NEW vals, Missing \notin vals
  PROVE  (\E v \in vals : <<name, v>> \in TagRows(e)) <=> EventTagMatches(e, name, vals)
<1>1. \A i \in DOMAIN TagsOf[e] : Len(TagsOf[e][i]) \in Nat /\ TagsOf[e][i] \in Range(TagsOf[e])
  <2> TAKE i \in DOMAIN TagsOf[e]
  <2>1. TagsOf[e][i] \in Range(TagsOf[e])
    BY DEF Range
  <2>2. TagsOf[e][i] \in Seq(Range(TagsOf[e][i]))
    BY <2>1, FilterAssumption
  <2> QED BY <2>1, <2>2
<1>2. ASSUME NEW v \in vals, <<name, v>> \in TagRows(e)
      PROVE  EventTagMatches(e, name, vals)
  <2>1. PICK t \in Range(TagsOf[e]) :
          <<name, v>> = <<IF Len(t) > 0 THEN t[1] ELSE Missing, IF Len(t) > 1 THEN t[2] ELSE Missing>>
    BY <1>2 DEF TagRows
  <2>2. PICK i \in DOMAIN TagsOf[e] : t = TagsOf[e][i]
    BY DEF Range
  <2>3. /\ name = IF Len(t) > 0 THEN t[1] ELSE Missing
        /\ v = IF Len(t) > 1 THEN t[2] ELSE Missing
    BY <2>1
  <2>4. Len(t) >= 2 /\ t[1] = name /\ t[2] \in vals
    <3>1. Len(t) \in Nat
      BY <2>2, <1>1
    <3>2. Len(t) > 1
      BY <2>3
    <3> QED BY <2>3, <3>1, <3>2
  <2> QED BY <2>2, <2>4 DEF EventTagMatches
<1>3. ASSUME EventTagMatches(e, name, vals)
      PROVE  \E v \in vals : <<name, v>> \in TagRows(e)
  <2>1. PICK i \in DOMAIN TagsOf[e] :
          LET t == TagsOf[e][i] IN Len(t) >= 2 /\ t[1] = name /\ t[2] \in vals
    BY <1>3 DEF EventTagMatches
  <2> DEFINE t == TagsOf[e][i]
  <2>2. t \in Range(TagsOf[e]) /\ Len(t) > 0 /\ Len(t) > 1
    <3>1. t \in Range(TagsOf[e]) /\ Len(t) \in Nat /\ Len(t) >= 2
      BY <1>1, <2>1
    <3> HIDE DEF t
    <3> QED BY <3>1
  <2>3. <<name, t[2]>> = <<IF Len(t) > 0 THEN t[1] ELSE Missing, IF Len(t) > 1 THEN t[2] ELSE Missing>>
    BY <2>1, <2>2
  <2> HIDE DEF t
  <2>4. <<name, t[2]>> \in TagRows(e)
    BY <2>2, <2>3 DEF TagRows
  <2> QED BY <2>1, <2>4 DEF t
<1> QED BY <1>2, <1>3

\* The WHERE clauses select what Filter.Matches lets through.
LEMMA SelectsMatches ==
  ASSUME NEW f, IsFilter(f), ~HasSearch(f), ~WantsBareTag(f), NEW S, S \subseteq Events
  PROVE  ApplyFilterQuery(f, S) = {e \in S : Matches(f, e)}
<1>1. f.cursor = Absent
  BY DEF IsFilter
<1>2. \A e \in S : \A name \in DOMAIN f.tag :
        (\E v \in f.tag[name] : <<name, v>> \in TagRows(e)) <=> EventTagMatches(e, name, f.tag[name])
  <2> TAKE e \in S
  <2> TAKE name \in DOMAIN f.tag
  <2>1. Missing \notin f.tag[name] /\ e \in Events
    BY DEF WantsBareTag
  <2> QED BY <2>1, TagRowsMatch
<1> QED BY <1>1, <1>2 DEF ApplyFilterQuery, Matches

\* The filters of one request, in a store.
LEMMA RequestAnswers ==
  ASSUME NEW fs \in Requests, \A i \in DOMAIN fs : ~WantsBareTag(fs[i]),
         NEW S, S \subseteq Events
  PROVE  LET live == {e \in S : \E i \in DOMAIN fs : Matches(fs[i], e)}
         IN  /\ CountEvents(fs, S) = Cardinality(live)
             /\ UNION {Range(QueryEventSyncItems(fs[i], S)) : i \in DOMAIN fs} = live
<1> DEFINE live == {e \in S : \E i \in DOMAIN fs : Matches(fs[i], e)}
           mine(i) == {e \in S : Matches(fs[i], e)}
<1>1. fs # <<>> /\ \A i \in DOMAIN fs : IsFilter(fs[i])
  BY QueryAssumption DEF Range
<1>2. ASSUME NEW i \in DOMAIN fs PROVE CountFilterSubQuery(fs[i], S) = mine(i)
  <2>1. CASE HasSearch(fs[i])
    BY <2>1 DEF CountFilterSubQuery, Matches
  <2>2. CASE ~HasSearch(fs[i])
    <3>1. [fs[i] EXCEPT !.cursor = Absent] = fs[i]
      BY <1>1 DEF IsFilter
    <3> QED BY <2>2, <3>1, <1>1, SelectsMatches DEF CountFilterSubQuery
  <2> QED BY <2>1, <2>2
<1>3. ASSUME NEW i \in DOMAIN fs PROVE Range(QueryEventSyncItems(fs[i], S)) = mine(i)
  <2>1. CASE HasSearch(fs[i])
    BY <2>1 DEF QueryEventSyncItems, Matches, Range
  <2>2. CASE ~HasSearch(fs[i])
    <3> DEFINE M == ApplyFilterQuery(fs[i], S)
               items == SortedBy(M, LAMBDA e, g : \/ CreatedAt[e] < CreatedAt[g]
                                                  \/ CreatedAt[e] = CreatedAt[g] /\ IdRank[e] < IdRank[g])
    <3>1. QueryEventSyncItems(fs[i], S) = items
      BY <2>2 DEF QueryEventSyncItems
    <3>2. M = mine(i)
      BY <1>1, <2>2, SelectsMatches
    <3>3. M \subseteq Events /\ IsFiniteSet(M)
      BY <3>2, FilterAssumption, FS_Subset
    <3> HIDE DEF M
    <3>4. Lists(items, M)
      BY <3>3, OldestFirst
    <3> HIDE DEF items
    <3> QED BY <3>1, <3>2, <3>4, ListRange
  <2> QED BY <2>1, <2>2
<1>4. UNION {mine(i) : i \in DOMAIN fs} = live
  OBVIOUS
<1>5. {CountFilterSubQuery(fs[i], S) : i \in DOMAIN fs} = {mine(i) : i \in DOMAIN fs}
  BY <1>2
<1>6. {Range(QueryEventSyncItems(fs[i], S)) : i \in DOMAIN fs} = {mine(i) : i \in DOMAIN fs}
  BY <1>3
<1> HIDE DEF live, mine
<1>7. CountEvents(fs, S) = Cardinality(live)
  BY <1>1, <1>4, <1>5 DEF CountEvents
<1>8. UNION {Range(QueryEventSyncItems(fs[i], S)) : i \in DOMAIN fs} = live
  BY <1>4, <1>6
<1> QED BY <1>7, <1>8 DEF live

\* Live matching, counting and NIP-77 reconciliation agree on every request
\* without a bare tag, in every state of the store (nostr/filter.go,
\* sqlevent.go, count_filter.go).
THEOREM FiltersAgree == QuerySpec => []AnswersAgree
<1>1. QueryInv => AnswersAgree
  BY RequestAnswers DEF QueryInv, QueryTypes, AnswersAgree
<1> QED BY <1>1, QueryStarts, QueryKeeps, PTL DEF QuerySpec

----------------------------------------------------------------------------
(* Browsing: the order of a listing, and its pages. *)

\* The smallest member of a set of numbers.
LEMMA MinIsLeast ==
  ASSUME NEW S, S \subseteq Nat, S # {}
  PROVE  Min(S) \in S /\ \A n \in S : Min(S) <= n
<1>1. \E n \in S : \A m \in S : n <= m
  BY LeastNumber
<1> QED BY <1>1 DEF Min

\* Every product has a time of its last change.
LEMMA UpdatedIsNumber == \A p \in Products : UpdatedAt(p) \in Int
<1> DEFINE Times == {"updated_at", "updatedAt", "published_at", "publishedAt"}
<1>1. ASSUME NEW names \in Seq(Times), NEW doc, \A n \in Times : doc[n] \in Int \cup {NoValue}
      PROVE  FirstOf(names, doc) \in Int \cup {NoValue}
  <2> DEFINE k == {i \in DOMAIN names : doc[names[i]] # NoValue}
  <2>1. CASE k = {}
    BY <2>1 DEF FirstOf
  <2>2. CASE k # {}
    <3>1. k \subseteq Nat /\ k \subseteq DOMAIN names
      OBVIOUS
    <3>2. Min(k) \in k
      BY <2>2, <3>1, MinIsLeast
    <3>3. names[Min(k)] \in Times
      BY <3>1, <3>2
    <3>4. FirstOf(names, doc) = doc[names[Min(k)]]
      BY <2>2 DEF FirstOf
    <3> QED BY <1>1, <3>3, <3>4
  <2> QED BY <2>1, <2>2
<1>2. ASSUME NEW p \in Products, NEW doc \in {Tags[p], Json[p]}, NEW n \in Times
      PROVE  doc[n] \in Int \cup {NoValue}
  BY <1>2, SearchAssumption
<1> SUFFICES ASSUME NEW p \in Products PROVE UpdatedAt(p) \in Int
  OBVIOUS
<1>3. /\ <<"updated_at", "updatedAt", "published_at", "publishedAt">> \in Seq(Times)
      /\ <<"updatedAt", "updated_at", "publishedAt", "published_at">> \in Seq(Times)
  OBVIOUS
<1> DEFINE t == FirstOf(<<"updated_at", "updatedAt", "published_at", "publishedAt">>, Tags[p])
           j == FirstOf(<<"updatedAt", "updated_at", "publishedAt", "published_at">>, Json[p])
<1>4. t \in Int \cup {NoValue} /\ j \in Int \cup {NoValue}
  BY <1>1, <1>2, <1>3
<1>5. CreatedAt[p] \in Int
  BY SearchAssumption, EventAssumption
<1>6. UpdatedAt(p) = IF t # NoValue THEN t ELSE IF j # NoValue THEN j ELSE CreatedAt[p]
  BY DEF UpdatedAt
<1> HIDE DEF t, j
<1> QED BY <1>4, <1>5, <1>6

\* compareProducts is a strict total order, whatever the sort of the plan.
LEMMA BeforeOrders ==
  ASSUME NEW sort
  PROVE  /\ \A p \in Products : ~Before(p, p, sort)
         /\ \A p, r, s \in Products : Before(p, r, sort) /\ Before(r, s, sort) => Before(p, s, sort)
         /\ \A p, r \in Products : p = r \/ Before(p, r, sort) \/ Before(r, p, sort)
<1>1. /\ \A p \in Products : CreatedAt[p] \in Int /\ IdRank[p] \in Int /\ UpdatedAt(p) \in Int
      /\ \A p, r \in Products : IdRank[p] = IdRank[r] => p = r
  BY UpdatedIsNumber, EventAssumption, SearchAssumption
<1>2. /\ \A p \in Products : ~ByRecency(p, p)
      /\ \A p, r, s \in Products : ByRecency(p, r) /\ ByRecency(r, s) => ByRecency(p, s)
      /\ \A p, r \in Products : p = r \/ ByRecency(p, r) \/ ByRecency(r, p)
  BY <1>1 DEF ByRecency, Descending
<1>3. \A p \in Products : PriceOf(p).has \in BOOLEAN /\ (PriceOf(p).has => PriceOf(p).price \in Int)
  <2> TAKE p \in Products
  <2>1. Tags[p].price \in Int \cup {NoValue} /\ Json[p].price \in Int \cup {NoValue}
    BY SearchAssumption
  <2> QED BY <2>1 DEF PriceOf
<1>4. CASE sort = "newest"
  <2>1. \A p, r : Before(p, r, sort) <=>
          CreatedAt[p] > CreatedAt[r] \/ (CreatedAt[p] = CreatedAt[r] /\ ByRecency(p, r))
    BY <1>4 DEF Before, Descending
  <2> QED BY <2>1, <1>1, <1>2
<1>5. CASE sort = "updated_at_desc"
  <2>1. \A p, r : Before(p, r, sort) <=> ByRecency(p, r)
    BY <1>5 DEF Before
  <2> QED BY <2>1, <1>2
<1>6. CASE sort \notin {"newest", "updated_at_desc"}
  <2> DEFINE has(p) == PriceOf(p).has
             price(p) == PriceOf(p).price
  <2>1. \A p, r \in Products : Before(p, r, sort) <=>
          \/ has(p) /\ ~has(r)
          \/ ~has(p) /\ ~has(r) /\ ByRecency(p, r)
          \/ has(p) /\ has(r) /\ price(p) = price(r) /\ ByRecency(p, r)
          \/ has(p) /\ has(r) /\ IF sort = "price_asc" THEN price(p) < price(r)
                                 ELSE price(p) > price(r)
    BY <1>3, <1>6 DEF Before
  <2> HIDE DEF has, price
  <2>2. \A p \in Products : has(p) => price(p) \in Int
    BY <1>3 DEF has, price
  <2>3. CASE sort = "price_asc"
    BY <2>1, <2>2, <2>3, <1>2
  <2>4. CASE sort # "price_asc"
    BY <2>1, <2>2, <2>4, <1>2
  <2> QED BY <2>3, <2>4
<1> QED BY <1>4, <1>5, <1>6

\* A listing in the order of its plan.
LEMMA ListingSorted ==
  ASSUME NEW sort, NEW S, S \subseteq Products, IsFiniteSet(S)
  PROVE  LET s == SortedBy(S, LAMBDA p, r : Before(p, r, sort))
         IN  Lists(s, S) /\ \A i, j \in 1 .. Cardinality(S) : i < j => Before(s[i], s[j], sort)
<1> DEFINE s == SortedBy(S, LAMBDA p, r : Before(p, r, sort))
           before == [x \in S |-> {y \in S : Before(y, x, sort)}]
<1>1. before \in [S -> SUBSET S]
  OBVIOUS
<1>2. /\ \A x \in S : x \notin before[x]
      /\ \A x, y \in S : y \in before[x] => before[y] \subseteq before[x]
      /\ \A x, y \in S : x = y \/ x \in before[y] \/ y \in before[x]
  <2>1. \A x \in S : x \in Products
    OBVIOUS
  <2> QED BY <2>1, BeforeOrders
<1>3. s = Enumerated(S, before)
  BY DEF SortedBy
<1>4. \A x, y : x \in S /\ y \in before[x] => Before(y, x, sort)
  OBVIOUS
<1> HIDE DEF before
<1>5. /\ Lists(Enumerated(S, before), S)
      /\ \A i, j \in 1 .. Cardinality(S) :
           i < j => Enumerated(S, before)[i] \in before[Enumerated(S, before)[j]]
  BY <1>1, <1>2, EnumeratedLists
<1>6. \A i \in 1 .. Cardinality(S) : Enumerated(S, before)[i] \in S
  BY <1>5 DEF Lists
<1> QED BY <1>3, <1>4, <1>5, <1>6

\* A page is never larger than its room, and its room never nothing.
LEMMA PageHasRoom == \A pl \in Plans : PageLimit(pl) \in Nat \ {0}
BY ProductAssumption, SearchAssumption DEF PageLimit

\* r is listed up to the cursor.
UpTo(r, c, sort) == r = c \/ Before(r, c, sort)

\* A page after a cursor: what is neither on it nor up to the cursor comes
\* later, and an empty page leaves nothing.
LEMMA PageCovers ==
  ASSUME NEW pl \in Plans, NEW shown, shown \subseteq Products, NEW c
  PROVE  LET P == PageAfter(shown, pl, c)
             L == Results(shown, pl)
         IN  /\ ToSet(P) \subseteq L /\ L \subseteq shown
             /\ P # <<>> => Last(P) \in ToSet(P)
             /\ \A r \in L \ ToSet(P) :
                  \/ c \in L /\ UpTo(r, c, pl.sort)
                  \/ P # <<>> /\ Before(Last(P), r, pl.sort)
<1> DEFINE P == PageAfter(shown, pl, c)
           L == Results(shown, pl)
           list == SortedBy(L, LAMBDA p, r : Before(p, r, pl.sort))
           from == FindCursorStart(list, c)
           room == PageLimit(pl)
           to == Min({Len(list), from + room})
<1>1. L \subseteq shown /\ L \subseteq Products
  BY DEF Results, Matching, Cohort
<1>2. IsFiniteSet(L)
  BY <1>1, SearchAssumption, ProductAssumption, FS_Subset
<1> HIDE DEF L
<1>3. Lists(list, L) /\ \A i, j \in 1 .. Cardinality(L) : i < j => Before(list[i], list[j], pl.sort)
  BY <1>1, <1>2, ListingSorted
<1>4. P = SubSeq(list, from + 1, to)
  BY DEF PageAfter, L
<1> HIDE DEF list
<1>5. /\ list \in Seq(L) /\ DOMAIN list = 1 .. Len(list) /\ Len(list) \in Nat
      /\ Len(list) = Cardinality(L)
  BY <1>3, ListRange DEF Lists
<1>6. /\ from \in 0 .. Len(list)
      /\ from > 0 => list[from] = c
      /\ \A i \in 1 .. Len(list) : list[i] = c => from > 0
  <2> DEFINE at0 == {i \in DOMAIN list : list[i] = c}
  <2>1. from = IF at0 = {} THEN 0 ELSE Min(at0)
    BY DEF FindCursorStart
  <2>2. at0 \subseteq Nat /\ at0 \subseteq 1 .. Len(list)
    BY <1>5
  <2>3. at0 # {} => Min(at0) \in at0
    BY <2>2, MinIsLeast
  <2>4. \A i \in 1 .. Len(list) : list[i] = c => at0 # {}
    BY <1>5
  <2>5. \A i \in at0 : list[i] = c
    OBVIOUS
  <2> HIDE DEF from, at0
  <2>6. CASE at0 = {}
    BY <2>1, <2>4, <2>6, <1>5
  <2>7. CASE at0 # {}
    <3>1. from \in at0
      BY <2>1, <2>3, <2>7
    <3>2. from \in 1 .. Len(list) /\ list[from] = c
      BY <2>2, <2>5, <3>1
    <3> QED BY <3>2, <1>5
  <2> QED BY <2>6, <2>7
<1>7. room \in Nat \ {0}
  BY PageHasRoom
<1> HIDE DEF from, room
<1>8. to \in Nat /\ from <= to /\ to <= Len(list) /\ (from < Len(list) => from < to)
  <2>1. {Len(list), from + room} \subseteq Nat
    BY <1>5, <1>6, <1>7
  <2>2. to \in {Len(list), from + room} /\ \A n \in {Len(list), from + room} : to <= n
    BY <2>1, MinIsLeast
  <2> HIDE DEF to
  <2> QED BY <2>2, <1>5, <1>6, <1>7
<1> HIDE DEF to, P
<1>9. /\ P \in Seq(L) /\ Len(P) = to - from
      /\ \A i \in 1 .. Len(P) : P[i] = list[from + i]
  BY <1>4, <1>5, <1>6, <1>8
<1>10. DOMAIN P = 1 .. Len(P) /\ Len(P) \in Nat
  BY <1>9
<1>11. ToSet(P) \subseteq L
  BY <1>9, <1>10 DEF ToSet
<1>12. P # <<>> => Len(P) \in 1 .. Len(P) /\ Last(P) = list[to] /\ Last(P) \in ToSet(P)
  BY <1>6, <1>8, <1>9, <1>10 DEF ToSet, Last
<1>13. ASSUME NEW r \in L \ ToSet(P)
       PROVE  \/ c \in L /\ UpTo(r, c, pl.sort)
              \/ P # <<>> /\ Before(Last(P), r, pl.sort)
  <2>1. PICK j \in 1 .. Len(list) : list[j] = r
    BY <1>3 DEF Lists
  <2>2. ~(from < j /\ j <= to)
    <3> SUFFICES ASSUME from < j, j <= to PROVE FALSE
      OBVIOUS
    <3>1. j - from \in 1 .. Len(P) /\ from + (j - from) = j
      BY <1>6, <1>8, <1>9
    <3>2. P[j - from] = r
      BY <3>1, <2>1, <1>9
    <3> QED BY <3>1, <3>2, <1>10, <1>13 DEF ToSet
  <2>3. CASE j <= from
    <3>1. from \in 1 .. Len(list) /\ list[from] = c /\ c \in L
      BY <2>3, <1>5, <1>6
    <3>2. j = from \/ Before(list[j], list[from], pl.sort)
      BY <2>3, <3>1, <1>3, <1>5
    <3> QED BY <2>1, <3>1, <3>2 DEF UpTo
  <2>4. CASE to < j
    <3>1. P # <<>> /\ to \in 1 .. Len(list)
      BY <2>4, <1>5, <1>6, <1>8, <1>9
    <3>2. Before(list[to], list[j], pl.sort)
      BY <2>4, <3>1, <1>3, <1>5
    <3> QED BY <2>1, <3>1, <3>2, <1>12
  <2> QED BY <2>2, <2>3, <2>4, <1>6, <1>8
<1> QED BY <1>1, <1>11, <1>12, <1>13 DEF P, L

----------------------------------------------------------------------------
(* The seed: what replaying a list of events leaves. *)

\* g holds the projections after the first 0, 1, .. m events of a list.
IsReplay(g, list, m) ==
  g = [n \in 0 .. m |-> IF n = 0 THEN [a \in Addresses |-> Unknown]
                        ELSE ApplyEvent(list[n], g[n - 1])]

\* There is one: a shortest list without would have a shorter one.
LEMMA ReplayExists == \A list : \A m \in Nat : \E g : IsReplay(g, list, m)
<1> TAKE list
<1> DEFINE Bad == {m \in Nat : ~\E g : IsReplay(g, list, m)}
           start == [a \in Addresses |-> Unknown]
<1>1. SUFFICES ASSUME Bad # {} PROVE FALSE
  OBVIOUS
<1>2. PICK m \in Bad : \A k \in Bad : m <= k
  BY <1>1, LeastNumber
<1>3. CASE m = 0
  <2> DEFINE g == [n \in 0 .. 0 |-> start]
  <2>1. g = [n \in 0 .. 0 |-> IF n = 0 THEN start ELSE ApplyEvent(list[n], g[n - 1])]
    OBVIOUS
  <2>2. IsReplay(g, list, 0)
    BY <2>1 DEF IsReplay
  <2> QED BY <2>2, <1>2, <1>3
<1>4. CASE m # 0
  <2>1. m \in Nat /\ m - 1 \in Nat /\ m - 1 \notin Bad
    BY <1>2, <1>4
  <2>2. PICK g : IsReplay(g, list, m - 1)
    BY <2>1
  <2>3. \A n \in 0 .. m - 1 : g[n] = IF n = 0 THEN start ELSE ApplyEvent(list[n], g[n - 1])
    BY <2>2 DEF IsReplay
  <2> DEFINE f == [n \in 0 .. m |-> IF n = m THEN ApplyEvent(list[m], g[m - 1]) ELSE g[n]]
  <2>4. \A n \in 0 .. m : f[n] = IF n = 0 THEN start ELSE ApplyEvent(list[n], f[n - 1])
    <3> TAKE n \in 0 .. m
    <3>1. CASE n = m
      <4>1. f[n] = ApplyEvent(list[m], g[m - 1]) /\ f[m - 1] = g[m - 1]
        BY <3>1, <2>1
      <4> QED BY <3>1, <4>1, <2>1
    <3>2. CASE n = 0
      BY <3>2, <2>1, <2>3
    <3>3. CASE n # m /\ n # 0
      <4>1. n \in 0 .. m - 1 /\ n - 1 \in 0 .. m /\ n - 1 # m
        BY <3>3, <2>1
      <4>2. f[n] = g[n] /\ f[n - 1] = g[n - 1]
        BY <4>1, <3>3
      <4> HIDE DEF f
      <4> QED BY <3>3, <4>1, <4>2, <2>3
    <3> QED BY <3>1, <3>2, <3>3
  <2>5. f = [n \in 0 .. m |-> f[n]]
    OBVIOUS
  <2> HIDE DEF f
  <2>6. IsReplay(f, list, m)
    BY <2>4, <2>5 DEF IsReplay
  <2> QED BY <2>6, <1>2
<1> QED BY <1>3, <1>4

\* Replayed is a replay.
LEMMA ReplayedReplays ==
  ASSUME NEW list, Len(list) \in Nat
  PROVE  IsReplay(Replayed(list), list, Len(list))
<1>1. PICK g : IsReplay(g, list, Len(list))
  BY ReplayExists
<1>2. g = [n \in 0 .. Len(list) |-> IF n = 0 THEN [a \in Addresses |-> Unknown]
                                    ELSE ApplyEvent(list[n], g[n - 1])]
  BY <1>1 DEF IsReplay
<1> QED BY <1>2 DEF Replayed, IsReplay

\* Entries hold versions of their own address.
IsProjection(pr) ==
  /\ pr \in [Addresses -> [ev : Products \cup {NoEvent}, tomb : BOOLEAN]]
  /\ \A a \in Addresses : pr[a].ev # NoEvent => AddrOf[pr[a].ev] = a

\* A deletion among the events S names p.
NamedIn(p, S) ==
  \E d \in S \cap Deletions : \E k \in DOMAIN DeleteTags[d] :
    Buried(d, DeleteTags[d][k], [ev |-> p])

\* upsertProduct: a version enters when it is newer.
LEMMA UpsertEffect ==
  ASSUME NEW pr, IsProjection(pr), NEW p \in Products
  PROVE  LET q == UpsertProduct(p, pr)
             a == AddrOf[p]
         IN  /\ IsProjection(q) /\ a \in Addresses
             /\ \A b \in Addresses : b # a => q[b] = pr[b]
             /\ \/ q[a] = pr[a] /\ pr[a].ev # NoEvent /\ ~Newer(p, pr[a].ev)
                \/ /\ q[a].ev = p /\ ~q[a].tomb
                   /\ pr[a].ev = NoEvent \/ Newer(p, pr[a].ev)
<1>1. AddrOf[p] \in Addresses
  BY DEF Addresses
<1> QED BY <1>1 DEF UpsertProduct, IsProjection

\* applyDeleteEvent: entries it names become tombstones.
LEMMA DeleteEffect ==
  ASSUME NEW pr, IsProjection(pr), NEW d \in Deletions
  PROVE  LET q == ApplyDeleteEvent(d, pr)
         IN  /\ IsProjection(q)
             /\ \A a \in Addresses :
                  /\ q[a].ev = pr[a].ev /\ (pr[a].tomb => q[a].tomb)
                  /\ q[a].tomb => \/ pr[a].tomb
                                  \/ pr[a].ev # NoEvent /\ NamedIn(pr[a].ev, {d})
<1> DEFINE q == ApplyDeleteEvent(d, pr)
           hit(a) == \E k \in DOMAIN DeleteTags[d] : Buried(d, DeleteTags[d][k], pr[a])
<1>1. \A a \in Addresses : q[a] = IF hit(a) THEN [pr[a] EXCEPT !.tomb = TRUE] ELSE pr[a]
  BY DEF ApplyDeleteEvent
<1>2. q = [a \in Addresses |-> q[a]]
  BY DEF ApplyDeleteEvent
<1>3. \A a \in Addresses : hit(a) => pr[a].ev # NoEvent /\ NamedIn(pr[a].ev, {d})
  BY DEF Buried, NamedIn
<1> HIDE DEF q, hit
<1>4. \A a \in Addresses :
        /\ q[a] \in [ev : Products \cup {NoEvent}, tomb : BOOLEAN]
        /\ q[a].ev = pr[a].ev /\ (pr[a].tomb => q[a].tomb)
        /\ q[a].tomb => pr[a].tomb \/ hit(a)
  BY <1>1 DEF IsProjection
<1>5. IsProjection(q)
  BY <1>2, <1>4 DEF IsProjection
<1> QED BY <1>3, <1>4, <1>5 DEF q

\* applyDeletedEvent: the version the store dropped becomes a tombstone.
LEMMA ForgetEffect ==
  ASSUME NEW pr, IsProjection(pr), NEW p \in Products
  PROVE  LET q == ApplyDeletedEvent(p, pr)
         IN  /\ IsProjection(q)
             /\ \A a \in Addresses :
                  /\ q[a].ev = pr[a].ev /\ (pr[a].tomb => q[a].tomb)
                  /\ q[a].tomb <=> pr[a].tomb \/ pr[a].ev = p
<1>1. AddrOf[p] \in Addresses /\ p # NoEvent
  BY ProductAssumption DEF Addresses
<1> QED BY <1>1 DEF ApplyDeletedEvent, IsProjection

\* compareSeedEvents lists every event it is given.
LEMMA SeedLists ==
  ASSUME NEW S, S \subseteq Events
  PROVE  Lists(SortedBy(S, SeedBefore), S)
<1> DEFINE before == [x \in S |-> {y \in S : SeedBefore(y, x)}]
<1>1. before \in [S -> SUBSET S] /\ IsFiniteSet(S)
  BY ProductAssumption, FS_Subset
<1>2. /\ \A x \in S : ~SeedBefore(x, x)
      /\ \A x, y, z \in S : SeedBefore(x, y) /\ SeedBefore(y, z) => SeedBefore(x, z)
      /\ \A x, y \in S : x = y \/ SeedBefore(x, y) \/ SeedBefore(y, x)
  <2>1. \A x \in S : /\ CreatedAt[x] \in Int /\ IdRank[x] \in Int
                     /\ x \in Deletions <=> x \notin Products
    BY EventAssumption, ProductAssumption
  <2>2. \A x, y \in S : IdRank[x] = IdRank[y] => x = y
    BY EventAssumption
  <2> QED BY <2>1, <2>2 DEF SeedBefore
<1>3. /\ \A x \in S : x \notin before[x]
      /\ \A x, y \in S : y \in before[x] => before[y] \subseteq before[x]
      /\ \A x, y \in S : x = y \/ x \in before[y] \/ y \in before[x]
  BY <1>2
<1>4. SortedBy(S, SeedBefore) = Enumerated(S, before)
  BY DEF SortedBy
<1> HIDE DEF before
<1> QED BY <1>1, <1>3, <1>4, EnumeratedLists

\* A seed knows every product it saw, when these are one version each, and
\* only them; its tombstones have their deletions.
LEMMA SeedEffect ==
  ASSUME NEW S, S \subseteq Events,
         \A p, q \in S : ~(SameAddress(p, q) /\ Newer(q, p))
  PROVE  LET pr == Seeded(S)
         IN  /\ IsProjection(pr)
             /\ \A a \in Addresses : pr[a].ev = NoEvent \/ pr[a].ev \in S
             /\ \A p \in S \cap Products : pr[AddrOf[p]].ev = p
             /\ \A a \in Addresses : pr[a].tomb => pr[a].ev # NoEvent /\ NamedIn(pr[a].ev, S)
<1> DEFINE list == SortedBy(S, SeedBefore)
           m == Len(list)
           after == Replayed(list)
           Good(n) ==
             /\ IsProjection(after[n])
             /\ \A a \in Addresses : after[n][a].ev = NoEvent \/ after[n][a].ev \in S
             /\ \A i \in 1 .. n : list[i] \in Products => after[n][AddrOf[list[i]]].ev = list[i]
             /\ \A a \in Addresses :
                  after[n][a].tomb => after[n][a].ev # NoEvent /\ NamedIn(after[n][a].ev, S)
           Bad == {n \in 0 .. m : ~Good(n)}
<1>1. Lists(list, S)
  BY SeedLists
<1>2. Seeded(S) = after[m]
  BY DEF Seeded
<1> HIDE DEF list
<1>3. m \in Nat /\ \A i \in 1 .. m : list[i] \in S /\ list[i] \in Events
  BY <1>1 DEF Lists
<1>4. /\ after[0] = [a \in Addresses |-> Unknown]
      /\ \A n \in 1 .. m : after[n] = ApplyEvent(list[n], after[n - 1])
  <2>1. IsReplay(after, list, m)
    BY <1>3, ReplayedReplays
  <2> HIDE DEF after, m
  <2>2. \A n \in 0 .. m : after[n] = IF n = 0 THEN [a \in Addresses |-> Unknown]
                                     ELSE ApplyEvent(list[n], after[n - 1])
    BY <2>1 DEF IsReplay
  <2> QED BY <2>2, <1>3
<1> HIDE DEF after, m
<1>5. Good(0)
  BY <1>4 DEF IsProjection, Unknown
<1>6. ASSUME NEW n \in 1 .. m, Good(n - 1) PROVE Good(n)
  <2> DEFINE e == list[n]
             pr == after[n - 1]
             q == after[n]
  <2>1. e \in S /\ e \in Events /\ q = ApplyEvent(e, pr) /\ n \in Nat /\ n - 1 \in Nat
    BY <1>3, <1>4
  <2>2. /\ IsProjection(pr)
        /\ \A a \in Addresses : pr[a].ev = NoEvent \/ pr[a].ev \in S
        /\ \A i \in 1 .. n - 1 : list[i] \in Products => pr[AddrOf[list[i]]].ev = list[i]
        /\ \A a \in Addresses : pr[a].tomb => pr[a].ev # NoEvent /\ NamedIn(pr[a].ev, S)
    BY <1>6
  <2>3. \A i \in 1 .. n : i \in 1 .. n - 1 \/ list[i] = e
    BY <2>1
  <2> HIDE DEF Good, q, pr, e
  <2>4. CASE e \in Products
    <3>1. q = UpsertProduct(e, pr)
      BY <2>1, <2>4 DEF ApplyEvent
    <3> DEFINE a == AddrOf[e]
    <3>2. /\ IsProjection(q) /\ a \in Addresses
          /\ \A b \in Addresses : b # a => q[b] = pr[b]
          /\ \/ q[a] = pr[a] /\ pr[a].ev # NoEvent /\ ~Newer(e, pr[a].ev)
             \/ q[a].ev = e /\ ~q[a].tomb
      BY <2>2, <2>4, <3>1, UpsertEffect
    <3>3. \A r \in S \cap Products : AddrOf[r] = a => r = e
      <4>1. \A r \in S \cap Products : AddrOf[r] = a => SameAddress(r, e) /\ SameAddress(e, r)
        BY <2>4, ProductAssumption DEF SameAddress
      <4>2. \A r \in S : r \in Events
        OBVIOUS
      <4> QED BY <2>1, <4>1, <4>2, NewerOrders
    <3>4. q[a].ev = e
      <4>1. CASE q[a] = pr[a] /\ pr[a].ev # NoEvent
        <5>1. pr[a].ev \in S \cap Products /\ AddrOf[pr[a].ev] = a
          BY <4>1, <2>2, <3>2 DEF IsProjection
        <5> QED BY <4>1, <5>1, <3>3
      <4> QED BY <4>1, <3>2
    <3>5. \A i \in 1 .. n : list[i] \in Products => q[AddrOf[list[i]]].ev = list[i]
      <4> SUFFICES ASSUME NEW i \in 1 .. n, list[i] \in Products
                   PROVE  q[AddrOf[list[i]]].ev = list[i]
        OBVIOUS
      <4>1. list[i] \in S /\ AddrOf[list[i]] \in Addresses
        BY <1>3 DEF Addresses
      <4>2. CASE AddrOf[list[i]] = a
        <5>1. list[i] = e
          BY <4>1, <4>2, <3>3
        <5> QED BY <5>1, <3>4
      <4>3. CASE AddrOf[list[i]] # a
        <5>1. list[i] # e
          BY <4>3
        <5>2. i \in 1 .. n - 1
          BY <5>1, <2>3
        <5>3. pr[AddrOf[list[i]]].ev = list[i]
          BY <5>2, <2>2
        <5> QED BY <4>1, <4>3, <5>3, <3>2
      <4> QED BY <4>2, <4>3
    <3>6. \A b \in Addresses : q[b].ev = NoEvent \/ q[b].ev \in S
      BY <2>1, <2>2, <3>2, <3>4
    <3>7. \A b \in Addresses : q[b].tomb => q[b].ev # NoEvent /\ NamedIn(q[b].ev, S)
      BY <2>2, <3>2
    <3> QED BY <3>2, <3>5, <3>6, <3>7 DEF Good, q
  <2>5. CASE e \notin Products
    <3>1. e \in Deletions /\ q = ApplyDeleteEvent(e, pr)
      BY <2>1, <2>5, ProductAssumption DEF ApplyEvent
    <3>2. /\ IsProjection(q)
          /\ \A a \in Addresses :
               /\ q[a].ev = pr[a].ev
               /\ q[a].tomb => pr[a].tomb \/ (pr[a].ev # NoEvent /\ NamedIn(pr[a].ev, {e}))
      BY <2>2, <3>1, DeleteEffect
    <3>3. \A p : NamedIn(p, {e}) => NamedIn(p, S)
      BY <2>1 DEF NamedIn
    <3>4. \A i \in 1 .. n : list[i] \in Products => q[AddrOf[list[i]]].ev = list[i]
      <4> SUFFICES ASSUME NEW i \in 1 .. n, list[i] \in Products
                   PROVE  q[AddrOf[list[i]]].ev = list[i]
        OBVIOUS
      <4>1. AddrOf[list[i]] \in Addresses /\ i \in 1 .. n - 1
        BY <2>3, <2>5 DEF Addresses
      <4> QED BY <4>1, <2>2, <3>2
    <3>5. \A a \in Addresses : q[a].ev = NoEvent \/ q[a].ev \in S
      BY <2>2, <3>2
    <3>6. \A a \in Addresses : q[a].tomb => q[a].ev # NoEvent /\ NamedIn(q[a].ev, S)
      BY <2>2, <3>2, <3>3
    <3> QED BY <3>2, <3>4, <3>5, <3>6 DEF Good, q
  <2> QED BY <2>4, <2>5
<1>7. Good(m)
  <2> HIDE DEF Good
  <2> SUFFICES ASSUME Bad # {} PROVE FALSE
    BY <1>3
  <2>6. Bad \subseteq Nat
    BY <1>3
  <2>1. PICK n \in Bad : \A k \in Bad : n <= k
    <3> HIDE DEF Bad
    <3> QED BY <2>6, LeastNumber
  <2>2. n # 0 /\ n \in 0 .. m
    BY <2>1, <1>5
  <2>3. n \in 1 .. m /\ n - 1 \in 0 .. m /\ ~(n <= n - 1)
    BY <2>2, <1>3
  <2>4. Good(n - 1)
    BY <2>1, <2>3
  <2>5. Good(n)
    BY <2>3, <2>4, <1>6
  <2> QED BY <2>1, <2>5
<1>8. \A p \in S \cap Products : after[m][AddrOf[p]].ev = p
  <2> TAKE p \in S \cap Products
  <2>1. PICK i \in 1 .. m : list[i] = p
    BY <1>1 DEF Lists, m
  <2> QED BY <2>1, <1>7
<1> QED BY <1>2, <1>7, <1>8

----------------------------------------------------------------------------
(* Browsing and the store.  A product is stored, then projected; what goes *)
(* wrong between the two steps is always on its way to be put right: the   *)
(* event that replaced or removed it is at a hook that has not run yet.    *)

Busy == {"save", "hook", "delete", "remove", "forget"}

WorkTypes ==
  /\ pc \in [Handlers -> Busy \cup {"idle"}]
  /\ ev \in [Handlers -> Events \cup {NoEvent}]
  /\ \A h \in Handlers : pc[h] # "idle" => ev[h] \in Events
  /\ todo = [h \in Handlers |-> todo[h]]
  /\ target \in [Handlers -> Products \cup {NoEvent}]

ProductTypes ==
  /\ WorkTypes /\ IsProjection(proj)
  /\ store \subseteq Events /\ removed \subseteq Products /\ cut \subseteq Events
  /\ plan \in Plans

AtHook(q) == \E h \in Handlers : pc[h] = "hook" /\ ev[h] = q

\* q is a newer version of p.
Replaces(q, p) == SameAddress(p, q) /\ Newer(q, p)

\* The store keeps one version of an address.
OneVersion == \A p, q \in store : ~Replaces(q, p)

\* What the projection holds or is about to be told was stored, or gave way.
KnownKept ==
  \A r \in Products :
    AtHook(r) \/ proj[AddrOf[r]].ev = r =>
      KeptIn(r, store) \/ r \in removed \/ \E q \in removed : Replaces(q, r)

\* What is stored is on its way to the projection, or has passed it.
StoredKnown ==
  \A p \in store \cap Products :
    \/ AtHook(p) \/ p \in cut
    \/ LET r == proj[AddrOf[p]].ev IN r # NoEvent /\ (r = p \/ Newer(r, p))

\* A tombstone has its deletion in the store.
TombNamed ==
  \A a \in Addresses : proj[a].tomb => proj[a].ev # NoEvent /\ NamedIn(proj[a].ev, store)

\* p is about to leave the projection.
Leaving(p) ==
  \/ \E h \in Handlers : pc[h] = "forget" /\ target[h] = p
  \/ \E q \in Products : AtHook(q) /\ Replaces(q, p)

ShownStored ==
  \A p \in ShownIn(proj) : p \in store \/ p \in raced \/ Superseded(p, cut) \/ Leaving(p)

\* A hook shows what is stored, or changes nothing, or is followed by another.
HooksSafe ==
  \A q \in Products : AtHook(q) =>
    \/ q \in store \/ q \in raced \/ Superseded(q, cut)
    \/ \E r \in Products : AtHook(r) /\ Replaces(r, q)
    \/ LET r == proj[AddrOf[q]].ev IN r # NoEvent /\ ~Newer(q, r)

\* A deletion that is carried out is stored, and names what it removes.
DeletionStored(h) ==
  /\ pc[h] = "hook" /\ ev[h] \in Deletions => ev[h] \in store
  /\ pc[h] \in {"delete", "remove", "forget"} =>
       ev[h] \in store \cap Deletions /\ todo[h] \in Seq(Range(DeleteTags[ev[h]]))
  /\ pc[h] \in {"remove", "forget"} =>
       /\ todo[h] # <<>> /\ target[h] \in Products
       /\ NamedIn(target[h], {ev[h]})

BrowseInv ==
  /\ OneVersion /\ KnownKept /\ StoredKnown /\ TombNamed /\ ShownStored /\ HooksSafe
  /\ \A h \in Handlers : DeletionStored(h)

\* The invariant makes browsing agree when nothing is under way.
LEMMA AgreesFromInv == ProductTypes /\ BrowseInv => BrowseAgrees
<1> SUFFICES ASSUME ProductTypes, BrowseInv, Quiet
             PROVE  /\ \A p \in ShownIn(proj) : p \in store \/ p \in raced \/ Superseded(p, cut)
                    /\ \A p \in store \cap Products :
                         \/ p \in ShownIn(proj) \/ Covered(p) \/ p \in cut
                         \/ Superseded(p, removed)
  BY DEF BrowseAgrees
<1>1. \A q : ~AtHook(q) /\ ~Leaving(q)
  BY DEF Quiet, AtHook, Leaving
<1>2. \A p \in ShownIn(proj) : p \in store \/ p \in raced \/ Superseded(p, cut)
  BY <1>1 DEF BrowseInv, ShownStored
<1>3. ASSUME NEW p \in store \cap Products, p \notin cut
      PROVE  p \in ShownIn(proj) \/ Covered(p) \/ Superseded(p, removed)
  <2> DEFINE a == AddrOf[p]
             r == proj[a].ev
  <2>1. a \in Addresses /\ a # Regular /\ r # NoEvent /\ (r = p \/ Newer(r, p))
    BY <1>1, <1>3, ProductAssumption DEF BrowseInv, StoredKnown, Addresses
  <2>2. r \in Products /\ AddrOf[r] = a
    BY <2>1 DEF ProductTypes, IsProjection
  <2>3. CASE r = p
    <3>1. proj[a].tomb => Covered(p)
      BY <2>1, <2>3 DEF BrowseInv, TombNamed, NamedIn, Covered
    <3>2. ~proj[a].tomb => p \in ShownIn(proj)
      BY <2>1, <2>3 DEF ShownIn
    <3> QED BY <3>1, <3>2
  <2>4. CASE Newer(r, p)
    <3>1. Replaces(r, p)
      BY <2>1, <2>2, <2>4 DEF Replaces, SameAddress
    <3>2. \A q \in Events : Replaces(q, r) => Replaces(q, p)
      BY <2>1, <2>2, <2>4, SearchAssumption, NewerOrders DEF Replaces, SameAddress
    <3>3. ~KeptIn(r, store)
      <4>1. \A q \in store : q \in Events /\ ~Replaces(q, p)
        BY DEF ProductTypes, BrowseInv, OneVersion
      <4>2. \A q : SameAddress(q, r) <=> SameAddress(r, q)
        BY DEF SameAddress
      <4> QED BY <3>1, <3>2, <4>1, <4>2 DEF KeptIn, Replaces
    <3>4. r \in removed \/ \E q \in removed : Replaces(q, r)
      BY <2>2, <3>3 DEF BrowseInv, KnownKept
    <3>5. \A q \in removed : q \in Events
      BY SearchAssumption DEF ProductTypes
    <3> QED BY <3>1, <3>2, <3>4, <3>5 DEF Superseded, Replaces
  <2> QED BY <2>1, <2>3, <2>4
<1> QED BY <1>2, <1>3

----------------------------------------------------------------------------
(* A listing.  What has been among the results since the client began is   *)
(* still among them, and was sent or comes after the cursor.               *)

ToCome(p) == cursor = NoValue \/ Before(cursor, p, plan.sort)

PagesInv ==
  /\ stage \in {"start", "paging", "asked"} =>
       /\ steady \subseteq Results(ShownIn(proj), plan)
       /\ \A p \in steady : p \in got \/ ToCome(p)
  /\ stage = "start" => cursor = NoValue
  /\ PagesComplete

\* What is shown are products.
LEMMA ShownAreProducts ==
  ASSUME NEW pr, IsProjection(pr)
  PROVE  ShownIn(pr) \subseteq Products
BY DEF ShownIn, IsProjection

\* A step that moves the results, and one that moves neither them nor the client.
LEMMA PagesProject ==
  ASSUME PagesInv, UNCHANGED <<plan, cursor, got>>,
         stage' = stage \/ (stage = "asked" /\ stage' = "paging"),
         \/ UNCHANGED <<proj, steady>>
         \/ \E pr : Projects(pr)
  PROVE  PagesInv'
<1>1. steady' \subseteq steady
  BY DEF Projects
<1>2. stage \in {"start", "paging", "asked"} => steady' \subseteq Results(ShownIn(proj'), plan)
  BY DEF Projects, PagesInv
<1> DEFINE R == Results(ShownIn(proj'), plan)
<1> HIDE DEF R
<1>3. \A p : ToCome(p) => ToCome(p)'
  BY DEF ToCome
<1>4. Results(ShownIn(proj), plan)' = R
  BY DEF R
<1> QED BY <1>1, <1>2, <1>3, <1>4 DEF PagesInv, PagesComplete, R

\* A page brings what comes next of it.
LEMMA PagesAnswer ==
  ASSUME PagesInv, IsProjection(proj), plan \in Plans, Answer
  PROVE  PagesInv'
<1> DEFINE L == Results(ShownIn(proj), plan)
           P == PageAfter(ShownIn(proj), plan, cursor)
<1>1. PICK pl, c : pl = plan /\ c = cursor
  OBVIOUS
<1>2. ShownIn(proj) \subseteq Products
  BY ShownAreProducts
<1>3. /\ ToSet(P) \subseteq L /\ L \subseteq Products
      /\ P # <<>> => Last(P) \in ToSet(P)
      /\ \A r \in L \ ToSet(P) :
           \/ c \in L /\ UpTo(r, c, pl.sort)
           \/ P # <<>> /\ Before(Last(P), r, pl.sort)
  BY <1>1, <1>2, PageCovers
<1>4. /\ stage = "asked" /\ UNCHANGED <<proj, plan, steady>>
      /\ got' = got \cup ToSet(P)
      /\ \/ P = <<>> /\ stage' = "done" /\ cursor' = cursor
         \/ P # <<>> /\ stage' = "paging" /\ cursor' = Last(P)
  BY DEF Answer
<1>5. steady \subseteq L /\ \A p \in steady : p \in got \/ c = NoValue \/ Before(c, p, pl.sort)
  BY <1>1, <1>4 DEF PagesInv, ToCome
<1>6. L' = L
  BY <1>4
<1> HIDE DEF L, P
<1>7. ASSUME NEW p \in steady, p \notin got'
      PROVE  P # <<>> /\ Before(Last(P), p, pl.sort)
  <2>1. p \in L \ ToSet(P) /\ (c = NoValue \/ Before(c, p, pl.sort))
    BY <1>4, <1>5, <1>7
  <2>2. c \in L => c # NoValue /\ ~UpTo(p, c, pl.sort)
    <3> SUFFICES ASSUME c \in L PROVE c # NoValue /\ ~UpTo(p, c, pl.sort)
      OBVIOUS
    <3>1. c # NoValue /\ c \in Products /\ p \in Products
      BY <1>3, <2>1, SearchAssumption
    <3>2. Before(c, p, pl.sort)
      BY <2>1, <3>1
    <3> QED BY <3>1, <3>2, BeforeOrders DEF UpTo
  <2> QED BY <1>3, <2>1, <2>2
<1>8. CASE P = <<>>
  BY <1>4, <1>7, <1>8 DEF PagesInv, PagesComplete
<1>9. CASE P # <<>>
  <2>1. \A p \in steady : p \in got' \/ ToCome(p)'
    BY <1>1, <1>4, <1>7, <1>9 DEF ToCome
  <2> QED BY <1>4, <1>5, <1>6, <1>9, <2>1 DEF PagesInv, PagesComplete, L
<1> QED BY <1>8, <1>9

\* Every step keeps what the listing promises.
LEMMA PagesKeep ==
  ASSUME PagesInv, IsProjection(proj), plan \in Plans, [ProductNext]_productVars
  PROVE  PagesInv'
<1>1. CASE Answer
  BY <1>1, PagesAnswer
<1>2. CASE Ask
  <2>1. /\ UNCHANGED <<proj, plan, cursor, got>>
        /\ stage \in {"start", "paging"} /\ stage' \in {"refused", "asked"}
        /\ steady' = IF stage = "start" THEN Results(ShownIn(proj), plan) ELSE steady
    BY <1>2 DEF Ask
  <2> DEFINE L == Results(ShownIn(proj), plan)
  <2>2. L' = L
    BY <2>1
  <2>3. steady' \subseteq L
    BY <2>1 DEF PagesInv
  <2>4. \A p \in steady' : p \in got' \/ ToCome(p)'
    BY <2>1 DEF PagesInv, ToCome
  <2> HIDE DEF L
  <2> QED BY <2>1, <2>2, <2>3, <2>4 DEF PagesInv, PagesComplete, L
<1>3. CASE Restart
  <2>1. /\ \E pr : Projects(pr)
        /\ UNCHANGED <<plan, cursor, got>>
        /\ stage' = IF stage = "asked" THEN "paging" ELSE stage
    BY <1>3 DEF Restart
  <2>2. stage' = stage \/ (stage = "asked" /\ stage' = "paging")
    BY <2>1
  <2> QED BY <2>1, <2>2, PagesProject
<1>4. CASE UNCHANGED productVars
  BY <1>4, PagesProject DEF productVars, client
<1>5. ASSUME NEW h \in Handlers,
             \/ \E e \in Events : Receive(h, e)
             \/ Handle(h) \/ SaveFails(h) \/ DropFails(h)
      PROVE  PagesInv'
  <2>1. UNCHANGED client /\ (UNCHANGED <<proj, steady>> \/ \E pr : Projects(pr))
    BY <1>5 DEF Receive, Handle, SaveFails, DropFails, Save, RunHook, FindTarget, DeletionDone,
                DropTarget, RunForget
  <2> QED BY <2>1, PagesProject DEF client
<1> QED BY <1>1, <1>2, <1>3, <1>4, <1>5 DEF ProductNext

----------------------------------------------------------------------------
(* The steps of the handlers. *)

ProductInv == ProductTypes /\ BrowseInv

\* Versions of one address are ordered.
LEMMA VersionsOrdered ==
  /\ \A e, f, g \in Events : Replaces(e, f) /\ Replaces(f, g) => Replaces(e, g)
  /\ \A e \in Events : ~Replaces(e, e)
  /\ \A p, r \in Products : AddrOf[p] = AddrOf[r] => p = r \/ Replaces(p, r) \/ Replaces(r, p)
  /\ \A p, r \in Products : Replaces(p, r) <=> AddrOf[p] = AddrOf[r] /\ Newer(p, r)
  /\ \A p, r \in Products : ~Newer(p, r) => p = r \/ Newer(r, p)
<1>1. /\ \A p \in Products : p \in Events /\ AddrOf[p] # Regular
      /\ \A e \in Events : CreatedAt[e] \in Nat /\ IdRank[e] \in Nat
      /\ \A e, f \in Events : IdRank[e] = IdRank[f] => e = f
  BY EventAssumption, SearchAssumption, ProductAssumption
<1> QED BY <1>1 DEF Replaces, SameAddress, Newer

\* Only handler h moves.
Others(h) ==
  \A o \in Handlers \ {h} :
    pc'[o] = pc[o] /\ ev'[o] = ev[o] /\ todo'[o] = todo[o] /\ target'[o] = target[o]

\* A handler that ends leaves the others alone.
LEMMA IdleEffect ==
  ASSUME WorkTypes, NEW h \in Handlers, Idle(h)
  PROVE  WorkTypes' /\ Others(h) /\ pc'[h] = "idle"
<1>1. /\ pc' = [pc EXCEPT ![h] = "idle"] /\ ev' = [ev EXCEPT ![h] = NoEvent]
      /\ todo' = [todo EXCEPT ![h] = <<>>] /\ target' = [target EXCEPT ![h] = NoEvent]
  BY DEF Idle, Step
<1>2. /\ pc' \in [Handlers -> Busy \cup {"idle"}] /\ ev' \in [Handlers -> Events \cup {NoEvent}]
      /\ target' \in [Handlers -> Products \cup {NoEvent}]
      /\ todo' = [o \in Handlers |-> todo'[o]]
  BY <1>1 DEF WorkTypes
<1>3. Others(h) /\ pc'[h] = "idle"
  BY <1>1 DEF WorkTypes, Others
<1>4. \A o \in Handlers : pc'[o] # "idle" => ev'[o] \in Events
  BY <1>3 DEF WorkTypes, Others
<1> QED BY <1>2, <1>3, <1>4 DEF WorkTypes

\* After the hook a handler ends, or begins to carry out its deletion.
LEMMA AfterHookEffect ==
  ASSUME WorkTypes, NEW h \in Handlers, ev[h] \in Events, AfterHook(h)
  PROVE  /\ WorkTypes' /\ Others(h)
         /\ \/ pc'[h] = "idle"
            \/ /\ pc'[h] = "delete" /\ ev'[h] = ev[h]
               /\ ev[h] \in Deletions /\ todo'[h] = DeleteTags[ev[h]]
<1>1. CASE Idle(h)
  BY <1>1, IdleEffect
<1>2. CASE /\ ev[h] \in Deletions /\ Step(h, "delete")
           /\ todo' = [todo EXCEPT ![h] = DeleteTags[ev[h]]]
           /\ UNCHANGED <<ev, target, left>>
  <2>1. Others(h) /\ pc'[h] = "delete" /\ ev'[h] = ev[h] /\ todo'[h] = DeleteTags[ev[h]]
    BY <1>2 DEF Step, WorkTypes, Others
  <2>2. WorkTypes'
    BY <1>2 DEF Step, WorkTypes, Busy
  <2> QED BY <1>2, <2>1, <2>2
<1> QED BY <1>1, <1>2 DEF AfterHook

\* A deletion stays stored while the others move.
LEMMA DeletionsStay ==
  ASSUME NEW h \in Handlers, \A o \in Handlers : DeletionStored(o), Others(h),
         store \cap Deletions \subseteq store', DeletionStored(h)'
  PROVE  (\A o \in Handlers : DeletionStored(o))'
<1> SUFFICES ASSUME NEW o \in Handlers, o # h PROVE DeletionStored(o)'
  OBVIOUS
<1> QED BY DEF DeletionStored, Others

\* A step that touches neither the store nor the projection.
LEMMA QuietKeeps ==
  ASSUME ProductInv, UNCHANGED <<store, proj, plan, ghosts>>, WorkTypes',
         \A q \in Products : AtHook(q)' <=> AtHook(q),
         \A h \in Handlers : pc[h] = "forget" => pc'[h] = "forget" /\ target'[h] = target[h],
         (\A h \in Handlers : DeletionStored(h))'
  PROVE  ProductInv'
<1> USE DEF ProductInv, ghosts
<1>1. ProductTypes'
  BY DEF ProductTypes
<1>2. (OneVersion /\ TombNamed)'
  BY DEF BrowseInv, OneVersion, TombNamed
<1>3. (KnownKept /\ StoredKnown)'
  BY DEF BrowseInv, KnownKept, StoredKnown
<1>4. \A p \in Products : Leaving(p) => Leaving(p)'
  BY DEF Leaving
<1>5. ShownIn(proj) \subseteq Products
  BY ShownAreProducts DEF ProductTypes
<1>6. ShownStored'
  BY <1>4, <1>5 DEF BrowseInv, ShownStored
<1>7. HooksSafe'
  BY DEF BrowseInv, HooksSafe
<1> QED BY <1>1, <1>2, <1>3, <1>6, <1>7 DEF BrowseInv

\* The same for a step of one handler that has no hook to run.
LEMMA QuietHandler ==
  ASSUME ProductInv, NEW h \in Handlers, UNCHANGED <<store, proj, plan, ghosts>>,
         WorkTypes', Others(h), pc[h] \notin {"hook", "forget"}, pc'[h] # "hook",
         DeletionStored(h)'
  PROVE  ProductInv'
<1>1. \A q \in Products : AtHook(q)' <=> AtHook(q)
  BY DEF AtHook, Others
<1>2. \A o \in Handlers : pc[o] = "forget" => pc'[o] = "forget" /\ target'[o] = target[o]
  BY DEF Others
<1>3. (\A o \in Handlers : DeletionStored(o))'
  BY DeletionsStay DEF ProductInv, BrowseInv
<1> QED BY <1>1, <1>2, <1>3, QuietKeeps

\* What a deletion's handler needs to go on when it is idle, or has begun.
LEMMA IdleOwesNothing ==
  ASSUME NEW h \in Handlers, pc'[h] = "idle"
  PROVE  DeletionStored(h)'
BY DEF DeletionStored

\* A stored deletion begins with all its tags.
LEMMA DeletionBegins ==
  ASSUME NEW h \in Handlers, pc'[h] = "delete", ev'[h] \in Deletions, ev'[h] \in store',
         todo'[h] = DeleteTags[ev'[h]]
  PROVE  DeletionStored(h)'
BY ProductAssumption DEF DeletionStored

\* Receiving an event changes neither the store nor the index.
LEMMA ReceiveKeeps ==
  ASSUME ProductInv, NEW h \in Handlers, NEW e \in Events, Receive(h, e)
  PROVE  ProductInv'
<1>1. WorkTypes /\ pc[h] = "idle"
  BY DEF ProductInv, ProductTypes, Receive
<1>2. /\ pc' = [pc EXCEPT ![h] = "save"] /\ ev' = [ev EXCEPT ![h] = e]
      /\ UNCHANGED <<store, proj, plan, ghosts>> /\ UNCHANGED <<todo, target>>
  BY DEF Receive, Step, client
<1>3. WorkTypes' /\ Others(h) /\ pc'[h] = "save"
  BY <1>1, <1>2 DEF WorkTypes, Others, Busy
<1>4. DeletionStored(h)'
  BY <1>3 DEF DeletionStored
<1> QED BY <1>1, <1>2, <1>3, <1>4, QuietHandler

\* The handler gives up, or has finished.
LEMMA IdleKeeps ==
  ASSUME ProductInv, NEW h \in Handlers, SaveFails(h) \/ DropFails(h) \/ DeletionDone(h)
  PROVE  ProductInv'
<1>1. /\ WorkTypes /\ Idle(h) /\ pc[h] \notin {"hook", "forget"}
      /\ UNCHANGED <<store, proj, plan, ghosts>>
  BY DEF ProductInv, ProductTypes, SaveFails, DropFails, DeletionDone, client
<1>2. WorkTypes' /\ Others(h) /\ pc'[h] = "idle"
  BY <1>1, IdleEffect
<1> QED BY <1>1, <1>2, IdleOwesNothing, QuietHandler

\* Neither do the steps of the client.
LEMMA ClientKeeps ==
  ASSUME ProductInv, Ask \/ Answer \/ UNCHANGED productVars
  PROVE  ProductInv'
<1>1. UNCHANGED <<store, proj, plan, ghosts>> /\ UNCHANGED <<pc, ev, todo, target>>
  BY DEF Ask, Answer, productVars, work, client
<1>2. WorkTypes'
  BY <1>1 DEF ProductInv, ProductTypes, WorkTypes
<1>3. \A q \in Products : AtHook(q)' <=> AtHook(q)
  BY <1>1 DEF AtHook
<1>4. (\A h \in Handlers : DeletionStored(h))'
  BY <1>1 DEF ProductInv, BrowseInv, DeletionStored
<1> QED BY <1>1, <1>2, <1>3, <1>4, QuietKeeps

\* The event a tag names is one its deletion names.
LEMMA TargetNamed ==
  ASSUME NEW d \in Deletions, NEW tag \in Range(DeleteTags[d]), NEW p \in Named(d, tag)
  PROVE  p \in Products /\ NamedIn(p, {d})
<1>1. PICK k \in DOMAIN DeleteTags[d] : DeleteTags[d][k] = tag
  BY DEF Range
<1>2. p \in Products /\ p # NoEvent
  BY ProductAssumption, SearchAssumption DEF Named
<1>3. Buried(d, tag, [ev |-> p])
  BY <1>2 DEF Named, Buried
<1> QED BY <1>1, <1>2, <1>3 DEF NamedIn

\* The first tag and the tags after it are tags of the deletion.
LEMMA TagsLeft ==
  ASSUME NEW T, NEW s \in Seq(T), s # <<>>
  PROVE  Head(s) \in T /\ Tail(s) \in Seq(T)
OBVIOUS

\* The lookup of a tag: what it targets is a product its deletion names.
LEMMA FindKeeps ==
  ASSUME ProductInv, NEW h \in Handlers, FindTarget(h)
  PROVE  ProductInv'
<1> DEFINE d == ev[h]
           tags == Range(DeleteTags[d])
<1>1. /\ WorkTypes /\ pc[h] = "delete" /\ todo[h] # <<>>
      /\ UNCHANGED <<store, proj, plan, ghosts>>
  BY DEF ProductInv, ProductTypes, FindTarget, client
<1>2. d \in Deletions /\ d \in store /\ todo[h] \in Seq(tags)
  BY <1>1 DEF ProductInv, BrowseInv, DeletionStored
<1>3. Head(todo[h]) \in tags /\ Tail(todo[h]) \in Seq(tags)
  BY <1>1, <1>2, TagsLeft
<1>4. CASE Idle(h)
  <2>1. WorkTypes' /\ Others(h) /\ pc'[h] = "idle"
    BY <1>1, <1>4, IdleEffect
  <2> QED BY <1>1, <2>1, IdleOwesNothing, QuietHandler
<1>5. CASE todo' = [todo EXCEPT ![h] = Tail(@)] /\ UNCHANGED <<pc, ev, target>>
  <2>1. /\ WorkTypes' /\ Others(h)
        /\ pc'[h] = "delete" /\ ev'[h] = d /\ todo'[h] = Tail(todo[h])
    BY <1>1, <1>5 DEF WorkTypes, Others
  <2>2. DeletionStored(h)'
    BY <1>1, <1>2, <1>3, <2>1 DEF DeletionStored
  <2> QED BY <1>1, <2>1, <2>2, QuietHandler
<1>6. ASSUME NEW p \in Named(d, Head(todo[h])), target' = [target EXCEPT ![h] = p],
             Step(h, "remove"), UNCHANGED <<ev, todo>>
      PROVE  ProductInv'
  <2>1. p \in Products /\ NamedIn(p, {d})
    BY <1>2, <1>3, TargetNamed
  <2>2. /\ WorkTypes' /\ Others(h)
        /\ pc'[h] = "remove" /\ ev'[h] = d /\ todo'[h] = todo[h] /\ target'[h] = p
    BY <1>1, <1>6, <2>1 DEF WorkTypes, Others, Step, Busy
  <2>3. DeletionStored(h)'
    BY <1>1, <1>2, <2>1, <2>2 DEF DeletionStored
  <2> QED BY <1>1, <2>2, <2>3, QuietHandler
<1> QED BY <1>4, <1>5, <1>6 DEF FindTarget

\* A save keeps what the store had, but for what the event replaces.
LEMMA SaveEffect ==
  ASSUME NEW S, S \subseteq Events, \A p, q \in S : ~Replaces(q, p), NEW e \in Events
  PROVE  LET T == IF KeptIn(e, S) THEN S ELSE (S \ Older(e, S)) \cup {e}
         IN  /\ T \subseteq S \cup {e} /\ S \cap Deletions \subseteq T
             /\ \A p, q \in T : ~Replaces(q, p)
             /\ e \in T \/ \E r \in S \cap T : Replaces(r, e)
             /\ \A p \in S \ T : e \in T /\ Replaces(e, p)
             /\ \A r \in Events : KeptIn(r, S) => KeptIn(r, T)
<1> DEFINE T == IF KeptIn(e, S) THEN S ELSE (S \ Older(e, S)) \cup {e}
<1>1. \A p, q : Replaces(q, p) <=> SameAddress(p, q) /\ Newer(q, p)
  BY DEF Replaces
<1>2. \A r, A : KeptIn(r, A) <=> r \in A \/ \E q \in A : Replaces(q, r)
  BY DEF KeptIn, Replaces, SameAddress
<1>3. \A p : p \in Older(e, S) <=> p \in S /\ Replaces(e, p)
  BY DEF Older, Replaces
<1>4. CASE KeptIn(e, S)
  <2>1. T = S
    BY <1>4
  <2> QED BY <1>2, <1>4, <2>1
<1>5. CASE ~KeptIn(e, S)
  <2>1. T = (S \ Older(e, S)) \cup {e}
    BY <1>5
  <2> HIDE DEF T
  <2>2. \A p \in S \ T : e \in T /\ Replaces(e, p)
    BY <1>3, <2>1
  <2>3. S \cap Deletions \subseteq T
    BY <2>2, ProductAssumption DEF Replaces, SameAddress
  <2>4. \A p, q \in T : ~Replaces(q, p)
    BY <1>2, <1>3, <1>5, <2>1, VersionsOrdered
  <2>5. ASSUME NEW r \in Events, KeptIn(r, S) PROVE KeptIn(r, T)
    <3>1. CASE r \in S
      BY <1>2, <2>2, <3>1
    <3>2. ASSUME NEW q \in S, Replaces(q, r) PROVE KeptIn(r, T)
      <4>1. q \in T \/ (e \in T /\ Replaces(e, q))
        BY <2>2
      <4>2. Replaces(e, q) => Replaces(e, r)
        BY <3>2, VersionsOrdered
      <4> QED BY <1>2, <3>2, <4>1, <4>2
    <3> QED BY <1>2, <2>5, <3>1, <3>2
  <2> QED BY <2>1, <2>2, <2>3, <2>4, <2>5 DEF T
<1> QED BY <1>4, <1>5

\* A save: what it drops from the store is replaced by an event at its hook, and
\* an event it does not store gave way to a version the index will learn of.
LEMMA SaveKeeps ==
  ASSUME ProductInv, NEW h \in Handlers, Save(h)
  PROVE  ProductInv'
<1>1. /\ WorkTypes /\ pc[h] = "save" /\ ev[h] \in Events
      /\ UNCHANGED <<proj, plan, ghosts>>
  BY DEF ProductInv, ProductTypes, WorkTypes, Save, client
<1>2. PICK e : e = ev[h]
  OBVIOUS
<1>3. CASE e \in Deletions /\ e \in store /\ UNCHANGED store /\ AfterHook(h)
  <2>1. /\ WorkTypes' /\ Others(h)
        /\ \/ pc'[h] = "idle"
           \/ /\ pc'[h] = "delete" /\ ev'[h] = ev[h]
              /\ ev[h] \in Deletions /\ todo'[h] = DeleteTags[ev[h]]
    BY <1>1, <1>3, AfterHookEffect
  <2>2. DeletionStored(h)'
    BY <1>2, <1>3, <2>1, IdleOwesNothing, DeletionBegins
  <2>3. UNCHANGED <<store, proj, plan, ghosts>>
    BY <1>1, <1>3
  <2>4. pc[h] \notin {"hook", "forget"} /\ pc'[h] # "hook"
    BY <1>1, <2>1
  <2> QED BY <2>1, <2>2, <2>3, <2>4, QuietHandler
<1>4. CASE /\ store' = IF KeptIn(e, store) THEN store ELSE (store \ Older(e, store)) \cup {e}
           /\ Step(h, "hook") /\ UNCHANGED <<ev, todo, target>>
  <2>1. /\ store \subseteq Events /\ e \in Events
        /\ \A p, q \in store : ~Replaces(q, p)
    BY <1>1, <1>2 DEF ProductInv, ProductTypes, BrowseInv, OneVersion
  <2>2. PICK S, T : S = store /\ T = store'
    OBVIOUS
  <2>3. /\ T \subseteq S \cup {e} /\ S \cap Deletions \subseteq T
        /\ \A p, q \in T : ~Replaces(q, p)
        /\ e \in T \/ \E r \in S \cap T : Replaces(r, e)
        /\ \A p \in S \ T : e \in T /\ Replaces(e, p)
        /\ \A r \in Events : KeptIn(r, S) => KeptIn(r, T)
    BY <1>4, <2>1, <2>2, SaveEffect
  <2>4. pc' = [pc EXCEPT ![h] = "hook"] /\ UNCHANGED <<ev, todo, target>>
    BY <1>4 DEF Step
  <2>5. WorkTypes' /\ Others(h) /\ pc'[h] = "hook" /\ ev'[h] = e
    BY <1>1, <1>2, <2>4 DEF WorkTypes, Others, Busy
  <2>6. \A q : AtHook(q)' <=> AtHook(q) \/ q = e
    BY <1>1, <1>2, <2>4, <2>5 DEF AtHook, Others
  <2>7. \A p : Leaving(p) => Leaving(p)'
    <3>1. \A o \in Handlers : pc[o] = "forget" => pc'[o] = "forget" /\ target'[o] = target[o]
      BY <1>1, <2>5 DEF Others
    <3> QED BY <2>6, <3>1 DEF Leaving
  <2>8. e \in Products \/ (e \in Deletions /\ e \in T)
    <3>1. e \notin Products => e \in Deletions /\ AddrOf[e] = Regular
      BY <2>1, ProductAssumption
    <3>2. \A r : Replaces(r, e) => AddrOf[e] # Regular
      BY DEF Replaces, SameAddress
    <3> QED BY <2>3, <3>1, <3>2
  <2>9. \A p \in S \ T : AtHook(e)' /\ e \in Products /\ Replaces(e, p)
    <3>1. \A p : Replaces(e, p) => AddrOf[e] # Regular
      BY DEF Replaces, SameAddress
    <3>2. e \in Deletions => AddrOf[e] = Regular
      BY ProductAssumption
    <3> QED BY <2>3, <2>6, <2>8, <3>1, <3>2
  <2>10. ProductTypes'
    BY <1>1, <2>1, <2>2, <2>3, <2>5 DEF ProductInv, ProductTypes, ghosts
  <2>11. OneVersion'
    BY <2>2, <2>3 DEF OneVersion
  <2>12. KnownKept'
    <3>1. KeptIn(e, T)
      BY <2>3 DEF KeptIn, Replaces, SameAddress
    <3>2. \A r \in Products : r \in Events
      BY SearchAssumption
    <3> QED BY <1>1, <2>2, <2>3, <2>6, <3>1, <3>2 DEF ProductInv, BrowseInv, KnownKept, ghosts
  <2>13. StoredKnown'
    BY <1>1, <2>2, <2>3, <2>6 DEF ProductInv, BrowseInv, StoredKnown, ghosts
  <2>14. TombNamed'
    <3>1. \A p : NamedIn(p, S) => NamedIn(p, T)
      BY <2>3 DEF NamedIn
    <3> QED BY <1>1, <2>2, <3>1 DEF ProductInv, BrowseInv, TombNamed
  <2>15. ShownStored'
    BY <1>1, <2>2, <2>7, <2>9 DEF ProductInv, BrowseInv, ShownStored, ghosts, Leaving
  <2>16. HooksSafe'
    <3> SUFFICES ASSUME NEW q \in Products, AtHook(q)'
                 PROVE  \/ q \in store' \/ q \in raced' \/ Superseded(q, cut')
                        \/ \E r \in Products : AtHook(r)' /\ Replaces(r, q)
                        \/ LET r == proj'[AddrOf[q]].ev IN r # NoEvent /\ ~Newer(q, r)
      BY DEF HooksSafe
    <3>1. CASE AtHook(q)
      BY <1>1, <2>2, <2>6, <2>9, <3>1 DEF ProductInv, BrowseInv, HooksSafe, ghosts
    <3>2. CASE q = e /\ q \notin T
      <4>1. PICK r \in S : Replaces(r, q)
        BY <2>3, <3>2
      <4>2. r \in Products /\ AddrOf[r] = AddrOf[q] /\ AddrOf[q] \in Addresses
        BY <2>1, <2>2, <4>1, ProductAssumption DEF Replaces, SameAddress, Addresses
      <4>3. \/ AtHook(r) \/ r \in cut
            \/ LET x == proj[AddrOf[r]].ev IN x # NoEvent /\ (x = r \/ Newer(x, r))
        BY <2>2, <4>2 DEF ProductInv, BrowseInv, StoredKnown
      <4>4. r \in cut => Superseded(q, cut)
        BY <4>1 DEF Superseded, Replaces
      <4>5. ASSUME NEW x, x = proj[AddrOf[q]].ev, x # NoEvent, x = r \/ Newer(x, r)
            PROVE  ~Newer(q, x)
        <5>1. x \in Events /\ r \in Events /\ q \in Events
          BY <2>1, <2>2, <4>2, <4>5, SearchAssumption DEF ProductInv, ProductTypes, IsProjection
        <5>2. Newer(r, q)
          BY <4>1 DEF Replaces
        <5> QED BY <4>5, <5>1, <5>2, NewerOrders
      <4> QED BY <1>1, <2>6, <4>1, <4>2, <4>3, <4>4, <4>5 DEF ghosts
    <3> QED BY <2>2, <2>6, <3>1, <3>2
  <2>17. DeletionStored(h)'
    BY <2>2, <2>5, <2>8, ProductAssumption DEF DeletionStored
  <2>18. (\A o \in Handlers : DeletionStored(o))'
    BY <2>2, <2>3, <2>5, <2>17, DeletionsStay DEF ProductInv, BrowseInv
  <2> QED BY <2>10, <2>11, <2>12, <2>13, <2>14, <2>15, <2>16, <2>18 DEF ProductInv, BrowseInv
<1> QED BY <1>2, <1>3, <1>4 DEF Save

\* A newer version enters the projection.
LEMMA ProductHookKeeps ==
  ASSUME ProductInv, NEW h \in Handlers, RunHook(h), ev[h] \in Products
  PROVE  ProductInv'
<1>1. /\ WorkTypes /\ pc[h] = "hook" /\ AfterHook(h)
      /\ UNCHANGED <<store, plan, ghosts>> /\ proj' = ApplyEvent(ev[h], proj)
  BY DEF ProductInv, ProductTypes, RunHook, Projects, client
<1>2. PICK e, pr, Q : e = ev[h] /\ pr = proj /\ Q = proj'
  OBVIOUS
<1>3. e \in Products /\ e \in Events /\ IsProjection(pr) /\ Q = UpsertProduct(e, pr)
  BY <1>1, <1>2, SearchAssumption DEF ProductInv, ProductTypes, ApplyEvent
<1>4. PICK a : a = AddrOf[e]
  OBVIOUS
<1>5. /\ IsProjection(Q) /\ a \in Addresses
      /\ \A b \in Addresses : b # a => Q[b] = pr[b]
      /\ \/ Q[a] = pr[a] /\ pr[a].ev # NoEvent /\ ~Newer(e, pr[a].ev)
         \/ /\ Q[a].ev = e /\ ~Q[a].tomb
            /\ pr[a].ev = NoEvent \/ Newer(e, pr[a].ev)
  BY <1>3, <1>4, UpsertEffect
<1>6. /\ WorkTypes' /\ Others(h) /\ pc'[h] = "idle"
  <2>1. ev[h] \notin Deletions
    BY <1>2, <1>3, ProductAssumption
  <2> QED BY <1>1, <1>2, <1>3, <2>1, AfterHookEffect
<1>7. /\ \A q : AtHook(q)' => AtHook(q)
      /\ \A q : AtHook(q) /\ q # e => AtHook(q)'
      /\ AtHook(e)
  BY <1>1, <1>2, <1>6 DEF AtHook, Others
<1>8. \A p \in Products : p \in Events /\ AddrOf[p] \in Addresses /\ p # NoEvent
  BY SearchAssumption, ProductAssumption DEF Addresses
<1>9. \A b \in Addresses : /\ pr[b].ev # NoEvent => pr[b].ev \in Products /\ AddrOf[pr[b].ev] = b
                           /\ Q[b].ev # NoEvent => Q[b].ev \in Products /\ AddrOf[Q[b].ev] = b
  BY <1>3, <1>5 DEF IsProjection
<1>10. \* what is known only becomes newer
       /\ \A b \in Addresses : pr[b].ev # NoEvent =>
            Q[b].ev # NoEvent /\ (Q[b].ev = pr[b].ev \/ Newer(Q[b].ev, pr[b].ev))
       /\ Q[a].ev # NoEvent /\ (Q[a].ev = e \/ Newer(Q[a].ev, e))
  BY <1>3, <1>4, <1>5, <1>8, <1>9, VersionsOrdered
<1>11. (OneVersion /\ ProductTypes)'
  BY <1>1, <1>2, <1>5, <1>6 DEF ProductInv, ProductTypes, BrowseInv, OneVersion, ghosts
<1>12. KnownKept'
  <2>1. \A r \in Products : Q[AddrOf[r]].ev = r => pr[AddrOf[r]].ev = r \/ r = e
    BY <1>4, <1>5, <1>8
  <2> QED BY <1>1, <1>2, <1>7, <2>1 DEF ProductInv, BrowseInv, KnownKept, ghosts
<1>13. StoredKnown'
  <2> SUFFICES ASSUME NEW p \in store \cap Products, ~AtHook(p)', p \notin cut
               PROVE  LET r == Q[AddrOf[p]].ev IN r # NoEvent /\ (r = p \/ Newer(r, p))
    BY <1>1, <1>2 DEF StoredKnown, ghosts
  <2>1. CASE p = e
    BY <1>4, <1>10, <2>1
  <2>2. CASE p # e
    <3>1. LET r == pr[AddrOf[p]].ev IN r # NoEvent /\ (r = p \/ Newer(r, p))
      BY <1>2, <1>7, <2>2 DEF ProductInv, BrowseInv, StoredKnown
    <3> QED BY <1>8, <1>9, <1>10, <3>1, NewerOrders
  <2> QED BY <2>1, <2>2
<1>14. TombNamed'
  BY <1>1, <1>2, <1>5 DEF ProductInv, BrowseInv, TombNamed
<1>15. ShownStored'
  <2> SUFFICES ASSUME NEW p \in ShownIn(Q)
               PROVE  p \in store \/ p \in raced \/ Superseded(p, cut) \/ Leaving(p)'
    BY <1>1, <1>2 DEF ShownStored, ghosts
  <2>1. PICK b \in Addresses : Q[b].ev = p /\ p # NoEvent /\ ~Q[b].tomb
    BY DEF ShownIn
  <2>2. p \in Products /\ AddrOf[p] = b
    BY <1>9, <2>1
  <2>3. CASE Q[b] = pr[b]
    <3>1. p \in ShownIn(pr)
      BY <2>1, <2>3 DEF ShownIn
    <3>2. p \in store \/ p \in raced \/ Superseded(p, cut) \/ Leaving(p)
      BY <1>2, <3>1 DEF ProductInv, BrowseInv, ShownStored
    <3>3. Leaving(p) => Leaving(p)'
      <4>1. \A o \in Handlers : pc[o] = "forget" => pc'[o] = "forget" /\ target'[o] = target[o]
        BY <1>1, <1>6 DEF Others
      <4>2. ~Replaces(e, p)
        <5> SUFFICES ASSUME Replaces(e, p) PROVE FALSE
          OBVIOUS
        <5>1. b = a /\ Newer(e, p)
          BY <1>4, <2>2 DEF Replaces, SameAddress
        <5> QED BY <1>3, <1>5, <2>1, <2>3, <5>1, VersionsOrdered, NewerOrders
      <4> QED BY <1>7, <4>1, <4>2 DEF Leaving
    <3> QED BY <3>2, <3>3
  <2>4. CASE Q[b] # pr[b]
    <3>1. p = e /\ b = a /\ (pr[a].ev = NoEvent \/ Newer(e, pr[a].ev))
      BY <1>5, <2>1, <2>4
    <3>2. \/ e \in store \/ e \in raced \/ Superseded(e, cut)
          \/ \E r \in Products : AtHook(r) /\ Replaces(r, e)
      BY <1>2, <1>3, <1>4, <1>7, <3>1 DEF ProductInv, BrowseInv, HooksSafe
    <3>3. \A r \in Products : Replaces(r, e) => r # e
      BY <1>3, VersionsOrdered
    <3> QED BY <1>7, <3>1, <3>2, <3>3 DEF Leaving
  <2> QED BY <2>3, <2>4
<1>16. HooksSafe'
  <2> SUFFICES ASSUME NEW q \in Products, AtHook(q)'
               PROVE  \/ q \in store \/ q \in raced \/ Superseded(q, cut)
                      \/ \E r \in Products : AtHook(r)' /\ Replaces(r, q)
                      \/ LET r == Q[AddrOf[q]].ev IN r # NoEvent /\ ~Newer(q, r)
    BY <1>1, <1>2 DEF HooksSafe, ghosts
  <2>1. \/ q \in store \/ q \in raced \/ Superseded(q, cut)
        \/ \E r \in Products : AtHook(r) /\ Replaces(r, q)
        \/ LET r == pr[AddrOf[q]].ev IN r # NoEvent /\ ~Newer(q, r)
    BY <1>2, <1>7 DEF ProductInv, BrowseInv, HooksSafe
  <2>2. CASE Replaces(e, q)
    <3>1. AddrOf[q] = a /\ Newer(e, q)
      BY <1>4, <2>2 DEF Replaces, SameAddress
    <3> QED BY <1>3, <1>5, <1>8, <1>9, <1>10, <3>1, NewerOrders
  <2>3. CASE LET r == pr[AddrOf[q]].ev IN r # NoEvent /\ ~Newer(q, r)
    BY <1>8, <1>9, <1>10, <2>3, NewerOrders
  <2> QED BY <1>7, <2>1, <2>2, <2>3
<1>17. (\A o \in Handlers : DeletionStored(o))'
  BY <1>1, <1>6, IdleOwesNothing, DeletionsStay DEF ProductInv, BrowseInv
<1> QED BY <1>11, <1>12, <1>13, <1>14, <1>15, <1>16, <1>17 DEF ProductInv, BrowseInv

\* Entries become tombstones, and have their deletions stored.
LEMMA TombstonesKeep ==
  ASSUME ProductInv, UNCHANGED <<store, plan, ghosts>>, NEW Q, Q = proj', IsProjection(Q),
         \A a \in Addresses :
           /\ Q[a].ev = proj[a].ev /\ (proj[a].tomb => Q[a].tomb)
           /\ Q[a].tomb => \/ proj[a].tomb
                           \/ proj[a].ev # NoEvent /\ NamedIn(proj[a].ev, store),
         WorkTypes', \A q \in Products : AtHook(q)' <=> AtHook(q),
         \A p \in ShownIn(Q) : Leaving(p) => Leaving(p)',
         (\A h \in Handlers : DeletionStored(h))'
  PROVE  ProductInv'
<1> USE DEF ProductInv, ghosts
<1>1. \A p \in Products : AddrOf[p] \in Addresses
  BY DEF Addresses
<1>2. (ProductTypes /\ OneVersion)'
  BY DEF ProductTypes, BrowseInv, OneVersion
<1>3. (KnownKept /\ StoredKnown)'
  BY <1>1 DEF BrowseInv, KnownKept, StoredKnown
<1>4. TombNamed'
  BY DEF BrowseInv, TombNamed
<1>5. ShownIn(Q) \subseteq ShownIn(proj)
  BY DEF ShownIn
<1>6. ShownStored'
  BY <1>5 DEF BrowseInv, ShownStored
<1>7. HooksSafe'
  BY <1>1 DEF BrowseInv, HooksSafe
<1> QED BY <1>2, <1>3, <1>4, <1>6, <1>7 DEF BrowseInv

\* The hook of a deletion buries what the deletion, stored by now, names.
LEMMA DeletionHookKeeps ==
  ASSUME ProductInv, NEW h \in Handlers, RunHook(h), ev[h] \in Deletions
  PROVE  ProductInv'
<1>1. /\ WorkTypes /\ pc[h] = "hook" /\ AfterHook(h)
      /\ UNCHANGED <<store, plan, ghosts>> /\ proj' = ApplyEvent(ev[h], proj)
  BY DEF ProductInv, ProductTypes, RunHook, Projects, client
<1>2. PICK d, Q : d = ev[h] /\ Q = proj'
  OBVIOUS
<1>3. /\ d \in Deletions /\ d \in store /\ d \notin Products /\ d \in Events
      /\ IsProjection(proj) /\ Q = ApplyDeleteEvent(d, proj)
  BY <1>1, <1>2, ProductAssumption
     DEF ProductInv, ProductTypes, BrowseInv, DeletionStored, ApplyEvent
<1>4. /\ IsProjection(Q)
      /\ \A a \in Addresses :
           /\ Q[a].ev = proj[a].ev /\ (proj[a].tomb => Q[a].tomb)
           /\ Q[a].tomb => \/ proj[a].tomb
                           \/ proj[a].ev # NoEvent /\ NamedIn(proj[a].ev, {d})
  BY <1>3, DeleteEffect
<1>5. \A p : NamedIn(p, {d}) => NamedIn(p, store)
  BY <1>3 DEF NamedIn
<1>6. /\ WorkTypes' /\ Others(h)
      /\ \/ pc'[h] = "idle"
         \/ /\ pc'[h] = "delete" /\ ev'[h] = ev[h]
            /\ ev[h] \in Deletions /\ todo'[h] = DeleteTags[ev[h]]
  BY <1>1, <1>2, <1>3, AfterHookEffect
<1>7. DeletionStored(h)'
  BY <1>1, <1>2, <1>3, <1>6, IdleOwesNothing, DeletionBegins
<1>8. (\A o \in Handlers : DeletionStored(o))'
  BY <1>1, <1>6, <1>7, DeletionsStay DEF ProductInv, BrowseInv
<1>9. \A q \in Products : AtHook(q)' <=> AtHook(q)
  BY <1>2, <1>3, <1>6 DEF AtHook, Others
<1>10. \A p : Leaving(p) => Leaving(p)'
  BY <1>1, <1>6, <1>9 DEF Leaving, Others
<1> QED BY <1>1, <1>2, <1>4, <1>5, <1>6, <1>8, <1>9, <1>10, TombstonesKeep

\* OnEventDeleted buries the target, which is no longer shown then.
LEMMA ForgetKeeps ==
  ASSUME ProductInv, NEW h \in Handlers, RunForget(h)
  PROVE  ProductInv'
<1>1. /\ WorkTypes /\ pc[h] = "forget" /\ UNCHANGED <<store, plan, ghosts>>
      /\ proj' = ApplyDeletedEvent(target[h], proj)
      /\ pc' = [pc EXCEPT ![h] = "delete"] /\ todo' = [todo EXCEPT ![h] = Tail(@)]
      /\ target' = [target EXCEPT ![h] = NoEvent] /\ UNCHANGED ev
  BY DEF ProductInv, ProductTypes, RunForget, Projects, Step, client
<1>2. PICK p, d, Q : p = target[h] /\ d = ev[h] /\ Q = proj'
  OBVIOUS
<1>3. /\ d \in Deletions /\ d \in store /\ p \in Products /\ NamedIn(p, {d})
      /\ todo[h] # <<>> /\ todo[h] \in Seq(Range(DeleteTags[d]))
      /\ IsProjection(proj)
  BY <1>1, <1>2 DEF ProductInv, ProductTypes, BrowseInv, DeletionStored
<1>4. /\ IsProjection(Q)
      /\ \A a \in Addresses :
           /\ Q[a].ev = proj[a].ev /\ (proj[a].tomb => Q[a].tomb)
           /\ Q[a].tomb <=> proj[a].tomb \/ proj[a].ev = p
  BY <1>1, <1>2, <1>3, ForgetEffect
<1>5. NamedIn(p, store) /\ p # NoEvent
  BY <1>3, ProductAssumption, SearchAssumption DEF NamedIn
<1>6. /\ WorkTypes' /\ Others(h)
      /\ pc'[h] = "delete" /\ ev'[h] = d /\ todo'[h] = Tail(todo[h])
  BY <1>1, <1>2 DEF WorkTypes, Others, Busy
<1>7. DeletionStored(h)'
  <2>1. Tail(todo[h]) \in Seq(Range(DeleteTags[d]))
    BY <1>3, TagsLeft
  <2> QED BY <1>1, <1>3, <1>6, <2>1 DEF DeletionStored
<1>8. (\A o \in Handlers : DeletionStored(o))'
  BY <1>1, <1>6, <1>7, DeletionsStay DEF ProductInv, BrowseInv
<1>9. \A q \in Products : AtHook(q)' <=> AtHook(q)
  BY <1>1, <1>6 DEF AtHook, Others
<1>10. ASSUME NEW x \in ShownIn(Q), Leaving(x) PROVE Leaving(x)'
  <2>1. x # p
    BY <1>4 DEF ShownIn
  <2>2. \A o \in Handlers : pc[o] = "forget" /\ target[o] = x =>
                              pc'[o] = "forget" /\ target'[o] = x
    BY <1>2, <1>6, <2>1 DEF Others
  <2> QED BY <1>9, <1>10, <2>2 DEF Leaving
<1> QED BY <1>1, <1>2, <1>4, <1>5, <1>6, <1>8, <1>9, <1>10, TombstonesKeep

\* What a deletion drops from the store is about to be forgotten.
LEMMA DropKeeps ==
  ASSUME ProductInv, NEW h \in Handlers, DropTarget(h)
  PROVE  ProductInv'
<1>1. PICK p, S, T : p = target[h] /\ S = store /\ T = store'
  OBVIOUS
<1>2. /\ WorkTypes /\ pc[h] = "remove" /\ UNCHANGED <<proj, plan, cut>>
      /\ T = S \ {p} /\ removed' = removed \cup {p}
      /\ raced' = IF AtHook(p) THEN raced \cup {p} ELSE raced
      /\ pc' = [pc EXCEPT ![h] = "forget"] /\ UNCHANGED <<ev, todo, target>>
  BY <1>1 DEF ProductInv, ProductTypes, DropTarget, Step, client, AtHook
<1>3. /\ ev[h] \in Deletions /\ ev[h] \in S /\ p \in Products /\ p \notin Deletions
      /\ DeletionStored(h)
  BY <1>1, <1>2, ProductAssumption DEF ProductInv, BrowseInv, DeletionStored
<1>4. WorkTypes' /\ Others(h) /\ pc'[h] = "forget" /\ target'[h] = p
  BY <1>1, <1>2 DEF WorkTypes, Others, Busy
<1>5. \A q : AtHook(q)' <=> AtHook(q)
  BY <1>2, <1>4 DEF AtHook, Others
<1>6. Leaving(p)' /\ \A x : Leaving(x) => Leaving(x)'
  BY <1>2, <1>4, <1>5 DEF Leaving, Others
<1>7. (ProductTypes /\ OneVersion)'
  BY <1>1, <1>2, <1>3, <1>4 DEF ProductInv, ProductTypes, BrowseInv, OneVersion
<1>8. KnownKept'
  <2>1. \A r : KeptIn(r, S) => KeptIn(r, T) \/ r = p \/ Replaces(p, r)
    BY <1>2 DEF KeptIn, Replaces, SameAddress
  <2> QED BY <1>1, <1>2, <1>5, <2>1 DEF ProductInv, BrowseInv, KnownKept
<1>9. StoredKnown'
  BY <1>1, <1>2, <1>5 DEF ProductInv, BrowseInv, StoredKnown
<1>10. TombNamed'
  <2>1. \A x : NamedIn(x, S) => NamedIn(x, T)
    BY <1>2, <1>3 DEF NamedIn
  <2> QED BY <1>1, <1>2, <2>1 DEF ProductInv, BrowseInv, TombNamed
<1>11. ShownStored'
  BY <1>1, <1>2, <1>6 DEF ProductInv, BrowseInv, ShownStored
<1>12. HooksSafe'
  BY <1>1, <1>2, <1>5 DEF ProductInv, BrowseInv, HooksSafe
<1>13. DeletionStored(h)'
  BY <1>1, <1>2, <1>3, <1>4 DEF DeletionStored
<1>14. (\A o \in Handlers : DeletionStored(o))'
  BY <1>1, <1>2, <1>3, <1>4, <1>13, DeletionsStay DEF ProductInv, BrowseInv
<1> QED BY <1>7, <1>8, <1>9, <1>10, <1>11, <1>12, <1>14 DEF ProductInv, BrowseInv

\* A restart: no hook is left, and the seed shows what it saw of the store.
LEMMA RestartKeeps ==
  ASSUME ProductInv, Restart
  PROVE  ProductInv'
<1>1. PICK S, Q, seen : S = store /\ Q = proj' /\ seen = SeenBySeed(store)
  OBVIOUS
<1>2. /\ S \subseteq Events /\ seen \subseteq S /\ Q = Seeded(seen)
      /\ UNCHANGED <<store, plan, removed>> /\ cut' = S \ seen
      /\ pc' = [h \in Handlers |-> "idle"] /\ ev' = [h \in Handlers |-> NoEvent]
      /\ todo' = [h \in Handlers |-> <<>>] /\ target' = [h \in Handlers |-> NoEvent]
  BY <1>1 DEF ProductInv, ProductTypes, Restart, Projects, SeenBySeed
<1>3. \A p, q \in S : ~Replaces(q, p)
  BY <1>1 DEF ProductInv, BrowseInv, OneVersion
<1>4. /\ IsProjection(Q)
      /\ \A a \in Addresses : Q[a].ev = NoEvent \/ Q[a].ev \in seen
      /\ \A p \in seen \cap Products : Q[AddrOf[p]].ev = p
      /\ \A a \in Addresses : Q[a].tomb => Q[a].ev # NoEvent /\ NamedIn(Q[a].ev, seen)
  <2>1. seen \subseteq Events /\ \A p, q \in seen : ~(SameAddress(p, q) /\ Newer(q, p))
    BY <1>2, <1>3 DEF Replaces
  <2> QED BY <1>2, <2>1, SeedEffect
<1>5. WorkTypes' /\ \A h \in Handlers : pc'[h] = "idle"
  BY <1>2 DEF WorkTypes
<1>6. \A q : ~AtHook(q)'
  BY <1>5 DEF AtHook
<1>7. \A p \in Products : AddrOf[p] \in Addresses /\ p # NoEvent
  BY SearchAssumption, ProductAssumption DEF Addresses
<1>8. (ProductTypes /\ OneVersion)'
  BY <1>1, <1>2, <1>4, <1>5 DEF ProductInv, ProductTypes, BrowseInv, OneVersion
<1>9. KnownKept'
  <2>1. \A r \in Products : Q[AddrOf[r]].ev = r => KeptIn(r, S)
    BY <1>2, <1>4, <1>7 DEF KeptIn
  <2> QED BY <1>1, <1>2, <1>6, <2>1 DEF KnownKept
<1>10. StoredKnown'
  BY <1>1, <1>2, <1>4, <1>7 DEF StoredKnown
<1>11. TombNamed'
  <2>1. \A x : NamedIn(x, seen) => NamedIn(x, S)
    BY <1>2 DEF NamedIn
  <2> QED BY <1>1, <1>2, <1>4, <2>1 DEF TombNamed
<1>12. ShownStored'
  <2>1. ShownIn(Q) \subseteq S
    BY <1>2, <1>4 DEF ShownIn
  <2> QED BY <1>1, <1>2, <2>1 DEF ShownStored
<1>13. HooksSafe'
  BY <1>6 DEF HooksSafe
<1>14. (\A h \in Handlers : DeletionStored(h))'
  BY <1>5 DEF DeletionStored
<1> QED BY <1>8, <1>9, <1>10, <1>11, <1>12, <1>13, <1>14 DEF ProductInv, BrowseInv

\* The relay starts empty.
LEMMA ProductStarts == ProductInit => ProductInv /\ PagesInv
<1> SUFFICES ASSUME ProductInit PROVE ProductInv /\ PagesInv
  OBVIOUS
<1>1. /\ store = {} /\ proj = [a \in Addresses |-> Unknown] /\ steady = {} /\ cut = {}
      /\ pc = [h \in Handlers |-> "idle"] /\ ev = [h \in Handlers |-> NoEvent]
      /\ todo = [h \in Handlers |-> <<>>] /\ target = [h \in Handlers |-> NoEvent]
      /\ plan \in Plans /\ stage = "start" /\ cursor = NoValue /\ removed = {}
  BY DEF ProductInit
<1>2. /\ IsProjection(proj)
      /\ \A a \in Addresses : proj[a].ev = NoEvent /\ ~proj[a].tomb
  BY <1>1 DEF IsProjection, Unknown
<1>3. WorkTypes /\ \A h \in Handlers : pc[h] = "idle"
  BY <1>1 DEF WorkTypes
<1>4. \A q : ~AtHook(q)
  BY <1>3 DEF AtHook
<1>5. \A p \in Products : AddrOf[p] \in Addresses /\ p # NoEvent
  BY SearchAssumption, ProductAssumption DEF Addresses
<1>6. ProductTypes
  BY <1>1, <1>2, <1>3 DEF ProductTypes
<1>7. OneVersion /\ StoredKnown /\ TombNamed /\ HooksSafe
  BY <1>1, <1>2, <1>4 DEF OneVersion, StoredKnown, TombNamed, HooksSafe
<1>8. KnownKept
  BY <1>2, <1>4, <1>5 DEF KnownKept
<1>9. ShownStored
  BY <1>2 DEF ShownStored, ShownIn
<1>10. \A h \in Handlers : DeletionStored(h)
  BY <1>3 DEF DeletionStored
<1>11. PagesInv
  BY <1>1 DEF PagesInv, PagesComplete
<1> QED BY <1>6, <1>7, <1>8, <1>9, <1>10, <1>11 DEF ProductInv, BrowseInv

\* Every step of the relay keeps the invariant.
LEMMA ProductKeeps ==
  ASSUME ProductInv, [ProductNext]_productVars
  PROVE  ProductInv'
<1>1. CASE Ask \/ Answer \/ UNCHANGED productVars
  BY <1>1, ClientKeeps
<1>2. CASE Restart
  BY <1>2, RestartKeeps
<1>3. ASSUME NEW h \in Handlers, NEW e \in Events, Receive(h, e) PROVE ProductInv'
  BY <1>3, ReceiveKeeps
<1>4. ASSUME NEW h \in Handlers, SaveFails(h) \/ DropFails(h) \/ DeletionDone(h)
      PROVE  ProductInv'
  BY <1>4, IdleKeeps
<1>5. ASSUME NEW h \in Handlers, RunHook(h) PROVE ProductInv'
  <2>1. ev[h] \in Products \/ ev[h] \in Deletions
    BY <1>5, ProductAssumption DEF RunHook, ProductInv, ProductTypes, WorkTypes
  <2> QED BY <1>5, <2>1, ProductHookKeeps, DeletionHookKeeps
<1>6. ASSUME NEW h \in Handlers, Save(h) \/ FindTarget(h) \/ DropTarget(h) \/ RunForget(h)
      PROVE  ProductInv'
  BY <1>6, SaveKeeps, FindKeeps, DropKeeps, ForgetKeeps
<1> QED BY <1>1, <1>2, <1>3, <1>4, <1>5, <1>6 DEF ProductNext, Handle

\* Browsing and the store agree whenever no event is being handled.
THEOREM BrowsingAgrees == ProductSpec => []BrowseAgrees
<1>1. ProductInit => ProductInv
  BY ProductStarts
<1>2. ProductInv /\ [ProductNext]_productVars => ProductInv'
  BY ProductKeeps
<1>3. ProductInv => BrowseAgrees
  BY AgreesFromInv DEF ProductInv
<1> QED BY <1>1, <1>2, <1>3, PTL DEF ProductSpec

\* A listing that ended has sent everything that was there all the time.
THEOREM ListingsComplete == ProductSpec => []PagesComplete
<1>1. ProductInit => ProductInv /\ PagesInv
  BY ProductStarts
<1>2. ProductInv /\ PagesInv /\ [ProductNext]_productVars => (ProductInv /\ PagesInv)'
  BY ProductKeeps, PagesKeep DEF ProductInv, ProductTypes
<1>3. PagesInv => PagesComplete
  BY DEF PagesInv
<1> QED BY <1>1, <1>2, <1>3, PTL DEF ProductSpec

=============================================================================
