---------------------------- MODULE ListingProofs ----------------------------
(***************************************************************************)
(* Theorems about Listing for any table and rows, any queries, any widths  *)
(* of the integers and any number of writers around the client.            *)
(*                                                                         *)
(* Every row that matches has a place in the order of the query.  While    *)
(* rows only leave, places only fall, so what was shown stays before the   *)
(* next page (ShownOnceOK); while rows only come, places only rise, so     *)
(* what matched from the start and was not shown is still ahead            *)
(* (NothingSkippedOK).  Where an offset is saturated no row has a place    *)
(* that high.                                                              *)
(***************************************************************************)
EXTENDS Listing, ListsProofs, TLAPS

\* The parameters of a page, the rows before it, and those up to its end.
PageParams == [page : Nat \ {0}, size : 1..MaxPageSize]
Skipped(p) == (p.page - 1) * p.size
Through(p) == p.page * p.size

\* The rows that match now, and the place of one.
M          == Matching(query)
PlaceOf(r) == Place(r, M, NewestFirst)

\* The rows that the pages asked for so far hold.
Covered == IF stage = "page" THEN Skipped(params) ELSE Through(params)

\* Only one kind of request is under way, and a walk begins with its first page.
StageOK ==
    /\ table = "suggestions" => stage \in {"idle", "related", "popular", "answered"} /\ ~begun
    /\ table # "suggestions" => stage \in {"idle", "page", "count", "answered"}
    /\ table # "suggestions" /\ stage \in {"count", "answered"} => begun
    /\ stage = "idle" => ~begun /\ docs = <<>>
    /\ ~begun => stay = {} /\ shown = [r \in Rows |-> 0] /\ ~left /\ ~entered /\ ~moved
    /\ ~begun /\ stage = "page" /\ FromTheStart => params.page = 1

TypeInv == TypeOK /\ StageOK

\* While no row came, what was shown once is behind the walk.
ShownOnceOK ==
    ~entered => \A r \in Rows : shown[r] <= 1 /\ (begun /\ r \in M /\ shown[r] > 0 => PlaceOf(r) <= Covered)

\* While no row left, what matched all along is shown or ahead of the walk.
NothingSkippedOK ==
    begun /\ FromTheStart /\ ~left =>
        /\ stay \subseteq M
        /\ \A r \in stay : shown[r] = 0 => PlaceOf(r) > Covered
        /\ WalkEnded => \A r \in stay : shown[r] > 0

\* A page is as long as the rows that matched when it was read make it.
PageFitsOK ==
    begun /\ ~moved /\ stage \in {"count", "answered"} =>
        Len(docs) = Clamp((IF stage = "count" THEN Cardinality(M) ELSE total) - Skipped(params), 0, params.size)

IInv == TypeInv /\ ShownOnceOK /\ NothingSkippedOK /\ PageFitsOK

----------------------------------------------------------------------------
(* Numbers.                                                                *)

\* The larger and the smaller of two numbers.
LEMMA MaxMinOfTwo ==
  ASSUME NEW a \in Int, NEW b \in Int
  PROVE  /\ Max({a, b}) = IF a >= b THEN a ELSE b
         /\ Min({a, b}) = IF a <= b THEN a ELSE b
<1>1. Max({a, b}) = IF a >= b THEN a ELSE b
  BY DEF Max
<1>2. Min({a, b}) = IF a <= b THEN a ELSE b
  BY DEF Min
<1>3. QED
  BY <1>1, <1>2

\* A number is clamped into its range.
LEMMA ClampIs ==
  ASSUME NEW n \in Int, NEW low \in Int, NEW high \in Int, low <= high
  PROVE  Clamp(n, low, high) = IF n < low THEN low ELSE IF n > high THEN high ELSE n
<1>1. Min({n, high}) = IF n <= high THEN n ELSE high
  BY MaxMinOfTwo
<1>2. Max({low, Min({n, high})}) = IF low >= Min({n, high}) THEN low ELSE Min({n, high})
  BY <1>1, MaxMinOfTwo
<1>3. QED
  BY <1>1, <1>2 DEF Clamp

\* A product grows with its factor.
LEMMA ProductGrows ==
  ASSUME NEW a \in Int, NEW b \in Int, NEW c \in Nat, a <= b
  PROVE  a * c <= b * c
  OBVIOUS

\* A quotient, rounded down.
LEMMA QuotientIs ==
  ASSUME NEW n \in Nat, NEW d \in Nat \ {0}
  PROVE  /\ n \div d \in Nat
         /\ (n \div d) * d <= n
         /\ n < (n \div d) * d + d
  OBVIOUS

\* The types of the parameters of a page.
LEMMA PageParamsType ==
  ASSUME NEW p \in PageParams
  PROVE  p.page \in Nat \ {0} /\ p.size \in Nat \ {0} /\ p.size <= MaxPageSize /\ MaxPageSize \in Nat
<1>1. Int32Max \in Nat /\ MaxPageSize \in 1..Int32Max
  BY ListingAssumption
<1>2. p.page \in Nat \ {0} /\ p.size \in 1..MaxPageSize
  BY DEF PageParams
<1>3. QED
  BY <1>1, <1>2

\* A page ends where the next one begins.
LEMMA PagesAreAdjacent ==
  ASSUME NEW p \in PageParams
  PROVE  /\ Skipped(p) \in Nat /\ Through(p) = Skipped(p) + p.size
         /\ [p EXCEPT !.page = @ + 1] \in PageParams
         /\ Skipped([p EXCEPT !.page = @ + 1]) = Through(p)
         /\ p.page = 1 => Skipped(p) = 0
<1>1. p.page \in Nat \ {0} /\ p.size \in Nat \ {0}
  BY PageParamsType
<1>2. Skipped(p) \in Nat
  BY <1>1 DEF Skipped
<1>3. Through(p) = Skipped(p) + p.size
  BY <1>1 DEF Skipped, Through
<1> DEFINE q == [p EXCEPT !.page = @ + 1]
<1>4. q \in PageParams /\ q.page = p.page + 1 /\ q.size = p.size
  BY <1>1 DEF PageParams
<1>5. Skipped(q) = Through(p)
  <2>1. (p.page + 1) - 1 = p.page
    BY <1>1
  <2> HIDE DEF q
  <2>2. QED
    BY <1>4, <2>1 DEF Skipped, Through
<1>6. p.page = 1 => Skipped(p) = 0
  BY <1>1 DEF Skipped
<1>7. QED
  BY <1>2, <1>3, <1>4, <1>5, <1>6

\* An offset is the rows before the page, or saturated where that is more than any
\* table has.
LEMMA OffsetIs ==
  ASSUME NEW p \in PageParams
  PROVE  /\ Offset(p) \in Nat
         /\ Offset(p) # Skipped(p) => Offset(p) >= Cardinality(Rows) /\ Skipped(p) >= Cardinality(Rows)
<1>1. p.page \in Nat \ {0} /\ p.size \in Nat \ {0}
  BY PageParamsType
<1>2. Int32Max \in Nat /\ Cardinality(Rows) \in Nat /\ Cardinality(Rows) <= Int32Max
  BY ListingAssumption, FS_CardinalityType
<1> DEFINE q == Int32Max \div p.size
<1>3. q \in Nat /\ Int32Max < q * p.size + p.size
  BY <1>1, <1>2, QuotientIs
<1> HIDE DEF q
<1>4. CASE p.page - 1 > q
  <2>1. (q + 1) * p.size <= (p.page - 1) * p.size
    BY <1>1, <1>3, <1>4, ProductGrows
  <2>2. (q + 1) * p.size = q * p.size + p.size
    BY <1>1, <1>3
  <2>3. Skipped(p) >= Int32Max
    <3>1. q * p.size \in Int /\ Skipped(p) \in Int /\ Skipped(p) = (p.page - 1) * p.size
      BY <1>1, <1>3 DEF Skipped
    <3>2. QED
      BY <3>1, <1>1, <1>2, <1>3, <2>1, <2>2
  <2>4. Offset(p) = Int32Max
    BY <1>4 DEF Offset, q
  <2>5. Skipped(p) \in Nat
    BY PagesAreAdjacent
  <2>6. QED
    BY <1>2, <2>3, <2>4, <2>5
<1>5. CASE ~(p.page - 1 > q)
  <2>1. Offset(p) = Skipped(p)
    BY <1>5 DEF Offset, Skipped, q
  <2>2. QED
    BY <2>1, PagesAreAdjacent
<1>6. QED
  BY <1>4, <1>5

\* There is a next page exactly when there are rows after this one.
LEMMA HasNextPageIs ==
  ASSUME NEW p \in PageParams, NEW count \in Nat
  PROVE  HasNextPage(count, p) <=> count > Through(p)
<1>1. p.page \in Nat \ {0} /\ p.size \in Nat \ {0}
  BY PageParamsType
<1> DEFINE q == TotalPages(count, p)
<1>2. q \in Nat /\ q * p.size <= count + p.size - 1 /\ count + p.size - 1 < q * p.size + p.size
  <2>1. count + p.size - 1 \in Nat
    BY <1>1
  <2>2. QED
    BY <1>1, <2>1, QuotientIs DEF TotalPages
<1> HIDE DEF q
<1>3. Through(p) \in Nat /\ Through(p) = p.page * p.size
  BY <1>1 DEF Through
<1>4. ASSUME p.page < q
      PROVE  count > Through(p)
  <2>1. (p.page + 1) * p.size <= q * p.size
    BY <1>1, <1>2, <1>4, ProductGrows
  <2>2. (p.page + 1) * p.size = p.page * p.size + p.size
    BY <1>1
  <2>3. q * p.size \in Int
    BY <1>1, <1>2
  <2>4. QED
    BY <1>1, <1>2, <1>3, <2>1, <2>2, <2>3
<1>5. ASSUME ~(p.page < q)
      PROVE  count <= Through(p)
  <2>1. q * p.size <= p.page * p.size
    BY <1>1, <1>2, <1>5, ProductGrows
  <2>2. q * p.size \in Int
    BY <1>1, <1>2
  <2>3. QED
    BY <1>1, <1>2, <1>3, <2>1, <2>2
<1>6. QED
  BY <1>3, <1>4, <1>5 DEF HasNextPage, q

----------------------------------------------------------------------------
(* The order of the rows and their pages.                                  *)

\* The rows that match are rows, and finitely many.
LEMMA MatchingIsFinite ==
  ASSUME NEW q
  PROVE  /\ Matching(q) \in SUBSET Rows
         /\ IsFiniteSet(Matching(q))
         /\ Cardinality(Matching(q)) \in Nat /\ Cardinality(Matching(q)) <= Cardinality(Rows)
<1>1. Matching(q) \in SUBSET Rows
  BY DEF Matching
<1>2. IsFiniteSet(Rows)
  BY ListingAssumption
<1>3. QED
  BY <1>1, <1>2, FS_Subset, FS_CardinalityType

\* ORDER BY created_at DESC, id DESC orders any rows.
LEMMA NewestFirstOrders ==
  ASSUME at \in [Rows -> 0..MaxClock], NEW S \in SUBSET Rows
  PROVE  Orders(NewestFirst, S)
<1>1. \A r \in S : r \in Nat /\ at[r] \in Int
  <2>1. Rows \subseteq Nat
    BY ListingAssumption
  <2>2. MaxClock \in Nat
    BY ListingAssumption
  <2>3. QED
    BY <2>1, <2>2
<1>2. \A a, b \in S : <<a, b>> \in NewestFirst <=> Newer(a, b)
  BY DEF NewestFirst
<1>3. /\ \A a \in S : ~Newer(a, a)
      /\ \A a, b \in S : a = b \/ Newer(a, b) \/ Newer(b, a)
  BY <1>1 DEF Newer
<1>4. \A a, b, c \in S : Newer(a, b) /\ Newer(b, c) => Newer(a, c)
  BY <1>1 DEF Newer
<1>5. QED
  BY <1>2, <1>3, <1>4 DEF Orders

\* Among more rows a place is no smaller.
LEMMA PlaceAmongMore ==
  ASSUME NEW S, NEW T, IsFiniteSet(T), S \subseteq T, NEW before, NEW r
  PROVE  /\ Place(r, S, before) \in Nat /\ Place(r, T, before) \in Nat
         /\ Place(r, S, before) <= Place(r, T, before)
<1> DEFINE A == UpTo(r, S, before)
<1> DEFINE B == UpTo(r, T, before)
<1>1. A \in SUBSET B /\ B \in SUBSET T
  BY DEF UpTo
<1> HIDE DEF A, B
<1>2. IsFiniteSet(B)
  BY <1>1, FS_Subset
<1>3. IsFiniteSet(A) /\ Cardinality(A) <= Cardinality(B)
  BY <1>1, <1>2, FS_Subset
<1>4. Cardinality(A) \in Nat /\ Cardinality(B) \in Nat
  BY <1>2, <1>3, FS_CardinalityType
<1>5. QED
  BY <1>3, <1>4 DEF Place, A, B

\* A place is that of no row past the last one.
LEMMA PlaceOfIs ==
  ASSUME NEW r \in M
  PROVE  PlaceOf(r) \in 1..Cardinality(M)
  BY MatchingIsFinite, PlaceBounds DEF M, PlaceOf

\* The rows of a page: those at the places the page has, in order and once each.
LEMMA PageOfIs ==
  ASSUME at \in [Rows -> 0..MaxClock], params \in PageParams
  PROVE  LET page == PageOf(query, params) IN
         /\ page \in Seq(M)
         /\ Len(page) = Clamp(Cardinality(M) - Skipped(params), 0, params.size)
         /\ Len(page) <= params.size
         /\ \A k \in 1..Len(page) : PlaceOf(page[k]) = Skipped(params) + k
         /\ \A i, j \in 1..Len(page) : i < j => Newer(page[i], page[j])
         /\ \A r \in M : PlaceOf(r) \in (Skipped(params) + 1)..Through(params) => \E k \in 1..Len(page) : page[k] = r
<1> DEFINE n    == Cardinality(M)
<1> DEFINE all  == InOrder(M, NewestFirst)
<1> DEFINE page == PageOf(query, params)
<1> DEFINE skip == Skipped(params)
<1>1. M \in SUBSET Rows /\ IsFiniteSet(M) /\ n \in Nat /\ n <= Cardinality(Rows) /\ Cardinality(Rows) \in Nat
  BY MatchingIsFinite, ListingAssumption, FS_CardinalityType DEF M
<1>2. Orders(NewestFirst, M)
  BY <1>1, NewestFirstOrders
<1>3. /\ Sorted(all, M, NewestFirst)
      /\ \A r \in M : \E k \in 1..n : all[k] = r
      /\ \A k \in 1..n : Place(all[k], M, NewestFirst) = k
  BY <1>1, <1>2, InOrderProperties
<1>4. /\ all \in [1..n -> M] /\ Len(all) = n
      /\ \A i, j \in 1..n : i < j => <<all[i], all[j]>> \in NewestFirst
      /\ \A r \in M : \E k \in 1..n : all[k] = r
      /\ \A k \in 1..n : PlaceOf(all[k]) = k
  <2> HIDE DEF all
  <2>1. all \in [1..n -> M] /\ \A i, j \in 1..n : i < j => <<all[i], all[j]>> \in NewestFirst
    BY <1>3 DEF Sorted
  <2>2. Len(all) = n
    BY <1>1, <2>1
  <2>3. QED
    BY <1>3, <2>1, <2>2 DEF PlaceOf
<1>5. params.size \in Nat \ {0} /\ skip \in Nat /\ Through(params) = skip + params.size
  BY PageParamsType, PagesAreAdjacent
<1>6. Offset(params) \in Nat /\ (Offset(params) # skip => Offset(params) >= n /\ skip >= n)
  <2>1. /\ Offset(params) \in Nat
        /\ Offset(params) # skip => Offset(params) >= Cardinality(Rows) /\ skip >= Cardinality(Rows)
    BY OffsetIs
  <2>2. QED
    BY <1>1, <1>5, <2>1
<1> DEFINE size == params.size
<1> DEFINE off  == Offset(params)
<1> DEFINE len  == Clamp(n - off, 0, size)
<1>7. page = [k \in 1..len |-> all[off + k]]
  BY <1>4 DEF PageOf, M
<1>8. len = Clamp(n - skip, 0, size) /\ len \in 0..size /\ (len # 0 => off = skip /\ off + len <= n)
  <2>1. len = IF n - off < 0 THEN 0 ELSE IF n - off > size THEN size ELSE n - off
    BY <1>1, <1>5, <1>6, ClampIs
  <2>2. Clamp(n - skip, 0, size) = IF n - skip < 0 THEN 0 ELSE IF n - skip > size THEN size ELSE n - skip
    BY <1>1, <1>5, <1>6, ClampIs
  <2> HIDE DEF len, n, off, skip, size
  <2>3. QED
    BY <1>1, <1>5, <1>6, <2>1, <2>2 DEF size, off
<1>9. \A r \in M : PlaceOf(r) \in (skip + 1)..(skip + size) => PlaceOf(r) - skip \in 1..len
  <2>1. ASSUME NEW r \in M, PlaceOf(r) \in (skip + 1)..(skip + size)
        PROVE  PlaceOf(r) - skip \in 1..len
    <3>1. PlaceOf(r) \in 1..n
      BY PlaceOfIs
    <3>2. Clamp(n - skip, 0, size) = IF n - skip < 0 THEN 0 ELSE IF n - skip > size THEN size ELSE n - skip
      BY <1>1, <1>5, ClampIs
    <3> HIDE DEF len, n, off, skip, size
    <3>3. QED
      BY <1>1, <1>5, <1>8, <2>1, <3>1, <3>2 DEF size
  <2>2. QED
    BY <2>1
<1>10. \A r \in M : all[PlaceOf(r)] = r
  <2>1. ASSUME NEW r \in M
        PROVE  all[PlaceOf(r)] = r
    <3>1. PICK k \in 1..n : all[k] = r
      BY <1>4
    <3>2. QED
      BY <1>4, <3>1
  <2>2. QED
    BY <2>1
<1> HIDE DEF len, n, off, skip, size, all, page
<1>11. Len(page) = len /\ \A k \in 1..len : off = skip /\ off + k \in 1..n /\ page[k] = all[off + k]
  BY <1>1, <1>5, <1>6, <1>7, <1>8 DEF off, size
<1>12. page \in Seq(M)
  <2>1. \A k \in 1..len : page[k] \in M
    BY <1>4, <1>11
  <2>2. len \in Nat /\ page \in [1..len -> M]
    BY <1>5, <1>7, <1>8, <2>1 DEF size
  <2>3. QED
    BY <2>2
<1>13. \A k \in 1..len : PlaceOf(page[k]) = skip + k
  BY <1>4, <1>11
<1>14. ASSUME NEW i \in 1..len, NEW j \in 1..len, i < j
       PROVE  Newer(page[i], page[j])
  <2>1. off + i < off + j
    BY <1>6, <1>8, <1>5, <1>14 DEF off
  <2>2. <<page[i], page[j]>> \in NewestFirst
    BY <1>4, <1>11, <2>1
  <2>3. QED
    BY <2>2 DEF NewestFirst
<1>15. ASSUME NEW r \in M, PlaceOf(r) \in (skip + 1)..(skip + size)
       PROVE  \E k \in 1..len : page[k] = r
  <2>1. PlaceOf(r) - skip \in 1..len /\ PlaceOf(r) \in 1..n
    BY <1>9, <1>15, PlaceOfIs DEF n
  <2>2. page[PlaceOf(r) - skip] = all[PlaceOf(r)]
    <3>1. off + (PlaceOf(r) - skip) = PlaceOf(r)
      BY <1>1, <1>5, <1>11, <2>1
    <3>2. QED
      BY <1>11, <2>1, <3>1
  <2>3. QED
    BY <1>10, <2>1, <2>2
<1>16. QED
  BY <1>5, <1>8, <1>11, <1>12, <1>13, <1>14, <1>15 DEF page, skip, n, size, len

----------------------------------------------------------------------------
(* Types.                                                                  *)

\* The parameters a query is parsed to, and those of a walk from the start.
LEMMA ParsedParams ==
  ASSUME NEW raw \in RawParams, NEW p, p = ParseParams(raw)
  PROVE  /\ p \in PageParams
         /\ (raw.page = <<>> \/ raw.page[1] \in (-IntMax - 1)..1 \/ raw.page[1] \notin (-IntMax - 1)..IntMax)
                => p.page = 1
<1>1. raw.page \in Seq(Int) /\ Len(raw.page) <= 1 /\ raw.size \in Seq(Int) /\ Len(raw.size) <= 1
  <2>1. raw.page \in Optional(Int) /\ raw.size \in Optional(Int)
    BY ListingAssumption
  <2>2. QED
    BY <2>1 DEF Optional
<1>2. IntMax \in Nat /\ Int32Max \in Nat /\ DefaultPageSize \in 1..MaxPageSize /\ MaxPageSize \in 1..Int32Max
  BY ListingAssumption
<1>3. DefaultPageSize \in Int /\ MaxPageSize \in Nat /\ 1 <= MaxPageSize
  BY <1>2
<1>4. ASSUME NEW s \in Seq(Int), s # <<>>
      PROVE  s[1] \in Int
  BY <1>4
<1> DEFINE page == Atoi(raw.page, 1)
<1> DEFINE size == Atoi(raw.size, DefaultPageSize)
<1>5. page \in Int /\ size \in Int
  BY <1>1, <1>3, <1>4 DEF Atoi
<1>6. (raw.page = <<>> \/ raw.page[1] \in (-IntMax - 1)..1 \/ raw.page[1] \notin (-IntMax - 1)..IntMax) => page <= 1
  BY <1>2 DEF Atoi
<1> HIDE DEF page, size
<1>7. Max({1, page}) = IF 1 >= page THEN 1 ELSE page
  BY <1>5, MaxMinOfTwo
<1>8. Clamp(size, 1, MaxPageSize) \in 1..MaxPageSize
  BY <1>3, <1>5, ClampIs
<1>9. p = [page |-> Max({1, page}), size |-> Clamp(size, 1, MaxPageSize)]
  BY DEF ParseParams, page, size
<1>10. QED
  BY <1>5, <1>6, <1>7, <1>8, <1>9 DEF PageParams

\* What a step does to the walk, to the types and the stages when it is a write.
LEMMA DisturbType ==
  ASSUME TypeInv, UNCHANGED <<table, reader>>, Disturb
  PROVE  /\ StageOK' /\ shown' \in [Rows -> Nat] /\ stay' \subseteq Rows
         /\ \A b \in {begun, left, entered, moved}' : b \in BOOLEAN
<1> USE DEF TypeInv, TypeOK
<1>1. FromTheStart' = FromTheStart
  BY DEF reader, FromTheStart
<1>2. CASE begun
  <2>1. begun' = begun /\ shown' = shown /\ stay' \subseteq stay
    BY <1>2 DEF Disturb
  <2>2. left' \in BOOLEAN /\ entered' \in BOOLEAN /\ moved' \in BOOLEAN
    BY <1>2 DEF Disturb
  <2>3. StageOK'
    BY <1>1, <1>2, <2>1 DEF StageOK, reader
  <2>4. QED
    BY <2>1, <2>2, <2>3
<1>3. CASE ~begun
  <2>1. UNCHANGED walk
    BY <1>3 DEF Disturb
  <2>2. StageOK'
    BY <1>1, <2>1 DEF StageOK, reader, walk
  <2>3. QED
    BY <2>1, <2>2 DEF walk
<1>4. QED
  BY <1>2, <1>3

\* A query that asks for nothing is one.
LEMMA NoQueryType ==
  NoQuery \in Queries
<1>1. <<>> \in Seq(Int) /\ Len(<<>>) <= 1 /\ 0 \in Int
  OBVIOUS
<1>2. <<>> \in Optional(Int)
  BY <1>1 DEF Optional
<1>3. QED
  BY <1>1, <1>2 DEF NoQuery, Queries

\* The initial states have their types.
LEMMA TypeInit ==
  Init => TypeInv
<1> SUFFICES ASSUME Init
             PROVE  TypeInv
  OBVIOUS
<1>1. query \in Queries
  BY NoQueryType DEF Init
<1>2. params \in [page : Nat \ {0}, size : 1..MaxPageSize]
  <2>1. Int32Max \in Nat /\ MaxPageSize \in 1..Int32Max
    BY ListingAssumption
  <2>2. QED
    BY <2>1 DEF Init
<1>3. Cardinality(Rows) \in Nat /\ MaxClock \in Nat \ {0}
  BY ListingAssumption, FS_CardinalityType
<1>4. docs = <<>> /\ Len(docs) = 0 /\ Range(docs) = {}
  BY DEF Init, Range
<1>5. TypeOK
  <2>1. state \in [Rows -> {"none", "begun", "active", "removed"}]
    BY DEF Init
  <2>2. Len(docs) <= params.size
    BY <1>2, <1>4 DEF Init
  <2>3. at \in [Rows -> 0..MaxClock] /\ clock \in 1..MaxClock /\ total \in 0..Cardinality(Rows)
    BY <1>3 DEF Init
  <2>4. read \in [Rows -> BOOLEAN] /\ shown \in [Rows -> Nat]
    BY DEF Init
  <2>5. \A b \in {begun, left, entered, moved} : b \in BOOLEAN
    BY DEF Init
  <2>6. info \in [Rows -> Contents]
    BY DEF Init, Contents
  <2>7. QED
    BY <1>1, <1>2, <1>4, <2>1, <2>2, <2>3, <2>4, <2>5, <2>6 DEF Init, TypeOK
<1>6. StageOK
  BY DEF Init, StageOK
<1>7. QED
  BY <1>5, <1>6 DEF TypeInv

\* The four listings ask for what their filters hold.
LEMMA RequestType ==
  ASSUME TypeInv, NEW raw \in RawParams, NEW asked \in Queries, table # "suggestions", Request(raw, asked)
  PROVE  TypeInv'
<1>1. params' \in PageParams /\ (FromTheStart' => params'.page = 1)
  <2>1. params' = ParseParams(raw) /\ query'.page = raw.page
    BY DEF Request, Queries
  <2>2. QED
    BY <2>1, ParsedParams DEF FromTheStart
<1>2. query' \in Queries
  <2>1. raw.page \in Optional(Int)
    BY ListingAssumption
  <2>2. QED
    BY <2>1 DEF Request, Queries
<1>3. TypeOK'
  <2>1. Len(docs) <= params'.size
    <3>1. docs = <<>> /\ Len(<<>>) = 0
      BY DEF TypeInv, StageOK, Request
    <3>2. QED
      BY <1>1, <3>1, PageParamsType
  <2>2. QED
    BY <1>1, <1>2, <2>1 DEF TypeInv, TypeOK, Request, rowVars, walk, PageParams
<1>4. StageOK'
  BY <1>1 DEF TypeInv, TypeOK, StageOK, Request, walk
<1>5. QED
  BY <1>3, <1>4 DEF TypeInv

\* A statement that fails leaves the request as it was at the start.
LEMMA FailureType ==
  ASSUME TypeInv, StatementFails
  PROVE  TypeInv' /\ ~begun' /\ shown' = [r \in Rows |-> 0]
<1>1. UNCHANGED <<table, rowVars>> /\ stage' = "idle" /\ ~begun' /\ shown' = [r \in Rows |-> 0]
      /\ docs' = <<>> /\ params' = [page |-> 1, size |-> 1]
  BY DEF StatementFails
<1>2. query' \in Queries
  BY NoQueryType DEF StatementFails
<1>3. params' \in [page : Nat \ {0}, size : 1..MaxPageSize]
  <2>1. Int32Max \in Nat /\ MaxPageSize \in 1..Int32Max
    BY ListingAssumption
  <2>2. QED
    BY <1>1, <2>1
<1>4. total' \in 0..Cardinality(Rows)
  <2>1. Cardinality(Rows) \in Nat
    BY ListingAssumption, FS_CardinalityType
  <2>2. QED
    BY <2>1 DEF StatementFails
<1>5. Len(docs') <= params'.size /\ Range(docs') = {}
  BY <1>1 DEF Range
<1>6. TypeOK'
  <2>1. /\ shown' \in [Rows -> Nat] /\ stay' \subseteq Rows
        /\ \A b \in {begun', left', entered', moved'} : b \in BOOLEAN
    BY DEF StatementFails
  <2>2. TypeOK /\ UNCHANGED <<table, state, info, at, read, clock>>
    BY <1>1 DEF TypeInv, rowVars
  <2>3. QED
    BY <1>1, <1>2, <1>3, <1>4, <1>5, <2>1, <2>2 DEF TypeOK
<1>7. StageOK'
  BY <1>1 DEF StageOK, StatementFails
<1>8. QED
  BY <1>1, <1>6, <1>7 DEF TypeInv

\* Every step keeps the types.
LEMMA TypeStep ==
  TypeInv /\ [Next]_vars => TypeInv'
<1> SUFFICES ASSUME TypeInv, [Next]_vars
             PROVE  TypeInv'
  OBVIOUS
<1> USE DEF TypeInv
<1>1. ASSUME NEW raw \in RawParams, NEW f \in RawFilters,
             ListArticles(raw, f) \/ ListSources(raw, f) \/ ListFeeds(raw, f) \/ FeedArticles(raw, f)
      PROVE  TypeInv'
  <2>1. NoQuery \in Queries
    BY NoQueryType
  <2>2. f.isRead \in {"", "true", "false"} /\ f.from \in Optional(Int) /\ f.to \in Optional(Int)
    BY ListingAssumption
  <2>3. /\ [NoQuery EXCEPT !.url = f.url] \in Queries
        /\ [NoQuery EXCEPT !.url = f.url, !.name = f.name] \in Queries
        /\ [NoQuery EXCEPT !.name = f.name] \in Queries
        /\ [NoQuery EXCEPT !.isRead = f.isRead, !.from = f.from, !.to = f.to] \in Queries
    BY <2>1, <2>2 DEF Queries
  <2>4. QED
    BY <1>1, <2>3, RequestType DEF ListArticles, ListSources, ListFeeds, FeedArticles
<1>2. CASE PageStatement
  <2>1. /\ at \in [Rows -> 0..MaxClock] /\ params \in PageParams /\ table # "suggestions"
    BY <1>2 DEF TypeOK, StageOK, PageStatement, PageParams
  <2>2. docs' \in Seq(M) /\ Len(docs') <= params.size
    BY <1>2, <2>1, PageOfIs DEF PageStatement
  <2>3. Range(docs') \subseteq Rows /\ IsFiniteSet(DOMAIN docs')
    <3>1. M \subseteq Rows
      BY MatchingIsFinite DEF M
    <3>2. Len(docs') \in Nat /\ DOMAIN docs' = 1..Len(docs')
      BY <2>2
    <3>3. IsFiniteSet(1..Len(docs'))
      BY <3>2, FS_Interval
    <3>4. QED
      BY <2>2, <3>1, <3>2, <3>3 DEF Range
  <2>4. shown' \in [Rows -> Nat]
    <3>1. ASSUME NEW r \in Rows
          PROVE  shown[r] + Cardinality({k \in DOMAIN docs' : docs'[k] = r}) \in Nat
      <4>1. IsFiniteSet({k \in DOMAIN docs' : docs'[k] = r})
        BY <2>3, FS_Subset
      <4>2. QED
        BY <4>1, FS_CardinalityType DEF TypeOK
    <3>2. QED
      BY <1>2, <3>1 DEF PageStatement
  <2>5. stay' \subseteq Rows
    BY <1>2, MatchingIsFinite DEF PageStatement, TypeOK
  <2>6. TypeOK'
    BY <1>2, <2>1, <2>2, <2>3, <2>4, <2>5 DEF PageStatement, TypeOK, rowVars
  <2>7. StageOK'
    BY <1>2, <2>1 DEF PageStatement, StageOK
  <2>8. QED
    BY <2>6, <2>7
<1>3. CASE CountStatement
  <2>1. total' \in 0..Cardinality(Rows)
    BY <1>3, MatchingIsFinite DEF CountStatement
  <2>2. TypeOK'
    BY <1>3, <2>1 DEF CountStatement, TypeOK, rowVars, walk
  <2>3. StageOK'
    BY <1>3 DEF CountStatement, StageOK, walk
  <2>4. QED
    BY <2>2, <2>3
<1>4. CASE NextPage
  <2>1. params' \in PageParams /\ params'.size = params.size
    <3>1. params \in PageParams
      BY DEF TypeOK, PageParams
    <3>2. QED
      BY <1>4, <3>1, PagesAreAdjacent DEF NextPage, PageParams
  <2>2. TypeOK'
    BY <1>4, <2>1 DEF NextPage, TypeOK, rowVars, walk, PageParams
  <2>3. StageOK'
    BY <1>4 DEF NextPage, StageOK, walk
  <2>4. QED
    BY <2>2, <2>3
<1>5. ASSUME NEW picks \in RawPicks, AskSuggestions(picks)
      PROVE  TypeInv'
  <2>1. query' \in Queries
    <3>1. NoQuery \in Queries
      BY NoQueryType
    <3>2. picks \ {0} \in SUBSET Nat
      BY ListingAssumption
    <3>3. Since(clock) \in Int
      <4>1. Window \in Int /\ MaxClock \in Nat
        BY ListingAssumption
      <4>2. clock \in 1..MaxClock
        BY DEF TypeOK
      <4>3. QED
        BY <4>1, <4>2 DEF Since
    <3>4. QED
      BY <1>5, <3>1, <3>2, <3>3 DEF AskSuggestions, Queries
  <2>2. TypeOK'
    BY <1>5, <2>1 DEF AskSuggestions, TypeOK, rowVars, walk
  <2>3. StageOK'
    BY <1>5 DEF AskSuggestions, StageOK, walk
  <2>4. QED
    BY <2>2, <2>3
<1>6. CASE RelatedStatement \/ PopularStatement
  <2>1. table = "suggestions"
    BY <1>6 DEF RelatedStatement, PopularStatement, StageOK
  <2>2. TypeOK'
    BY <1>6, <2>1 DEF RelatedStatement, PopularStatement, TypeOK, rowVars, walk
  <2>3. StageOK'
    BY <1>6, <2>1 DEF RelatedStatement, PopularStatement, StageOK, rowVars, walk
  <2>4. QED
    BY <2>2, <2>3
<1>7. ASSUME NEW r \in Rows, Begin(r)
      PROVE  TypeInv'
  <2>1. FromTheStart' = FromTheStart
    BY <1>7 DEF Begin, reader, FromTheStart
  <2>2. at' \in [Rows -> 0..MaxClock]
    <3>1. MaxClock \in Nat
      BY ListingAssumption
    <3>2. clock \in 0..MaxClock
      BY <3>1 DEF TypeOK
    <3>3. QED
      BY <1>7, <3>2 DEF Begin, TypeOK
  <2>3. TypeOK'
    BY <1>7, <2>2 DEF Begin, TypeOK, reader, walk
  <2>4. StageOK'
    BY <1>7, <2>1 DEF Begin, StageOK, reader, walk
  <2>5. QED
    BY <2>3, <2>4
<1>8. ASSUME NEW r \in Rows, Commit(r) \/ SoftDelete(r) \/ MarkRead(r) \/ Update(r)
      PROVE  TypeInv'
  <2>1. UNCHANGED <<table, reader>> /\ Disturb
    BY <1>8 DEF Commit, SoftDelete, MarkRead, Update
  <2>2. /\ state' \in [Rows -> {"none", "begun", "active", "removed"}]
        /\ info' \in [Rows -> Contents]
        /\ read' \in [Rows -> BOOLEAN] /\ at' = at /\ clock' = clock
    <3>1. CASE Update(r)
      <4>1. PICK i \in Edits[r] : info' = [info EXCEPT ![r] = i]
        BY <3>1 DEF Update
      <4>2. i \in Contents
        BY DEF Contents
      <4>3. QED
        BY <3>1, <4>1, <4>2 DEF Update, TypeOK
    <3>2. CASE ~Update(r)
      BY <1>8, <3>2 DEF Commit, SoftDelete, MarkRead, TypeOK
    <3>3. QED
      BY <3>1, <3>2
  <2>3. /\ StageOK' /\ shown' \in [Rows -> Nat] /\ stay' \subseteq Rows
        /\ \A b \in {begun, left, entered, moved}' : b \in BOOLEAN
    BY <2>1, DisturbType
  <2>4. TypeOK'
    BY <2>1, <2>2, <2>3 DEF TypeOK, reader
  <2>5. QED
    BY <2>3, <2>4
<1>9. CASE Tick
  <2>1. FromTheStart' = FromTheStart
    BY <1>9 DEF Tick, reader, FromTheStart
  <2>2. clock' \in 1..MaxClock
    <3>1. MaxClock \in Nat
      BY ListingAssumption
    <3>2. QED
      BY <1>9, <3>1 DEF Tick, TypeOK
  <2>3. TypeOK'
    BY <1>9, <2>2 DEF Tick, TypeOK, reader, walk
  <2>4. StageOK'
    BY <1>9, <2>1 DEF Tick, StageOK, reader, walk
  <2>5. QED
    BY <2>3, <2>4
<1>10. CASE UNCHANGED vars
  <2>1. FromTheStart' = FromTheStart
    BY <1>10 DEF vars, reader, FromTheStart
  <2>2. QED
    BY <1>10, <2>1 DEF vars, rowVars, reader, walk, TypeOK, StageOK
<1>11. CASE StatementFails
  BY <1>11, FailureType
<1>12. QED
  BY <1>1, <1>2, <1>3, <1>4, <1>5, <1>6, <1>7, <1>8, <1>9, <1>10, <1>11 DEF Next

\* Every variable holds a value of its type, and no page is longer than it may be.
THEOREM TypeCorrect == Spec => []TypeOK
<1>1. Init => TypeInv
  BY TypeInit
<1>2. TypeInv /\ [Next]_vars => TypeInv'
  BY TypeStep
<1>3. TypeInv => TypeOK
  BY DEF TypeInv
<1>4. QED
  BY <1>1, <1>2, <1>3, PTL DEF Spec

----------------------------------------------------------------------------
(* The walk.                                                               *)

WalkInv == ShownOnceOK /\ NothingSkippedOK /\ PageFitsOK

\* The rows that match after a step.
LEMMA MatchingIsFiniteNext ==
  M' \in SUBSET Rows /\ IsFiniteSet(M')
<1>1. M' \in SUBSET Rows
  BY DEF M, Matching
<1>2. IsFiniteSet(Rows)
  BY ListingAssumption
<1>3. QED
  BY <1>1, <1>2, FS_Subset

\* What the invariant is about has its types.
LEMMA WalkTypes ==
  ASSUME TypeInv
  PROVE  /\ params \in PageParams /\ params.size \in Nat \ {0}
         /\ Skipped(params) \in Nat /\ Through(params) = Skipped(params) + params.size /\ Covered \in Nat
         /\ at \in [Rows -> 0..MaxClock] /\ shown \in [Rows -> Nat] /\ stay \subseteq Rows
         /\ total \in Nat
         /\ \A r \in M : PlaceOf(r) \in Nat
<1>1. params \in PageParams
  BY DEF TypeInv, TypeOK, PageParams
<1>2. params.size \in Nat \ {0} /\ Skipped(params) \in Nat /\ Through(params) = Skipped(params) + params.size
  BY <1>1, PageParamsType, PagesAreAdjacent
<1>3. Covered \in Nat
  BY <1>2 DEF Covered
<1>4. total \in Nat
  <2>1. Cardinality(Rows) \in Nat
    BY ListingAssumption, FS_CardinalityType
  <2>2. QED
    BY <2>1 DEF TypeInv, TypeOK
<1>5. \A r \in M : PlaceOf(r) \in Nat
  BY PlaceOfIs
<1>6. QED
  BY <1>1, <1>2, <1>3, <1>4, <1>5 DEF TypeInv, TypeOK

\* Before the walk begins the invariant says nothing.
LEMMA BeforeTheWalk ==
  ASSUME TypeInv, ~begun, UNCHANGED walk
  PROVE  WalkInv'
<1>1. shown' = [r \in Rows |-> 0] /\ ~begun'
  BY DEF TypeInv, StageOK, walk
<1>2. QED
  BY <1>1 DEF WalkInv, ShownOnceOK, NothingSkippedOK, PageFitsOK

\* Nor does a step change it that leaves the matching rows and their places alone.
LEMMA SameMatches ==
  ASSUME WalkInv, UNCHANGED <<table, reader, walk>>, M' = M, \A r \in M : PlaceOf(r)' = PlaceOf(r)
  PROVE  WalkInv'
<1>1. FromTheStart' = FromTheStart /\ WalkEnded' = WalkEnded
  BY DEF reader, FromTheStart, WalkEnded, HasNextPage, TotalPages
<1>2. Covered' = Covered /\ Skipped(params)' = Skipped(params)
  BY DEF reader, Covered, Skipped, Through
<1>3. ShownOnceOK'
  BY <1>2 DEF WalkInv, ShownOnceOK, walk
<1>4. NothingSkippedOK'
  BY <1>1, <1>2 DEF WalkInv, NothingSkippedOK, walk
<1>5. PageFitsOK'
  BY <1>2 DEF WalkInv, PageFitsOK, walk, reader
<1>6. QED
  BY <1>3, <1>4, <1>5 DEF WalkInv

\* The order stays when no time of creation changes.
LEMMA SameOrder ==
  ASSUME at' = at
  PROVE  NewestFirst' = NewestFirst
  BY DEF NewestFirst, Newer

\* A write of another makes rows come, go or neither.
LEMMA DisturbKeepsWalk ==
  ASSUME TypeInv, WalkInv, UNCHANGED <<table, at, reader>>, Disturb
  PROVE  WalkInv'
<1>1. CASE ~begun
  BY <1>1, BeforeTheWalk DEF Disturb
<1>2. CASE begun
  <2>1. /\ stay' = stay \cap M' /\ left' = (left \/ M \ M' # {}) /\ entered' = (entered \/ M' \ M # {})
        /\ moved' = (moved \/ M # M') /\ begun' = begun /\ shown' = shown
    BY <1>2 DEF Disturb, M
  <2>2. FromTheStart' = FromTheStart /\ WalkEnded' = WalkEnded
    BY DEF reader, FromTheStart, WalkEnded, HasNextPage, TotalPages
  <2>3. Covered' = Covered /\ Covered \in Nat /\ Skipped(params)' = Skipped(params)
    BY WalkTypes DEF reader, Covered, Skipped, Through
  <2>4. \A r : PlaceOf(r)' = Place(r, M', NewestFirst)
    BY SameOrder DEF PlaceOf
  <2>5. IsFiniteSet(M) /\ IsFiniteSet(M') /\ M' \subseteq Rows
    BY MatchingIsFinite, MatchingIsFiniteNext DEF M
  <2>6. ShownOnceOK'
    <3>1. SUFFICES ASSUME ~entered', NEW r \in Rows
                   PROVE  shown'[r] <= 1 /\ (r \in M' /\ shown'[r] > 0 => PlaceOf(r)' <= Covered')
      BY DEF ShownOnceOK
    <3>2. ~entered /\ M' \subseteq M
      BY <2>1, <3>1
    <3>3. Place(r, M', NewestFirst) \in Nat /\ PlaceOf(r) \in Nat /\ Place(r, M', NewestFirst) <= PlaceOf(r)
      BY <2>5, <3>2, PlaceAmongMore DEF PlaceOf
    <3>4. shown[r] <= 1 /\ (r \in M /\ shown[r] > 0 => PlaceOf(r) <= Covered)
      BY <1>2, <3>2 DEF WalkInv, ShownOnceOK
    <3>5. shown[r] <= 1 /\ (r \in M' /\ shown[r] > 0 => Place(r, M', NewestFirst) <= Covered)
      BY <2>3, <3>2, <3>3, <3>4
    <3>6. QED
      BY <2>1, <2>3, <2>4, <3>5
  <2>7. NothingSkippedOK'
    <3>1. SUFFICES ASSUME begun', FromTheStart', ~left'
                   PROVE  /\ stay' \subseteq M'
                          /\ \A r \in stay' : shown'[r] = 0 => PlaceOf(r)' > Covered'
                          /\ WalkEnded' => \A r \in stay' : shown'[r] > 0
      BY DEF NothingSkippedOK
    <3>2. ~left /\ M \subseteq M' /\ FromTheStart
      BY <2>1, <2>2, <3>1
    <3>3. /\ stay \subseteq M
          /\ \A r \in stay : shown[r] = 0 => PlaceOf(r) > Covered
          /\ WalkEnded => \A r \in stay : shown[r] > 0
      BY <1>2, <3>2 DEF WalkInv, NothingSkippedOK
    <3>4. ASSUME NEW r \in stay', shown'[r] = 0
          PROVE  PlaceOf(r)' > Covered'
      <4>1. Place(r, M', NewestFirst) \in Nat /\ PlaceOf(r) \in Nat /\ PlaceOf(r) <= Place(r, M', NewestFirst)
        BY <2>5, <3>2, PlaceAmongMore DEF PlaceOf
      <4>2. PlaceOf(r) > Covered
        BY <2>1, <3>3, <3>4
      <4>3. Place(r, M', NewestFirst) > Covered
        BY <2>3, <4>1, <4>2
      <4>4. QED
        BY <2>3, <2>4, <4>3
    <3>5. QED
      BY <2>1, <2>2, <3>3, <3>4
  <2>8. PageFitsOK'
    <3>1. SUFFICES ASSUME begun', ~moved', stage' \in {"count", "answered"}
                   PROVE  PageFitsOK'
      BY DEF PageFitsOK
    <3>2. ~moved /\ M' = M
      BY <2>1, <3>1
    <3>3. QED
      BY <1>2, <2>3, <3>1, <3>2 DEF WalkInv, PageFitsOK, reader
  <2>9. QED
    BY <2>6, <2>7, <2>8 DEF WalkInv
<1>3. QED
  BY <1>1, <1>2

\* A row that is not seen yet is not in the way: its transaction begins.
LEMMA BeginKeepsWalk ==
  ASSUME TypeInv, WalkInv, NEW new \in Rows, Begin(new)
  PROVE  WalkInv'
<1>1. CASE ~begun
  BY <1>1, BeforeTheWalk DEF Begin
<1>2. CASE begun
  <2>1. table \in {"articles", "sources", "feeds", "feedArticles"}
    BY <1>2, ListingAssumption DEF TypeInv, TypeOK, StageOK
  <2>2. ASSUME NEW r \in Rows, r # new
        PROVE  /\ state'[r] = state[r] /\ at'[r] = at[r] /\ (Passes(r, query)' <=> Passes(r, query))
    <3>1. state'[r] = state[r] /\ at'[r] = at[r] /\ read' = read /\ info' = info /\ table' = table /\ query' = query
      BY <2>2 DEF Begin, reader, TypeInv, TypeOK
    <3>2. FeedArticlePasses(r, query)' <=> FeedArticlePasses(r, query)
      BY <3>1 DEF FeedArticlePasses, Nullable, Flag
    <3>3. /\ ArticlePasses(r, query)' <=> ArticlePasses(r, query)
          /\ SourcePasses(r, query)' <=> SourcePasses(r, query)
          /\ FeedPasses(r, query)' <=> FeedPasses(r, query)
      BY <3>1 DEF ArticlePasses, SourcePasses, FeedPasses, Nullable
    <3>4. QED
      BY <2>1, <3>1, <3>2, <3>3 DEF Passes
  <2>3. state[new] # "active" /\ state'[new] # "active"
    BY DEF Begin, TypeInv, TypeOK
  <2>4. M' = M
    BY <2>2, <2>3 DEF M, Matching
  <2>5. \A r \in M : r \in Rows /\ r # new /\ at'[r] = at[r]
    BY <2>2, <2>3 DEF M, Matching
  <2>6. ASSUME NEW r \in M
        PROVE  PlaceOf(r)' = PlaceOf(r)
    <3>1. ASSUME NEW o \in M
          PROVE  <<o, r>> \in NewestFirst' <=> <<o, r>> \in NewestFirst
      BY <2>5, <2>6 DEF NewestFirst, Newer
    <3>2. UpTo(r, M', NewestFirst') = UpTo(r, M, NewestFirst)
      BY <2>4, <3>1 DEF UpTo
    <3>3. QED
      BY <3>2 DEF PlaceOf, Place
  <2>7. QED
    BY <2>4, <2>6, SameMatches DEF Begin
<1>3. QED
  BY <1>1, <1>2

\* The first statement shows the rows of its page once.
LEMMA PageKeepsWalk ==
  ASSUME TypeInv, WalkInv, PageStatement
  PROVE  WalkInv'
<1> DEFINE skip == Skipped(params)
<1> DEFINE size == params.size
<1> DEFINE page == docs'
<1> DEFINE On(r) == \E k \in 1..Len(page) : page[k] = r
<1>1. /\ params \in PageParams /\ size \in Nat \ {0} /\ skip \in Nat /\ Through(params) = skip + size
      /\ at \in [Rows -> 0..MaxClock] /\ shown \in [Rows -> Nat]
      /\ \A r \in M : PlaceOf(r) \in Nat
  BY WalkTypes
<1>2. /\ page \in Seq(M) /\ Len(page) \in Nat /\ DOMAIN page = 1..Len(page)
      /\ Len(page) = Clamp(Cardinality(M) - skip, 0, size) /\ Len(page) <= size
      /\ \A k \in 1..Len(page) : PlaceOf(page[k]) = skip + k
      /\ \A r \in M : PlaceOf(r) \in (skip + 1)..(skip + size) => On(r)
  <2>1. page = PageOf(query, params)
    BY DEF PageStatement
  <2> HIDE DEF page
  <2>2. page \in Seq(M) => Len(page) \in Nat /\ DOMAIN page = 1..Len(page)
    OBVIOUS
  <2>3. QED
    BY <1>1, <2>1, <2>2, PageOfIs
<1>3. \A r \in Rows : shown'[r] = IF On(r) THEN shown[r] + 1 ELSE shown[r]
  <2>1. ASSUME NEW r \in Rows
        PROVE  Cardinality({k \in DOMAIN page : page[k] = r}) = IF On(r) THEN 1 ELSE 0
    <3> HIDE DEF page
    <3>1. CASE On(r)
      <4>1. PICK k \in 1..Len(page) : page[k] = r
        BY <3>1
      <4>2. \A j \in 1..Len(page) : page[j] = r => j = k
        BY <1>1, <1>2, <4>1
      <4>3. {j \in DOMAIN page : page[j] = r} = {k}
        BY <1>2, <4>1, <4>2
      <4>4. QED
        BY <3>1, <4>3, FS_Singleton
    <3>2. CASE ~On(r)
      <4>1. {j \in DOMAIN page : page[j] = r} = {}
        BY <1>2, <3>2
      <4>2. QED
        BY <3>2, <4>1, FS_EmptySet
    <3>3. QED
      BY <3>1, <3>2
  <2>2. \A r \in Rows : shown'[r] = shown[r] + Cardinality({k \in DOMAIN page : page[k] = r})
    BY DEF PageStatement
  <2> HIDE DEF page, On
  <2>3. ASSUME NEW r \in Rows
        PROVE  shown'[r] = IF On(r) THEN shown[r] + 1 ELSE shown[r]
    <3>1. shown[r] \in Nat /\ shown'[r] = shown[r] + (IF On(r) THEN 1 ELSE 0)
      BY <1>1, <2>1, <2>2
    <3>2. QED
      BY <3>1
  <2>4. QED
    BY <2>3
<1>4. /\ M' = M /\ Covered = skip /\ Covered' = skip + size /\ FromTheStart' = FromTheStart
      /\ Skipped(params)' = skip /\ params' = params /\ ~WalkEnded' /\ stage' = "count" /\ begun' /\ table # "suggestions"
  <2>1. /\ UNCHANGED <<table, state, info, at, read, query, params>> /\ stage = "page" /\ stage' = "count" /\ begun'
        /\ table # "suggestions"
    BY DEF PageStatement, rowVars, TypeInv, StageOK
  <2>2. M' = M
    <3>1. \A r \in Rows : Passes(r, query)' <=> Passes(r, query)
      BY <2>1 DEF Passes, ArticlePasses, SourcePasses, FeedPasses, FeedArticlePasses, Nullable, Flag
    <3>2. QED
      BY <2>1, <3>1 DEF M, Matching
  <2>3. Covered = skip /\ Covered' = skip + size /\ Skipped(params)' = skip
    BY <1>1, <2>1 DEF Covered, Skipped, Through
  <2>4. FromTheStart' = FromTheStart
    BY <2>1 DEF FromTheStart
  <2>5. QED
    BY <2>1, <2>2, <2>3, <2>4 DEF WalkEnded
<1>5. \A r : PlaceOf(r)' = PlaceOf(r)
  BY <1>4, SameOrder DEF PlaceOf, PageStatement, rowVars
<1>6. ~begun => \A r \in Rows : shown[r] = 0
  BY DEF TypeInv, StageOK
<1>7. \A r \in Rows : On(r) => r \in M /\ PlaceOf(r) > skip /\ PlaceOf(r) <= skip + size
  <2> HIDE DEF page
  <2>1. ASSUME NEW k \in 1..Len(page)
        PROVE  page[k] \in M /\ PlaceOf(page[k]) > skip /\ PlaceOf(page[k]) <= skip + size
    BY <1>1, <1>2, <2>1
  <2>2. QED
    BY <2>1
<1> HIDE DEF skip, size, page, On
<1>8. ShownOnceOK'
  <2>1. SUFFICES ASSUME ~entered', NEW r \in Rows
                 PROVE  shown'[r] <= 1 /\ (r \in M /\ shown'[r] > 0 => PlaceOf(r) <= skip + size)
    BY <1>4, <1>5 DEF ShownOnceOK
  <2>2. shown[r] <= 1 /\ (begun /\ r \in M /\ shown[r] > 0 => PlaceOf(r) <= skip)
    BY <1>4, <2>1 DEF WalkInv, ShownOnceOK, PageStatement
  <2>3. CASE On(r)
    <3>1. shown[r] = 0
      BY <1>1, <1>6, <1>7, <2>2, <2>3 DEF skip
    <3>2. QED
      BY <1>3, <1>7, <2>3, <3>1
  <2>4. CASE ~On(r)
    <3>1. shown'[r] = shown[r]
      BY <1>3, <2>4
    <3>2. r \in M /\ shown[r] > 0 => PlaceOf(r) <= skip
      BY <1>1, <1>6, <2>2
    <3>3. QED
      BY <1>1, <2>2, <3>1, <3>2 DEF skip, size
  <2>5. QED
    BY <2>3, <2>4
<1>9. NothingSkippedOK'
  <2>1. SUFFICES ASSUME FromTheStart, ~left
                 PROVE  /\ stay' \subseteq M
                        /\ \A r \in stay' : shown'[r] = 0 => PlaceOf(r) > skip + size
    BY <1>4, <1>5 DEF NothingSkippedOK, PageStatement
  <2>2. stay' \subseteq M /\ \A r \in stay' : shown[r] = 0 => PlaceOf(r) > skip
    <3>1. CASE begun
      BY <1>4, <2>1, <3>1 DEF WalkInv, NothingSkippedOK, PageStatement
    <3>2. CASE ~begun
      <4>1. stay' = M
        BY <3>2 DEF PageStatement, M
      <4>2. params.page = 1
        BY <2>1, <3>2 DEF TypeInv, StageOK, PageStatement
      <4>3. skip = 0
        BY <1>1, <4>2, PagesAreAdjacent DEF skip
      <4>4. \A r \in M : PlaceOf(r) > 0
        BY PlaceOfIs
      <4>5. QED
        BY <4>1, <4>3, <4>4
    <3>3. QED
      BY <3>1, <3>2
  <2>3. ASSUME NEW r \in stay', shown'[r] = 0
        PROVE  PlaceOf(r) > skip + size
    <3>1. r \in Rows /\ r \in M
      BY <2>2, MatchingIsFinite DEF M
    <3>2. ~On(r) /\ shown[r] = 0
      BY <1>1, <1>3, <2>3, <3>1
    <3>3. PlaceOf(r) > skip /\ PlaceOf(r) \in Nat /\ PlaceOf(r) \notin (skip + 1)..(skip + size)
      BY <1>1, <1>2, <2>2, <3>1, <3>2
    <3>4. QED
      BY <1>1, <3>3 DEF skip, size
  <2>4. QED
    BY <2>2, <2>3
<1>10. PageFitsOK'
  BY <1>2, <1>4 DEF PageFitsOK, page, size
<1>11. QED
  BY <1>8, <1>9, <1>10 DEF WalkInv

\* The second statement counts the rows that match, so a walk that ends here has seen
\* every place.
LEMMA CountKeepsWalk ==
  ASSUME TypeInv, WalkInv, CountStatement
  PROVE  WalkInv'
<1>1. /\ UNCHANGED <<table, rowVars, query, params, docs, walk>>
      /\ stage = "count" /\ stage' = "answered" /\ total' = Cardinality(M)
  BY DEF CountStatement, M
<1>2. M' = M
  <2>1. \A r \in Rows : Passes(r, query)' <=> Passes(r, query)
    BY <1>1 DEF Passes, ArticlePasses, SourcePasses, FeedPasses, FeedArticlePasses, Nullable, Flag, rowVars
  <2>2. QED
    BY <1>1, <2>1 DEF M, Matching, rowVars
<1>3. \A r : PlaceOf(r)' = PlaceOf(r)
  BY <1>1, <1>2, SameOrder DEF PlaceOf, rowVars
<1>4. Covered' = Covered /\ Covered = Through(params) /\ Skipped(params)' = Skipped(params)
  BY <1>1 DEF Covered, Through, Skipped
<1>5. FromTheStart' = FromTheStart
  BY <1>1 DEF FromTheStart
<1>6. params \in PageParams /\ Through(params) \in Nat /\ Cardinality(M) \in Nat /\ shown \in [Rows -> Nat]
  BY WalkTypes, PagesAreAdjacent, MatchingIsFinite, <1>4 DEF M
<1>7. ShownOnceOK'
  BY <1>1, <1>2, <1>3, <1>4 DEF WalkInv, ShownOnceOK, walk
<1>8. NothingSkippedOK'
  <2>1. SUFFICES ASSUME begun, FromTheStart, ~left
                 PROVE  /\ stay \subseteq M
                        /\ \A r \in stay : shown[r] = 0 => PlaceOf(r) > Covered
                        /\ WalkEnded' => \A r \in stay : shown[r] > 0
    BY <1>1, <1>2, <1>3, <1>4, <1>5 DEF NothingSkippedOK, walk
  <2>2. stay \subseteq M /\ \A r \in stay : shown[r] = 0 => PlaceOf(r) > Covered
    BY <2>1 DEF WalkInv, NothingSkippedOK
  <2>3. ASSUME WalkEnded', NEW r \in stay, shown[r] = 0
        PROVE  FALSE
    <3>1. ~HasNextPage(total', params')
      BY <2>3 DEF WalkEnded
    <3>2. Cardinality(M) <= Through(params)
      BY <1>1, <1>6, <3>1, HasNextPageIs
    <3>3. PlaceOf(r) \in 1..Cardinality(M)
      BY <2>2, PlaceOfIs
    <3>4. QED
      BY <1>4, <1>6, <2>2, <2>3, <3>2, <3>3
  <2>4. \A r \in stay : shown[r] \in Nat
    BY <1>6 DEF TypeInv, TypeOK
  <2>5. QED
    BY <2>2, <2>3, <2>4
<1>9. PageFitsOK'
  BY <1>1, <1>2, <1>4 DEF WalkInv, PageFitsOK, walk
<1>10. QED
  BY <1>7, <1>8, <1>9 DEF WalkInv

\* The next page begins where this one ended.
LEMMA NextKeepsWalk ==
  ASSUME TypeInv, WalkInv, NextPage
  PROVE  WalkInv'
<1>1. /\ UNCHANGED <<table, rowVars, query, walk>> /\ stage = "answered" /\ stage' = "page"
      /\ params' = [params EXCEPT !.page = @ + 1]
  BY DEF NextPage
<1>2. M' = M
  <2>1. \A r \in Rows : Passes(r, query)' <=> Passes(r, query)
    BY <1>1 DEF Passes, ArticlePasses, SourcePasses, FeedPasses, FeedArticlePasses, Nullable, Flag, rowVars
  <2>2. QED
    BY <1>1, <2>1 DEF M, Matching, rowVars
<1>3. \A r : PlaceOf(r)' = PlaceOf(r)
  BY <1>1, <1>2, SameOrder DEF PlaceOf, rowVars
<1>4. Covered' = Covered
  <2>1. Skipped([params EXCEPT !.page = @ + 1]) = Through(params)
    BY WalkTypes, PagesAreAdjacent
  <2>2. Skipped(params') = Through(params)
    BY <1>1, <2>1
  <2>3. QED
    BY <1>1, <2>2 DEF Covered, Skipped
<1>5. FromTheStart' = FromTheStart /\ ~WalkEnded'
  BY <1>1 DEF FromTheStart, WalkEnded
<1>6. ShownOnceOK'
  BY <1>1, <1>2, <1>3, <1>4 DEF WalkInv, ShownOnceOK, walk
<1>7. NothingSkippedOK'
  BY <1>1, <1>2, <1>3, <1>4, <1>5 DEF WalkInv, NothingSkippedOK, walk
<1>8. PageFitsOK'
  BY <1>1 DEF PageFitsOK
<1>9. QED
  BY <1>6, <1>7, <1>8 DEF WalkInv

\* The invariant holds at first, and every step keeps it.
LEMMA InvInit ==
  Init => IInv
<1> SUFFICES ASSUME Init
             PROVE  IInv
  OBVIOUS
<1>1. TypeInv
  BY TypeInit
<1>2. ShownOnceOK /\ NothingSkippedOK /\ PageFitsOK
  BY DEF Init, ShownOnceOK, NothingSkippedOK, PageFitsOK
<1>3. QED
  BY <1>1, <1>2 DEF IInv

LEMMA InvStep ==
  IInv /\ [Next]_vars => IInv'
<1> SUFFICES ASSUME IInv, [Next]_vars
             PROVE  IInv'
  OBVIOUS
<1>1. TypeInv /\ WalkInv
  BY DEF IInv, WalkInv
<1>2. TypeInv'
  BY <1>1, TypeStep
<1>3. ASSUME NEW raw \in RawParams, NEW f \in RawFilters,
             ListArticles(raw, f) \/ ListSources(raw, f) \/ ListFeeds(raw, f) \/ FeedArticles(raw, f)
      PROVE  WalkInv'
  <2>1. stage = "idle" /\ UNCHANGED walk
    BY <1>3 DEF ListArticles, ListSources, ListFeeds, FeedArticles, Request
  <2>2. ~begun
    BY <1>1, <2>1 DEF TypeInv, StageOK
  <2>3. QED
    BY <1>1, <2>1, <2>2, BeforeTheWalk
<1>4. ASSUME PageStatement
      PROVE  WalkInv'
  BY <1>1, <1>4, PageKeepsWalk
<1>5. ASSUME CountStatement
      PROVE  WalkInv'
  BY <1>1, <1>5, CountKeepsWalk
<1>6. ASSUME NextPage
      PROVE  WalkInv'
  BY <1>1, <1>6, NextKeepsWalk
<1>7. ASSUME NEW picks \in RawPicks, AskSuggestions(picks)
      PROVE  WalkInv'
  <2>1. ~begun /\ UNCHANGED walk
    BY <1>1, <1>7 DEF TypeInv, StageOK, AskSuggestions
  <2>2. QED
    BY <1>1, <2>1, BeforeTheWalk
<1>8. ASSUME RelatedStatement \/ PopularStatement
      PROVE  WalkInv'
  <2>1. ~begun /\ UNCHANGED walk
    BY <1>1, <1>8 DEF TypeInv, StageOK, RelatedStatement, PopularStatement
  <2>2. QED
    BY <1>1, <2>1, BeforeTheWalk
<1>9. ASSUME NEW r \in Rows, Begin(r)
      PROVE  WalkInv'
  BY <1>1, <1>9, BeginKeepsWalk
<1>10. ASSUME NEW r \in Rows, Commit(r) \/ SoftDelete(r) \/ MarkRead(r) \/ Update(r)
       PROVE  WalkInv'
  <2>1. UNCHANGED <<table, at, reader>> /\ Disturb
    BY <1>10 DEF Commit, SoftDelete, MarkRead, Update
  <2>2. QED
    BY <1>1, <2>1, DisturbKeepsWalk
<1>11. ASSUME Tick \/ UNCHANGED vars
       PROVE  WalkInv'
  <2>1. UNCHANGED <<table, state, info, at, read, reader, walk>>
    BY <1>11 DEF Tick, vars, rowVars
  <2>2. \A r \in Rows : Passes(r, query)' <=> Passes(r, query)
    BY <2>1 DEF Passes, ArticlePasses, SourcePasses, FeedPasses, FeedArticlePasses, Nullable, Flag, reader
  <2>3. M' = M
    BY <2>1, <2>2 DEF M, Matching, reader
  <2>4. \A r \in M : PlaceOf(r)' = PlaceOf(r)
    BY <2>1, <2>3, SameOrder DEF PlaceOf
  <2>5. QED
    BY <1>1, <2>1, <2>3, <2>4, SameMatches
<1>12. ASSUME StatementFails
       PROVE  WalkInv'
  <2>1. ~begun' /\ shown' = [r \in Rows |-> 0]
    BY <1>1, <1>12, FailureType
  <2>2. QED
    BY <2>1 DEF WalkInv, ShownOnceOK, NothingSkippedOK, PageFitsOK
<1>13. WalkInv'
  BY <1>3, <1>4, <1>5, <1>6, <1>7, <1>8, <1>9, <1>10, <1>11, <1>12 DEF Next
<1>14. QED
  BY <1>2, <1>13 DEF IInv, WalkInv

----------------------------------------------------------------------------
(* The theorems.                                                           *)

\* A client that follows has_next_page from the first page on has seen every row that
\* matched all along when it ends, unless a row left; and none twice, unless one came.
THEOREM WalksAreExact == Spec => []WalkIsExact
<1>1. IInv => WalkIsExact
  BY DEF IInv, TypeInv, StageOK, ShownOnceOK, NothingSkippedOK, WalkIsExact, WalkEnded
<1>2. QED
  BY <1>1, InvInit, InvStep, PTL DEF Spec

\* A total that nobody disturbed fits its page, and has_next_page is right about it.
THEOREM TotalsFit == Spec => []TotalFitsPage
<1>1. ASSUME IInv
      PROVE  TotalFitsPage
  <2>1. params \in PageParams /\ total \in Nat
    BY <1>1, WalkTypes DEF IInv
  <2>2. HasNextPage(total, params) <=> total > params.page * params.size
    BY <2>1, HasNextPageIs DEF Through
  <2>3. ASSUME stage = "answered", table # "suggestions", ~moved
        PROVE  Len(docs) = Clamp(total - (params.page - 1) * params.size, 0, params.size)
    BY <1>1, <2>3 DEF IInv, TypeInv, StageOK, PageFitsOK, Skipped
  <2>4. QED
    BY <2>2, <2>3 DEF TotalFitsPage
<1>2. QED
  BY <1>1, InvInit, InvStep, PTL DEF Spec

----------------------------------------------------------------------------
(* The pages and what was asked for.                                       *)

\* The queries filter by what the request asks for.
LEMMA AskedForMatches ==
  ASSUME TypeInv, table # "suggestions", NEW r \in Rows
  PROVE  AskedFor(query, r) <=> r \in M
<1>1. table \in {"articles", "sources", "feeds", "feedArticles"}
  BY ListingAssumption DEF TypeInv, TypeOK
<1>2. /\ query.from \in Seq(Int) /\ Len(query.from) <= 1 /\ query.to \in Seq(Int) /\ Len(query.to) <= 1
      /\ query.isRead \in {"", "true", "false"} /\ read[r] \in BOOLEAN
  BY DEF TypeInv, TypeOK, Queries, Optional
<1>3. \A s \in Seq(Int) : Len(s) <= 1 => Range(s) = IF s = <<>> THEN {} ELSE {s[1]}
  <2>1. ASSUME NEW s \in Seq(Int), Len(s) <= 1
        PROVE  Range(s) = IF s = <<>> THEN {} ELSE {s[1]}
    <3>1. CASE s = <<>>
      BY <3>1 DEF Range
    <3>2. CASE s # <<>>
      <4>1. Len(s) = 1 /\ DOMAIN s = 1..Len(s)
        BY <2>1, <3>2
      <4>2. DOMAIN s = {1}
        BY <4>1
      <4>3. QED
        BY <3>2, <4>2 DEF Range
    <3>3. QED
      BY <3>1, <3>2
  <2>2. QED
    BY <2>1
<1>4. r \in M <=> state[r] = "active" /\ Passes(r, query)
  BY DEF M, Matching
<1>5. CASE table = "feedArticles"
  <2>1. Nullable(query.isRead) \subseteq {Flag(read[r])} <=>
           (query.isRead = "true" => read[r]) /\ (query.isRead = "false" => ~read[r])
    BY <1>2 DEF Nullable, Flag
  <2>2. (\A t \in Range(query.from) : at[r] >= t) <=> (query.from # <<>> => at[r] >= query.from[1])
    BY <1>2, <1>3
  <2>3. (\A t \in Range(query.to) : at[r] <= t) <=> (query.to # <<>> => at[r] <= query.to[1])
    BY <1>2, <1>3
  <2>4. QED
    BY <1>4, <1>5, <2>1, <2>2, <2>3 DEF AskedFor, Passes, FeedArticlePasses
<1>6. CASE table \in {"articles", "sources", "feeds"}
  <2>1. Nullable(query.url) \subseteq info[r].url <=> (query.url # "" => query.url \in info[r].url)
    BY DEF Nullable
  <2>2. Nullable(query.name) \subseteq info[r].name <=> (query.name # "" => query.name \in info[r].name)
    BY DEF Nullable
  <2>3. QED
    BY <1>4, <1>6, <2>1, <2>2 DEF AskedFor, Passes, ArticlePasses, SourcePasses, FeedPasses
<1>7. QED
  BY <1>1, <1>5, <1>6

\* A page holds the rows the query asks for at the places its number says, and no
\* others, the newest first.
THEOREM PagesAreRight == Spec => RightPage
<1> DEFINE place(r) == Cardinality({o \in Rows : AskedFor(query, o) /\ (o = r \/ Newer(o, r))})
<1> DEFINE first    == (params.page - 1) * params.size
<1> DEFINE Right ==
      stage = "page" /\ stage' = "count" =>
        /\ Range(docs') = {r \in Rows : AskedFor(query, r) /\ place(r) \in (first + 1)..(first + params.size)}
        /\ \A i, j \in DOMAIN docs' : i < j => Newer(docs'[i], docs'[j])
<1>1. ASSUME IInv, [Next]_vars
      PROVE  Right
  <2>1. SUFFICES ASSUME stage = "page", stage' = "count"
                 PROVE  Right
    OBVIOUS
  <2>2. PageStatement
    BY <1>1, <2>1 DEF Next, ListArticles, ListSources, ListFeeds, FeedArticles, Request, CountStatement, NextPage,
                      AskSuggestions, RelatedStatement, PopularStatement, StatementFails, Begin, Commit, SoftDelete, MarkRead,
                      Update, Tick, reader, vars
  <2>3. TypeInv /\ table # "suggestions"
    BY <1>1, <2>1 DEF IInv, TypeInv, StageOK
  <2>4. /\ params \in PageParams /\ params.size \in Nat /\ first \in Nat /\ at \in [Rows -> 0..MaxClock]
        /\ first = Skipped(params) /\ Through(params) = first + params.size
    BY <2>3, WalkTypes DEF Skipped
  <2>5. docs' = PageOf(query, params)
    BY <2>2 DEF PageStatement
  <2>6. /\ docs' \in Seq(M) /\ Len(docs') <= params.size
        /\ \A k \in 1..Len(docs') : PlaceOf(docs'[k]) = first + k
        /\ \A i, j \in 1..Len(docs') : i < j => Newer(docs'[i], docs'[j])
        /\ \A r \in M : PlaceOf(r) \in (first + 1)..(first + params.size) => \E k \in 1..Len(docs') : docs'[k] = r
    BY <2>4, <2>5, PageOfIs
  <2>7. M \subseteq Rows /\ \A r \in Rows : AskedFor(query, r) <=> r \in M
    BY <2>3, AskedForMatches, MatchingIsFinite DEF M
  <2>8. ASSUME NEW r \in Rows
        PROVE  place(r) = PlaceOf(r)
    <3>1. {o \in Rows : AskedFor(query, o) /\ (o = r \/ Newer(o, r))} = UpTo(r, M, NewestFirst)
      BY <2>7, <2>8 DEF UpTo, NewestFirst
    <3>2. QED
      BY <3>1 DEF PlaceOf, Place
  <2>9. Len(docs') \in Nat /\ DOMAIN docs' = 1..Len(docs')
    BY <2>6
  <2> HIDE DEF first, place
  <2>10. Range(docs') = {r \in M : PlaceOf(r) \in (first + 1)..(first + params.size)}
    <3>1. ASSUME NEW k \in 1..Len(docs')
          PROVE  docs'[k] \in M /\ PlaceOf(docs'[k]) \in (first + 1)..(first + params.size)
      BY <2>4, <2>6, <2>9
    <3>2. QED
      BY <2>6, <2>9, <3>1 DEF Range
  <2>11. Range(docs') = {r \in Rows : AskedFor(query, r) /\ place(r) \in (first + 1)..(first + params.size)}
    BY <2>7, <2>8, <2>10
  <2>12. QED
    BY <2>6, <2>9, <2>11
<1>2. IInv /\ [Next]_vars => [Right]_vars
  BY <1>1
<1>3. QED
  BY <1>2, InvInit, InvStep, PTL DEF Spec, RightPage

----------------------------------------------------------------------------
(* The suggestions.                                                        *)

\* The words of some articles are finitely many numbers, ...
LEMMA CarriedIsFinite ==
  ASSUME info \in [Rows -> Contents], NEW from \in SUBSET Rows
  PROVE  IsFiniteSet(from) /\ Carried(from) \subseteq Nat /\ IsFiniteSet(Carried(from))
<1>1. IsFiniteSet(from)
  <2>1. IsFiniteSet(Rows)
    BY ListingAssumption
  <2>2. QED
    BY <2>1, FS_Subset
<1>2. \A r \in from : info[r].words \in Seq(Nat)
  BY ListingAssumption
<1> DEFINE T == {Range(info[r].words) : r \in from}
<1> DEFINE f == [r \in from |-> Range(info[r].words)]
<1>3. IsFiniteSet(T)
  <2>1. f \in Surjection(from, T)
    BY DEF Surjection
  <2>2. QED
    BY <1>1, <2>1, FS_Surjection
<1>4. ASSUME NEW list \in Seq(Nat)
      PROVE  IsFiniteSet(Range(list)) /\ Range(list) \subseteq Nat
  <2>1. Len(list) \in Nat /\ list \in [1..Len(list) -> Nat]
    BY LenProperties
  <2>2. list \in Surjection(1..Len(list), Range(list))
    BY <2>1 DEF Surjection, Range
  <2>3. IsFiniteSet(1..Len(list))
    BY <2>1, FS_Interval
  <2>4. QED
    BY <2>1, <2>2, <2>3, FS_Surjection DEF Range
<1>5. \A U \in T : IsFiniteSet(U) /\ U \subseteq Nat
  BY <1>2, <1>4
<1> HIDE DEF T
<1>6. IsFiniteSet(UNION T) /\ UNION T \subseteq Nat
  BY <1>3, <1>5, FS_UNION
<1>7. QED
  BY <1>1, <1>6 DEF Carried, T

\* ... each with a number of occurrences, ...
LEMMA OccurrencesIsNat ==
  ASSUME info \in [Rows -> Contents], NEW from \in SUBSET Rows, NEW word
  PROVE  Occurrences(word, from) \in Nat
<1> DEFINE Hits(r) == {k \in DOMAIN info[r].words : info[r].words[k] = word}
<1> DEFINE T == {{r} \X Hits(r) : r \in from}
<1> DEFINE f == [r \in from |-> {r} \X Hits(r)]
<1>1. IsFiniteSet(T)
  <2>1. f \in Surjection(from, T)
    BY DEF Surjection
  <2> HIDE DEF T, f
  <2>2. QED
    BY <2>1, CarriedIsFinite, FS_Surjection
<1>2. ASSUME NEW r \in from
      PROVE  IsFiniteSet({r} \X Hits(r))
  <2>1. info[r].words \in Seq(Nat)
    BY ListingAssumption
  <2>2. DOMAIN info[r].words = 1..Len(info[r].words) /\ Len(info[r].words) \in Nat
    BY <2>1
  <2>3. IsFiniteSet(DOMAIN info[r].words)
    BY <2>2, FS_Interval
  <2>4. IsFiniteSet(Hits(r))
    BY <2>3, FS_Subset
  <2>5. IsFiniteSet({r})
    BY FS_Singleton
  <2> HIDE DEF Hits
  <2>6. QED
    BY <2>4, <2>5, FS_Product
<1>3. \A U \in T : IsFiniteSet(U)
  BY <1>2
<1>4. Cardinality(UNION T) \in Nat
  <2> HIDE DEF T
  <2>1. QED
    BY <1>1, <1>3, FS_UNION, FS_CardinalityType
<1>5. QED
  BY <1>4 DEF Occurrences

\* ... which is that of the articles that carry it when none repeats a word.
LEMMA OccurrencesAreArticles ==
  ASSUME info \in [Rows -> Contents], NEW from \in SUBSET Rows, NEW word, \A r \in from : IsInjective(info[r].words)
  PROVE  Occurrences(word, from) = Cardinality({r \in from : word \in Range(info[r].words)})
<1> DEFINE X == {r \in from : word \in Range(info[r].words)}
<1> DEFINE Hits(r) == {k \in DOMAIN info[r].words : info[r].words[k] = word}
<1> DEFINE O == UNION {{r} \X Hits(r) : r \in from}
<1> DEFINE f == [r \in X |-> <<r, CHOOSE k \in Hits(r) : TRUE>>]
<1>1. ASSUME NEW r \in X
      PROVE  \E k : Hits(r) = {k}
  <2> DEFINE words == info[r].words
  <2>1. IsInjective(words) /\ word \in Range(words)
    OBVIOUS
  <2> HIDE DEF words
  <2>2. PICK k \in DOMAIN words : words[k] = word
    BY <2>1 DEF Range
  <2>3. {l \in DOMAIN words : words[l] = word} = {k}
    BY <2>1, <2>2 DEF IsInjective
  <2>4. QED
    BY <2>3 DEF words
<1>2. ASSUME NEW r \in X
      PROVE  f[r] \in O /\ f[r][1] = r
  <2>1. \E k : k \in Hits(r)
    BY <1>1
  <2>2. (CHOOSE k \in Hits(r) : TRUE) \in Hits(r)
    BY <2>1
  <2>3. f[r] = <<r, CHOOSE k \in Hits(r) : TRUE>> /\ r \in from
    OBVIOUS
  <2> HIDE DEF f, Hits
  <2>4. QED
    BY <2>2, <2>3
<1>3. ASSUME NEW o \in O
      PROVE  o[1] \in X /\ f[o[1]] = o
  <2>1. PICK r \in from : o \in {r} \X Hits(r)
    OBVIOUS
  <2>2. o = <<r, o[2]>> /\ o[1] = r /\ o[2] \in Hits(r)
    BY <2>1
  <2>3. r \in X
    BY <2>2 DEF Range
  <2>4. Hits(r) = {o[2]}
    BY <1>1, <2>2, <2>3
  <2>5. QED
    BY <2>2, <2>3, <2>4
<1>4. f \in Bijection(X, O)
  <2>1. f \in [X -> O]
    BY <1>2
  <2> HIDE DEF f, O, X, Hits
  <2>2. f \in Injection(X, O)
    BY <1>2, <2>1 DEF Injection, IsInjective
  <2>3. f \in Surjection(X, O)
    BY <1>3, <2>1 DEF Surjection
  <2>4. QED
    BY <2>2, <2>3 DEF Bijection
<1>5. IsFiniteSet(X)
  BY CarriedIsFinite, FS_Subset
<1>6. Cardinality(O) = Cardinality(X)
  <2> HIDE DEF f, O, X
  <2>1. QED
    BY <1>4, <1>5, FS_Bijection DEF ExistsBijection
<1>7. QED
  BY <1>6 DEF Occurrences

\* The answer: words of the articles that are no picks, none left out for a rarer one.
LEMMA AnsweredIs ==
  ASSUME info \in [Rows -> Contents], NEW from \in SUBSET Rows, NEW picks
  PROVE  LET answer == Answered(from, picks) IN
         \A k \in DOMAIN answer :
            /\ answer[k].word \notin picks
            /\ answer[k].count = Occurrences(answer[k].word, from)
            /\ \A w \in Carried(from) \ picks :
                  (\E j \in DOMAIN answer : answer[j].word = w) \/ Occurrences(w, from) <= answer[k].count
<1> DEFINE W      == Carried(from) \ picks
<1> DEFINE before == {p \in W \X W : Before(p[1], p[2], from)}
<1> DEFINE all    == InOrder(W, before)
<1> DEFINE n      == Cardinality(W)
<1> DEFINE len    == Min({SuggestionLimit, Len(all)})
<1> DEFINE answer == Answered(from, picks)
<1>1. IsFiniteSet(W) /\ W \subseteq Nat /\ n \in Nat
  BY CarriedIsFinite, FS_Difference, FS_CardinalityType
<1>2. \A w \in W : Occurrences(w, from) \in Nat
  BY OccurrencesIsNat
<1> HIDE DEF W
<1>3. \A v, w \in W : <<v, w>> \in before <=> Before(v, w, from)
  OBVIOUS
<1>4. Orders(before, W)
  <2>1. \A v \in W : ~Before(v, v, from)
    BY <1>1, <1>2 DEF Before
  <2>2. \A v, w \in W : v = w \/ Before(v, w, from) \/ Before(w, v, from)
    BY <1>1, <1>2 DEF Before
  <2>3. \A u, v, w \in W : Before(u, v, from) /\ Before(v, w, from) => Before(u, w, from)
    BY <1>1, <1>2 DEF Before
  <2> HIDE DEF before
  <2>4. QED
    BY <1>3, <2>1, <2>2, <2>3 DEF Orders
<1> HIDE DEF before
<1>5. Sorted(all, W, before) /\ \A w \in W : \E k \in 1..n : all[k] = w
  BY <1>1, <1>4, InOrderProperties
<1>6. /\ all \in [1..n -> W] /\ Len(all) = n
      /\ \A i, j \in 1..n : i < j => Before(all[i], all[j], from)
  <2> HIDE DEF all
  <2>1. all \in [1..n -> W] /\ \A i, j \in 1..n : i < j => <<all[i], all[j]>> \in before
    BY <1>5 DEF Sorted
  <2>2. Len(all) = n
    BY <1>1, <2>1
  <2>3. QED
    BY <1>3, <2>1, <2>2
<1>7. len \in Nat /\ len <= n /\ len = (IF SuggestionLimit <= n THEN SuggestionLimit ELSE n)
  <2>1. SuggestionLimit \in Nat
    BY ListingAssumption
  <2> HIDE DEF n, all
  <2>2. len = IF SuggestionLimit <= n THEN SuggestionLimit ELSE n
    <3>1. n \in Int /\ SuggestionLimit \in Int
      BY <1>1, <2>1
    <3>2. Min({SuggestionLimit, n}) = IF SuggestionLimit <= n THEN SuggestionLimit ELSE n
      BY <3>1, MaxMinOfTwo
    <3>3. Len(all) = n
      BY <1>6
    <3>4. QED
      BY <3>2, <3>3
  <2>3. QED
    BY <1>1, <2>1, <2>2
<1>8. answer = [k \in 1..len |-> [word |-> all[k], count |-> Occurrences(all[k], from)]]
  BY DEF Answered, Ranked, ByOccurrences, W, before
<1> HIDE DEF all, len, answer, n
<1>9. DOMAIN answer = 1..len /\ \A k \in 1..len : answer[k].word = all[k] /\ answer[k].count = Occurrences(all[k], from)
  BY <1>8
<1>10. ASSUME NEW k \in 1..len
       PROVE  /\ answer[k].word \notin picks
              /\ answer[k].count = Occurrences(answer[k].word, from)
              /\ \A w \in W : (\E j \in DOMAIN answer : answer[j].word = w) \/ Occurrences(w, from) <= answer[k].count
  <2>1. k \in 1..n /\ all[k] \in W
    BY <1>1, <1>6, <1>7
  <2>2. ASSUME NEW w \in W, ~\E j \in DOMAIN answer : answer[j].word = w
        PROVE  Occurrences(w, from) <= answer[k].count
    <3>1. PICK j \in 1..n : all[j] = w
      BY <1>5
    <3>2. ~(j <= len)
      BY <1>1, <1>7, <1>9, <2>2, <3>1
    <3>3. k < j
      BY <1>1, <1>7, <3>2
    <3>4. Before(all[k], w, from)
      BY <1>6, <2>1, <3>1, <3>3
    <3>5. QED
      BY <1>2, <1>9, <2>1, <3>4 DEF Before
  <2>3. QED
    BY <1>9, <2>1, <2>2 DEF W
<1>11. QED
  BY <1>9, <1>10 DEF W, answer

\* Suggestions are none of the picks, the most frequent first, counted right; and the
\* popular ones come only when none is related.
THEOREM SuggestionsHonest == Spec => SuggestionsAreHonest
<1> DEFINE From == IF stage = "related" THEN Related(query.picks) ELSE Popular(query.since)
<1> DEFINE Honest ==
      stage' = "answered" /\ stage \in {"related", "popular"} =>
        /\ stage = "related" => docs' # <<>>
        /\ \A k \in DOMAIN docs' :
            /\ docs'[k].word \notin query.picks
            /\ (\A r \in From : IsInjective(info[r].words)) =>
                   docs'[k].count = Cardinality({r \in From : docs'[k].word \in Range(info[r].words)})
            /\ \A w \in Carried(From) \ query.picks :
                   \/ \E j \in DOMAIN docs' : docs'[j].word = w
                   \/ Occurrences(w, From) <= docs'[k].count
<1>1. ASSUME IInv, [Next]_vars
      PROVE  Honest
  <2>1. SUFFICES ASSUME stage' = "answered", stage \in {"related", "popular"}
                 PROVE  Honest
    OBVIOUS
  <2>2. RelatedStatement \/ PopularStatement
    BY <1>1, <2>1 DEF Next, ListArticles, ListSources, ListFeeds, FeedArticles, Request, PageStatement, CountStatement,
                      NextPage, AskSuggestions, StatementFails, Begin, Commit, SoftDelete, MarkRead, Update, Tick,
                      reader, vars
  <2>3. From \in SUBSET Rows /\ info \in [Rows -> Contents]
    BY <1>1 DEF Related, Popular, Active, IInv, TypeInv, TypeOK
  <2>4. docs' = Answered(From, query.picks) /\ (stage = "related" => docs' # <<>>)
    BY <2>1, <2>2 DEF RelatedStatement, PopularStatement
  <2> HIDE DEF From
  <2>5. \A k \in DOMAIN docs' :
            /\ docs'[k].word \notin query.picks
            /\ docs'[k].count = Occurrences(docs'[k].word, From)
            /\ \A w \in Carried(From) \ query.picks :
                  (\E j \in DOMAIN docs' : docs'[j].word = w) \/ Occurrences(w, From) <= docs'[k].count
    <3>1. \A k \in DOMAIN Answered(From, query.picks) :
            /\ Answered(From, query.picks)[k].word \notin query.picks
            /\ Answered(From, query.picks)[k].count = Occurrences(Answered(From, query.picks)[k].word, From)
            /\ \A w \in Carried(From) \ query.picks :
                  \/ \E j \in DOMAIN Answered(From, query.picks) : Answered(From, query.picks)[j].word = w
                  \/ Occurrences(w, From) <= Answered(From, query.picks)[k].count
      BY <2>3, AnsweredIs
    <3>2. QED
      BY <2>4, <3>1
  <2>6. (\A r \in From : IsInjective(info[r].words)) =>
           \A w : Occurrences(w, From) = Cardinality({r \in From : w \in Range(info[r].words)})
    BY <2>3, OccurrencesAreArticles
  <2>7. QED
    BY <2>4, <2>5, <2>6
<1>2. IInv /\ [Next]_vars => [Honest]_vars
  BY <1>1
<1>3. QED
  BY <1>2, InvInit, InvStep, PTL DEF Spec, SuggestionsAreHonest
===============================================================================
