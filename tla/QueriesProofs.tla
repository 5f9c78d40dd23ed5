---------------------------- MODULE QueriesProofs ----------------------------
(***************************************************************************)
(* For every query string, identifier, search term and set of spec keys,   *)
(* of any length, and every bound of the parsers that fits into u32: the   *)
(* pages that the lists accept show the rows that are theirs, the order of *)
(* a query string's pairs never matters, identifiers have normal forms     *)
(* that lead back to them, synonyms become words, and the sub displays of  *)
(* a device come in turn.                                                  *)
(***************************************************************************)
EXTENDS Queries, ListTheorems

(***************************************************************************)
(* Pages.                                                                  *)
(***************************************************************************)
LEMMA ProductGrows ==
  ASSUME NEW a \in Nat, NEW b \in Nat, NEW c \in Nat, NEW d \in Nat, a <= b, c <= d
  PROVE  a * c <= b * d
<1>1. a * c <= b * c
  OBVIOUS
<1>2. b * c <= b * d
  OBVIOUS
<1>. QED BY <1>1, <1>2

(* The product does not wrap.                                              *)
LEMMA OffsetIsProduct ==
  ASSUME NEW page \in 1 .. MaxPage, NEW size \in 1 .. MaxPageSize
  PROVE  Offset(page, size) = (page - 1) * size
<1>1. page - 1 \in Nat /\ size \in Nat /\ page \in Nat /\ (page - 1) * size \in Nat
  OBVIOUS
<1>2. page * size <= MaxPage * MaxPageSize
  BY <1>1, ProductGrows, PagesAssumption
<1>3. (page - 1) * size = page * size - size
  BY <1>1
<1>4. page * size \in Nat /\ MaxPage * MaxPageSize \in Nat
  BY <1>1, PagesAssumption
<1>5. (page - 1) * size < Width
  BY <1>1, <1>2, <1>3, <1>4, PagesAssumption
<1>. QED BY <1>1, <1>5, PagesAssumption DEF Offset

LEMMA Quotient ==
  ASSUME NEW n \in Nat, NEW size \in Nat, size > 0, NEW q \in Nat
  PROVE  n \div size = q <=> q * size <= n /\ n < q * size + size
<1>1. size * (n \div size) <= n /\ n < size * (n \div size) + size
  OBVIOUS
<1>2. ASSUME q * size <= n, n < q * size + size
      PROVE  n \div size = q
  <2>1. q * size \in Nat
    OBVIOUS
  <2>. DEFINE r == n - q * size
  <2>2. r \in 0 .. size - 1 /\ n = size * q + r
    BY <1>2, <2>1
  <2>. HIDE DEF r
  <2>. QED BY <2>2
<1>3. ASSUME n \div size = q
      PROVE  q * size <= n /\ n < q * size + size
  <2>1. size * q <= n /\ n < size * q + size
    BY <1>1, <1>3
  <2>. QED BY <2>1
<1>. QED BY <1>2, <1>3

LEMMA PagesShowTheirRows ==
  ASSUME NEW page \in 1 .. MaxPage, NEW size \in 1 .. MaxPageSize
  PROVE  PageShowsItsRows(page, size)
<1>. DEFINE start == (page - 1) * size
<1>1. page - 1 \in Nat /\ size \in Nat /\ size > 0 /\ start \in Nat
  OBVIOUS
<1>2. Offset(page, size) = start
  BY OffsetIsProduct
<1>3. ASSUME NEW row \in 1 .. MaxPage * MaxPageSize
      PROVE  OnPage(row, page, size) <=> (row - 1) \div size = page - 1
  <2>1. row \in Nat /\ row - 1 \in Nat
    BY <1>3, PagesAssumption
  <2>2. (row - 1) \div size = page - 1 <=> start <= row - 1 /\ row - 1 < start + size
    BY <1>1, <2>1, Quotient
  <2>. HIDE DEF start
  <2>. QED BY <1>1, <1>2, <2>1, <2>2 DEF OnPage
<1>. QED BY <1>3 DEF PageShowsItsRows

LEMMA TotalsCountPages ==
  ASSUME NEW page \in 1 .. MaxPage, NEW size \in 1 .. MaxPageSize
  PROVE  TotalCountsPages(page, size)
<1>. DEFINE start == (page - 1) * size
<1>1. page - 1 \in Nat /\ page \in Nat /\ size \in Nat /\ size > 0 /\ start \in Nat
  OBVIOUS
<1>2. Offset(page, size) = start
  BY OffsetIsProduct
<1>3. ASSUME NEW rows \in 0 .. MaxPage * MaxPageSize
      PROVE  page <= TotalPages(rows, size) <=> \E row \in 1 .. rows : OnPage(row, page, size)
  <2>. DEFINE pages == (rows + size - 1) \div size
  <2>1. rows \in Nat /\ rows + size - 1 \in Nat
    BY <1>1, <1>3, PagesAssumption
  <2>2. /\ pages \in Nat /\ size * pages <= rows + size - 1
        /\ rows + size - 1 < size * pages + size
    BY <1>1, <2>1
  <2>3. page <= pages => start < rows
    <3>. SUFFICES ASSUME page <= pages PROVE start < rows
      OBVIOUS
    <3>1. page * size <= pages * size
      BY <1>1, <2>2, ProductGrows
    <3>2. start + size = page * size /\ pages * size = size * pages
      BY <1>1, <2>2
    <3>3. page * size \in Nat /\ pages * size \in Nat
      BY <1>1, <2>2
    <3>. HIDE DEF start, pages
    <3>. QED BY <1>1, <2>1, <2>2, <3>1, <3>2, <3>3
  <2>4. ~(page <= pages) => rows <= start
    <3>. SUFFICES ASSUME ~(page <= pages) PROVE rows <= start
      OBVIOUS
    <3>1. pages <= page - 1
      BY <1>1, <2>2
    <3>2. pages * size <= start
      BY <1>1, <2>2, <3>1, ProductGrows
    <3>3. pages * size = size * pages /\ pages * size \in Nat
      BY <1>1, <2>2
    <3>. HIDE DEF start, pages
    <3>. QED BY <1>1, <2>1, <2>2, <3>2, <3>3
  <2>5. (\E row \in 1 .. rows : OnPage(row, page, size)) <=> start < rows
    <3>. HIDE DEF start
    <3>1. ASSUME start < rows
          PROVE  start + 1 \in 1 .. rows /\ OnPage(start + 1, page, size)
      BY <1>1, <1>2, <2>1, <3>1 DEF OnPage
    <3>2. ASSUME NEW row \in 1 .. rows, OnPage(row, page, size)
          PROVE  start < rows
      BY <1>1, <1>2, <2>1, <3>2 DEF OnPage
    <3>. QED BY <3>1, <3>2
  <2>6. start < rows <=> ~(rows <= start)
    <3>. HIDE DEF start
    <3>. QED BY <1>1, <2>1
  <2>7. TotalPages(rows, size) = pages
    BY DEF TotalPages
  <2>. HIDE DEF start, pages
  <2>. QED BY <2>3, <2>4, <2>5, <2>6, <2>7
<1>. QED BY <1>3 DEF TotalCountsPages

(* What the parsers accept is within their bounds.                         *)
LEMMA ParsedBounds ==
  ASSUME NEW pairs, NEW key, NEW maximum, NEW default \in 1 .. maximum,
         NEW n \in ParseBoundedU32(pairs, key, maximum, default)
                      \cup ParsePageValue(pairs, key, maximum, default)
  PROVE  n \in 1 .. maximum
  BY DEF ParseBoundedU32, ParsePageValue

LEMMA AcceptedBounds ==
  ASSUME NEW pairs,
         NEW r \in ListQuery(pairs) \cup AdminDeviceListQuery(pairs) \cup CameraListQuery(pairs)
  PROVE  r.page \in 1 .. MaxPage /\ r.size \in 1 .. MaxPageSize
<1>0. 1 \in 1 .. MaxPage
  BY PagesAssumption
<1>1. CASE r \in ListQuery(pairs)
  <2>1. /\ r.page \in ParseBoundedU32(pairs, "page", MaxPage, 1)
        /\ r.size \in ParseBoundedU32(pairs, "page_size", MaxPageSize, DeviceListSize)
    BY <1>1 DEF ListQuery
  <2>. QED BY <1>0, <2>1, ParsedBounds, QueriesAssumption
<1>2. CASE r \in AdminDeviceListQuery(pairs)
  <2>1. /\ r.page \in ParseBoundedU32(pairs, "page", MaxPage, 1)
        /\ r.size \in ParseBoundedU32(pairs, "page_size", MaxPageSize, DeviceListSize)
    BY <1>2 DEF AdminDeviceListQuery
  <2>. QED BY <1>0, <2>1, ParsedBounds, QueriesAssumption
<1>3. CASE r \in CameraListQuery(pairs)
  <2>1. /\ r.page \in ParsePageValue(pairs, "page", MaxPage, 1)
        /\ r.size \in ParsePageValue(pairs, "page_size", MaxPageSize, CameraListSize)
    BY <1>3 DEF CameraListQuery
  <2>. QED BY <1>0, <2>1, ParsedBounds, QueriesAssumption
<1>. QED BY <1>1, <1>2, <1>3

(* No page that a list accepts wraps, skips a row or shows one twice.      *)
THEOREM PagesTile == QueriesSpec => []AcceptedPagesTile
<1>1. AcceptedPagesTile
  <2>1. ASSUME NEW pairs,
               NEW r \in ListQuery(pairs) \cup AdminDeviceListQuery(pairs)
                           \cup CameraListQuery(pairs)
        PROVE  PageShowsItsRows(r.page, r.size) /\ TotalCountsPages(r.page, r.size)
    BY AcceptedBounds, PagesShowTheirRows, TotalsCountPages
  <2>. QED BY <2>1 DEF AcceptedPagesTile
<1>. QED BY <1>1, PTL

(***************************************************************************)
(* The order of the pairs of a query string.                               *)
(***************************************************************************)
LEMMA ShufflesCover ==
  ASSUME NEW n \in Nat, NEW p \in Orders(n)
  PROVE  /\ p \in [1 .. n -> 1 .. n]
         /\ \A i, j \in 1 .. n : p[i] = p[j] => i = j
         /\ \A k \in 1 .. n : \E i \in 1 .. n : p[i] = k
<1> DEFINE T == {p[i] : i \in 1 .. n}
<1>1. p \in [1 .. n -> 1 .. n] /\ \A i, j \in 1 .. n : p[i] = p[j] => i = j
  BY DEF Orders
<1>2. IsFiniteSet(1 .. n) /\ Cardinality(1 .. n) = n
  BY FS_Interval
<1>3. T \in SUBSET (1 .. n)
  BY <1>1
<1>4. p \in Injection(1 .. n, T)
  <2>1. p \in [1 .. n -> T]
    BY <1>1
  <2>2. QED
    BY <1>1, <2>1 DEF Injection, IsInjective
<1>5. IsFiniteSet(T) /\ Cardinality(1 .. n) <= Cardinality(T) /\ Cardinality(T) <= n
      /\ Cardinality(T) \in Nat
  <2>1. IsFiniteSet(T) /\ Cardinality(T) <= Cardinality(1 .. n)
    BY <1>2, <1>3, FS_Subset
  <2>2. QED
    BY <1>2, <1>4, <2>1, FS_Injection, FS_CardinalityType
<1>6. T = 1 .. n
  <2> HIDE DEF T
  <2>1. Cardinality(1 .. n) = Cardinality(T)
    BY <1>2, <1>5
  <2>2. QED
    BY <1>2, <1>3, <2>1, FS_Subset
<1>7. QED
  BY <1>1, <1>6

(* What the three parsers do with a query string that has its keys.        *)
ListReading(fits, q, category, hasBrand, brand, sort, pages, sizes) ==
  {reading \in [q : {q}, brand : {brand}, sort : {sort}, page : pages, size : sizes] :
     /\ fits
     /\ q \notin TooLong
     /\ category = "smartphone"
     /\ hasBrand => brand \in Slugs
     /\ sort \in {"relevance", "release_date_desc"}}

AdminReading(fits, category, q, field, brand, status, sort, pages, sizes) ==
  {reading \in [q : {q}, field : {field}, brand : {brand}, status : {status}, sort : {sort},
                page : pages, size : sizes] :
     /\ fits
     /\ category = "smartphone"
     /\ q \notin TooLong \cup Controls
     /\ field \in {"name", "model_number"}
     /\ brand \in Slugs \cup {""}
     /\ status \in {"", "draft", "published", "archived"}
     /\ sort \in {"release_date_asc", "release_date_desc"}}

CameraReading(fits, q, hasSeries, series, pages, sizes) ==
  {reading \in [q : {q}, series : {series}, page : pages, size : sizes] :
     /\ fits
     /\ q \notin TooLong \cup Controls
     /\ hasSeries => series \notin TooLong \cup Controls \cup {""}}

ListKeys == {"q", "category", "brand", "page", "page_size", "sort"}
AdminKeys == {"q", "search_field", "brand", "publication_status",
              "sort", "page", "page_size", "category"}
CameraKeys == {"q", "series", "page", "page_size"}

LEMMA ReadingsAre ==
  ASSUME NEW pairs
  PROVE  /\ ListQuery(pairs) =
              ListReading(KeysFit(pairs, ListKeys), ValueOf(pairs, "q", ""),
                          ValueOf(pairs, "category", "smartphone"),
                          Given(pairs, "brand"), ValueOf(pairs, "brand", ""),
                          ValueOf(pairs, "sort", IF ValueOf(pairs, "q", "") \in Searches
                                                 THEN "relevance" ELSE "release_date_desc"),
                          ParseBoundedU32(pairs, "page", MaxPage, 1),
                          ParseBoundedU32(pairs, "page_size", MaxPageSize, DeviceListSize))
         /\ AdminDeviceListQuery(pairs) =
              AdminReading(KeysFit(pairs, AdminKeys),
                           ValueOf(pairs, "category", "smartphone"), ValueOf(pairs, "q", ""),
                           ValueOf(pairs, "search_field", "name"), ValueOf(pairs, "brand", ""),
                           ValueOf(pairs, "publication_status", ""),
                           ValueOf(pairs, "sort", "release_date_desc"),
                           ParseBoundedU32(pairs, "page", MaxPage, 1),
                           ParseBoundedU32(pairs, "page_size", MaxPageSize, DeviceListSize))
         /\ CameraListQuery(pairs) =
              CameraReading(KeysFit(pairs, CameraKeys), ValueOf(pairs, "q", ""),
                            Given(pairs, "series"), ValueOf(pairs, "series", ""),
                            ParsePageValue(pairs, "page", MaxPage, 1),
                            ParsePageValue(pairs, "page_size", MaxPageSize, CameraListSize))
BY Zenon DEF ListQuery, ListReading, AdminDeviceListQuery, AdminReading, CameraListQuery,
             CameraReading, ListKeys, AdminKeys, CameraKeys

(* Nothing that the parsers look at depends on the order of the pairs,     *)
(* once no key is given twice.                                             *)
LEMMA ShuffledAlike ==
  ASSUME NEW pairs \in Seq([key : STRING, value : STRING]), NEW p \in Orders(Len(pairs)),
         NEW shuffled, shuffled = [i \in DOMAIN pairs |-> pairs[p[i]]]
  PROVE  /\ \A known : KeysFit(shuffled, known) \in BOOLEAN /\ KeysFit(shuffled, known) = KeysFit(pairs, known)
         /\ \A key : Given(shuffled, key) = Given(pairs, key)
         /\ \A known : KeysFit(pairs, known) =>
              \A key, default : ValueOf(shuffled, key, default) = ValueOf(pairs, key, default)
<1> DEFINE n == Len(pairs)
<1>1. n \in Nat /\ DOMAIN pairs = 1 .. n
  OBVIOUS
<1>2. /\ \A i \in 1 .. n : p[i] \in 1 .. n
      /\ \A i, j \in 1 .. n : p[i] = p[j] => i = j
      /\ \A k \in 1 .. n : \E i \in 1 .. n : p[i] = k
  BY <1>1, ShufflesCover
<1>3. DOMAIN shuffled = 1 .. n /\ \A i \in 1 .. n : shuffled[i] = pairs[p[i]]
  BY <1>1
<1> HIDE DEF n
<1>11. \A i \in 1 .. n : p[i] \in 1 .. n
  BY <1>2
<1>12. \A k \in 1 .. n : \E i \in 1 .. n : p[i] = k
  BY <1>2
<1>4. ASSUME NEW known PROVE KeysFit(shuffled, known) <=> KeysFit(pairs, known)
  <2>1. ASSUME KeysFit(pairs, known) PROVE KeysFit(shuffled, known)
    <3>1. \A i \in 1 .. n : shuffled[i].key \in known
      BY <1>1, <1>3, <1>11, <2>1 DEF KeysFit
    <3>2. ASSUME NEW i \in 1 .. n, NEW j \in 1 .. n, shuffled[i].key = shuffled[j].key
          PROVE  i = j
      <4>1. p[i] = p[j]
        BY <1>1, <1>3, <1>11, <2>1, <3>2 DEF KeysFit
      <4>2. QED
        BY <4>1, <1>2
    <3>3. QED
      BY <1>3, <3>1, <3>2 DEF KeysFit
  <2>2. ASSUME KeysFit(shuffled, known) PROVE KeysFit(pairs, known)
    <3>1. ASSUME NEW k \in 1 .. n PROVE pairs[k].key \in known
      <4>1. PICK i \in 1 .. n : p[i] = k
        BY <1>2
      <4>2. QED
        BY <4>1, <1>3, <2>2 DEF KeysFit
    <3>2. ASSUME NEW k \in 1 .. n, NEW l \in 1 .. n, pairs[k].key = pairs[l].key
          PROVE  k = l
      <4>1. PICK i \in 1 .. n : p[i] = k
        BY <1>2
      <4>2. PICK j \in 1 .. n : p[j] = l
        BY <1>2
      <4>3. i = j
        BY <4>1, <4>2, <1>3, <2>2, <3>2 DEF KeysFit
      <4>4. QED
        BY <4>1, <4>2, <4>3
    <3>3. QED
      BY <1>1, <3>1, <3>2 DEF KeysFit
  <2>3. QED
    BY <2>1, <2>2
<1>5. ASSUME NEW key PROVE Given(shuffled, key) <=> Given(pairs, key)
  <2>1. ASSUME NEW i \in 1 .. n, shuffled[i].key = key
        PROVE  \E k \in 1 .. n : pairs[k].key = key
    BY <1>3, <1>11, <2>1
  <2>2. ASSUME NEW k \in 1 .. n, pairs[k].key = key
        PROVE  \E i \in 1 .. n : shuffled[i].key = key
    <3>1. PICK i \in 1 .. n : p[i] = k
      BY <1>12
    <3>2. QED
      BY <1>3, <2>2, <3>1
  <2>3. QED
    BY <1>1, <1>3, <2>1, <2>2 DEF Given
<1>6. ASSUME NEW known, KeysFit(pairs, known), NEW key, NEW default
      PROVE  ValueOf(shuffled, key, default) = ValueOf(pairs, key, default)
  <2>1. CASE ~Given(pairs, key)
    BY <1>5, <2>1 DEF ValueOf
  <2>2. CASE Given(pairs, key)
    <3>1. PICK k \in 1 .. n : pairs[k].key = key
      BY <2>2, <1>1 DEF Given
    <3>2. PICK i \in 1 .. n : p[i] = k
      BY <1>2
    <3>3. \A j \in 1 .. n : pairs[j].key = key => j = k
      BY <1>1, <1>6, <3>1 DEF KeysFit
    <3>4. ASSUME NEW j \in 1 .. n, shuffled[j].key = key PROVE j = i
      <4>1. p[j] = k
        BY <1>3, <1>11, <3>3, <3>4
      <4>2. QED
        BY <4>1, <3>2, <1>2
    <3>5. shuffled[i] = pairs[k] /\ shuffled[i].key = key
      BY <1>3, <3>1, <3>2
    <3>6. \A j \in 1 .. n : j <= j
      BY <1>1
    <3>7. (CHOOSE j \in DOMAIN pairs : /\ pairs[j].key = key
             /\ \A l \in DOMAIN pairs : pairs[l].key = key => l <= j) = k
      BY <1>1, <3>1, <3>3, <3>6
    <3>8. (CHOOSE j \in DOMAIN shuffled : /\ shuffled[j].key = key
             /\ \A l \in DOMAIN shuffled : shuffled[l].key = key => l <= j) = i
      BY <1>3, <3>4, <3>5, <3>6
    <3>9. Given(shuffled, key)
      BY <2>2, <1>5
    <3>10. ValueOf(pairs, key, default) = pairs[k].value
      BY <2>2, <3>7 DEF ValueOf
    <3>11. ValueOf(shuffled, key, default) = shuffled[i].value
      BY <3>9, <3>8 DEF ValueOf
    <3>12. QED
      BY <3>5, <3>10, <3>11
  <2>3. QED
    BY <2>1, <2>2
<1>7. \A known : KeysFit(shuffled, known) \in BOOLEAN /\ KeysFit(pairs, known) \in BOOLEAN
  BY DEF KeysFit
<1>8. \A key : Given(shuffled, key) \in BOOLEAN /\ Given(pairs, key) \in BOOLEAN
  BY DEF Given
<1>9. QED
  BY <1>4, <1>5, <1>6, <1>7, <1>8

LEMMA ParsedAlike ==
  ASSUME NEW pairs, NEW shuffled,
         \A key : Given(shuffled, key) = Given(pairs, key),
         \A key, default : ValueOf(shuffled, key, default) = ValueOf(pairs, key, default)
  PROVE  \A key, maximum, default :
           /\ ParseBoundedU32(shuffled, key, maximum, default)
                = ParseBoundedU32(pairs, key, maximum, default)
           /\ ParsePageValue(shuffled, key, maximum, default)
                = ParsePageValue(pairs, key, maximum, default)
BY Zenon DEF ParseBoundedU32, ParsePageValue

(* A query string means the same whatever the order of its pairs.          *)
LEMMA OrderIsIgnored ==
  ASSUME NEW pairs \in Seq([key : STRING, value : STRING]), NEW p \in Orders(Len(pairs)),
         NEW shuffled, shuffled = [i \in DOMAIN pairs |-> pairs[p[i]]]
  PROVE  /\ ListQuery(shuffled) = ListQuery(pairs)
         /\ AdminDeviceListQuery(shuffled) = AdminDeviceListQuery(pairs)
         /\ CameraListQuery(shuffled) = CameraListQuery(pairs)
<1>1. /\ \A known : KeysFit(shuffled, known) = KeysFit(pairs, known)
      /\ \A key : Given(shuffled, key) = Given(pairs, key)
      /\ \A known : KeysFit(pairs, known) =>
           \A key, default : ValueOf(shuffled, key, default) = ValueOf(pairs, key, default)
  BY ShuffledAlike
<1>2. \A known : KeysFit(pairs, known) =>
        \A key, maximum, default :
           /\ ParseBoundedU32(shuffled, key, maximum, default)
                = ParseBoundedU32(pairs, key, maximum, default)
           /\ ParsePageValue(shuffled, key, maximum, default)
                = ParsePageValue(pairs, key, maximum, default)
  BY <1>1, ParsedAlike
<1>3. ListQuery(shuffled) = ListQuery(pairs)
  <2>1. CASE KeysFit(pairs, ListKeys)
    BY <1>1, <1>2, <2>1, ReadingsAre, Zenon
  <2>2. CASE ~KeysFit(pairs, ListKeys)
    <3>1. ListQuery(shuffled) = {} /\ ListQuery(pairs) = {}
      BY <1>1, <2>2 DEF ListQuery, ListKeys
    <3>2. QED
      BY <3>1
  <2>3. QED
    BY <2>1, <2>2
<1>4. AdminDeviceListQuery(shuffled) = AdminDeviceListQuery(pairs)
  <2>1. CASE KeysFit(pairs, AdminKeys)
    BY <1>1, <1>2, <2>1, ReadingsAre, Zenon
  <2>2. CASE ~KeysFit(pairs, AdminKeys)
    <3>1. AdminDeviceListQuery(shuffled) = {} /\ AdminDeviceListQuery(pairs) = {}
      BY <1>1, <2>2 DEF AdminDeviceListQuery, AdminKeys
    <3>2. QED
      BY <3>1
  <2>3. QED
    BY <2>1, <2>2
<1>5. CameraListQuery(shuffled) = CameraListQuery(pairs)
  <2>1. CASE KeysFit(pairs, CameraKeys)
    BY <1>1, <1>2, <2>1, ReadingsAre, Zenon
  <2>2. CASE ~KeysFit(pairs, CameraKeys)
    <3>1. CameraListQuery(shuffled) = {} /\ CameraListQuery(pairs) = {}
      BY <1>1, <2>2 DEF CameraListQuery, CameraKeys
    <3>2. QED
      BY <3>1
  <2>3. QED
    BY <2>1, <2>2
<1>6. QED
  BY <1>3, <1>4, <1>5

QuestionFits == question \in Questions \cup {NoQuestion}

LEMMA QuestionsAreAsked == QueriesSpec => []QuestionFits
<1>1. QueriesInit => QuestionFits
  BY DEF QueriesInit, QuestionFits
<1>2. QuestionFits /\ [QueriesNext]_question => QuestionFits'
  BY DEF QueriesNext, Ask, Answer, QuestionFits
<1>3. QED
  BY <1>1, <1>2, PTL DEF QueriesSpec

(* No list answers one order of a query string's pairs and refuses another *)
(* or reads it otherwise (parse_query_pairs and the three list parsers).   *)
THEOREM OrderNeverMatters == QueriesSpec => []ReadingIgnoresOrder
<1>1. ASSUME QuestionFits PROVE ReadingIgnoresOrder
  <2>1. SUFFICES ASSUME Asked("list"), NEW p \in Orders(Len(question.pairs))
                 PROVE  LET pairs == question.pairs
                            shuffled == [i \in DOMAIN pairs |-> pairs[p[i]]]
                        IN /\ ListQuery(shuffled) = ListQuery(pairs)
                           /\ AdminDeviceListQuery(shuffled) = AdminDeviceListQuery(pairs)
                           /\ CameraListQuery(shuffled) = CameraListQuery(pairs)
    BY Zenon DEF ReadingIgnoresOrder
  <2>2. question.pairs \in Seq([key : STRING, value : STRING])
    BY <1>1, <2>1, QueriesAssumption DEF Asked, QuestionFits
  <2>3. QED
    BY <2>2, OrderIsIgnored
<1>2. QED
  BY <1>1, QuestionsAreAsked, PTL

(***************************************************************************)
(* Spec keys.                                                              *)
(***************************************************************************)
Visit == [valid : BOOLEAN, previous : BOOLEAN, extra : Nat]
FirstVisit == [valid |-> TRUE, previous |-> TRUE, extra |-> 0]

(* v is what the loop has after each of its rounds.                        *)
VisitedInTurn(v, provided) ==
  /\ v \in [0 .. Len(SubDisplayGroups) -> Visit] /\ v[0] = FirstVisit
  /\ \A k \in 1 .. Len(SubDisplayGroups) : v[k] = VisitGroup(v[k - 1], k, provided)

VisitsSets(iter, provided) ==
  iter = [s \in SUBSET DOMAIN [i \in DOMAIN SubDisplayGroups |-> i] |->
            IF s = {} THEN FirstVisit
            ELSE VisitGroup(iter[s \ {Max(s)}],
                            [i \in DOMAIN SubDisplayGroups |-> i][Max(s)], provided)]

LEMMA GroupsAreDisjoint ==
  /\ Len(SubDisplayGroups) \in Nat /\ DOMAIN SubDisplayGroups = 1 .. Len(SubDisplayGroups)
  /\ \A g \in 1 .. Len(SubDisplayGroups) :
       /\ SubDisplayGroups[g] # {} /\ IsFiniteSet(SubDisplayGroups[g])
       /\ Cardinality(SubDisplayGroups[g]) \in Nat
       /\ RequiredKeys \cap SubDisplayGroups[g] = {} /\ SubDisplayNames[g] \notin RequiredKeys
  /\ \A g, h \in 1 .. Len(SubDisplayGroups) :
       /\ SubDisplayNames[g] \notin SubDisplayGroups[h]
       /\ g # h => /\ SubDisplayGroups[g] \cap SubDisplayGroups[h] = {}
                   /\ SubDisplayNames[g] # SubDisplayNames[h]
<1>1. /\ Len(SubDisplayGroups) \in Nat
      /\ DOMAIN SubDisplayGroups = 1 .. Len(SubDisplayGroups)
  BY SpecKeysAssumption
<1>2. QED
  BY <1>1, SpecKeysAssumption, FS_CardinalityType

Present(g, provided) == SubDisplayGroups[g] \cap provided # {}

(* What a round finds to be wrong with a group.                            *)
GroupFits(g, provided) ==
  /\ Present(g, provided) => SubDisplayGroups[g] \subseteq provided
  /\ Present(g, provided) => g = 1 \/ Present(g - 1, provided)
  /\ SubDisplayNames[g] \in provided => Present(g, provided)

LEMMA GroupCounts ==
  ASSUME NEW g \in 1 .. Len(SubDisplayGroups), NEW provided
  PROVE  /\ Cardinality(SubDisplayGroups[g] \cap provided) \in Nat
         /\ Cardinality(SubDisplayGroups[g] \cap provided) = 0 <=> ~ Present(g, provided)
         /\ Cardinality(SubDisplayGroups[g] \cap provided)
              \in {0, Cardinality(SubDisplayGroups[g])}
              <=> (Present(g, provided) => SubDisplayGroups[g] \subseteq provided)
<1> DEFINE G == SubDisplayGroups[g]
           T == G \cap provided
<1>1. IsFiniteSet(G) /\ G # {}
  BY GroupsAreDisjoint
<1> HIDE DEF G
<1>2. /\ T \in SUBSET G /\ IsFiniteSet(T) /\ Cardinality(T) \in Nat
      /\ Cardinality(G) \in Nat /\ (Cardinality(T) = Cardinality(G) => T = G)
      /\ Cardinality(T) = 0 <=> T = {}
  <2>1. T \in SUBSET G
    OBVIOUS
  <2> HIDE DEF T
  <2>2. IsFiniteSet(T) /\ (Cardinality(G) = Cardinality(T) => G = T)
    BY <1>1, <2>1, FS_Subset
  <2>3. QED
    BY <1>1, <2>1, <2>2, FS_CardinalityType, FS_EmptySet
<1>3. T = {} \/ G \subseteq provided <=> Cardinality(T) \in {0, Cardinality(G)}
  BY <1>1, <1>2
<1>4. Present(g, provided) <=> T # {}
  BY DEF Present, G
<1>5. QED
  BY <1>2, <1>3, <1>4 DEF G

LEMMA VisitKeeps ==
  ASSUME NEW acc \in Visit, NEW g \in 1 .. Len(SubDisplayGroups), NEW provided
  PROVE  VisitGroup(acc, g, provided) \in Visit
<1>1. Cardinality(SubDisplayGroups[g] \cap provided) \in Nat
  BY GroupCounts
<1>2. acc.extra \in Nat
  BY DEF Visit
<1>3. QED
  BY <1>1, <1>2 DEF VisitGroup, Visit

LEMMA GroupsAreVisited ==
  ASSUME NEW provided
  PROVE  \E v : /\ VisitedInTurn(v, provided)
                /\ SpecKeysAreValid(provided) <=>
                     /\ RequiredKeys \subseteq provided
                     /\ v[Len(SubDisplayGroups)].valid
                     /\ Cardinality(provided) =
                          Cardinality(RequiredKeys) + v[Len(SubDisplayGroups)].extra
<1> DEFINE n == Len(SubDisplayGroups)
           step == [p \in Visit \X (1 .. n) |-> VisitGroup(p[1], p[2], provided)]
<1>1. n \in Nat /\ DOMAIN SubDisplayGroups = 1 .. n
  BY GroupsAreDisjoint
<1>2. FirstVisit \in Visit
  BY DEF FirstVisit, Visit
<1>3. step \in [Visit \X (1 .. n) -> Visit]
  BY VisitKeeps
<1>4. PICK g : /\ FoldsLeft(g, FirstVisit, step, SUBSET (1 .. n))
               /\ g \in [SUBSET (1 .. n) -> Visit]
  <2> HIDE DEF step, n
  <2>1. QED
    BY <1>1, <1>2, <1>3, FoldExists
<1>5. DOMAIN [i \in DOMAIN SubDisplayGroups |-> i] = 1 .. n
  BY <1>1
<1>6. VisitsSets(g, provided)
  <2>1. ASSUME NEW s \in SUBSET (1 .. n), s # {}
        PROVE  /\ step[<<g[s \ {Max(s)}], Max(s)>>]
                    = VisitGroup(g[s \ {Max(s)}], Max(s), provided)
               /\ [i \in DOMAIN SubDisplayGroups |-> i][Max(s)] = Max(s)
    <3>1. Max(s) \in 1 .. n /\ s \ {Max(s)} \in SUBSET (1 .. n)
      BY <1>1, <2>1, LastPosition
    <3>2. g[s \ {Max(s)}] \in Visit
      BY <1>4, <3>1
    <3>3. QED
      BY <1>1, <3>1, <3>2
  <2>2. g = [s \in SUBSET (1 .. n) |->
               IF s = {} THEN FirstVisit ELSE step[<<g[s \ {Max(s)}], Max(s)>>]]
    BY <1>4 DEF FoldsLeft
  <2> HIDE DEF step
  <2>3. g = [s \in SUBSET (1 .. n) |->
               IF s = {} THEN FirstVisit
               ELSE VisitGroup(g[s \ {Max(s)}],
                               [i \in DOMAIN SubDisplayGroups |-> i][Max(s)], provided)]
    BY <2>1, <2>2
  <2>4. QED
    BY <1>5, <2>3 DEF VisitsSets
<1> DEFINE iter == CHOOSE f : VisitsSets(f, provided)
           v == [k \in 0 .. n |-> iter[1 .. k]]
<1>7. VisitsSets(iter, provided)
  BY <1>6
<1>8. FoldLeftDomain(LAMBDA acc, h : VisitGroup(acc, h, provided),
                     [valid |-> TRUE, previous |-> TRUE, extra |-> 0], SubDisplayGroups)
        = iter[1 .. n]
  <2>1. FoldLeftDomain(LAMBDA acc, h : VisitGroup(acc, h, provided),
                     [valid |-> TRUE, previous |-> TRUE, extra |-> 0], SubDisplayGroups)
          = iter[DOMAIN [i \in DOMAIN SubDisplayGroups |-> i]]
    BY DEF FoldLeftDomain, FoldLeft, MapThenFoldSet, VisitsSets, FirstVisit
  <2>2. QED
    BY <1>5, <2>1
<1> HIDE DEF iter
<1>9. iter = [s \in SUBSET (1 .. n) |->
                IF s = {} THEN FirstVisit
                ELSE VisitGroup(iter[s \ {Max(s)}],
                                [i \in DOMAIN SubDisplayGroups |-> i][Max(s)], provided)]
  BY <1>5, <1>7 DEF VisitsSets
<1>10. v[0] = FirstVisit
  BY <1>1, <1>9
<1>11. ASSUME NEW k \in 1 .. n PROVE v[k] = VisitGroup(v[k - 1], k, provided)
  <2>1. /\ 1 .. k # {} /\ Max(1 .. k) = k
        /\ (1 .. k) \ {Max(1 .. k)} = 1 .. (k - 1)
    BY <1>1, FirstPositions
  <2>2. 1 .. k \in SUBSET (1 .. n)
    BY <1>1
  <2>3. iter[1 .. k] = VisitGroup(iter[(1 .. k) \ {Max(1 .. k)}],
                                  [i \in DOMAIN SubDisplayGroups |-> i][Max(1 .. k)], provided)
    BY <1>9, <2>1, <2>2, Zenon
  <2>4. [i \in DOMAIN SubDisplayGroups |-> i][Max(1 .. k)] = k
    BY <1>1, <2>1
  <2>5. v[k] = iter[1 .. k] /\ v[k - 1] = iter[1 .. (k - 1)]
    BY <1>1
  <2>6. QED
    BY <2>1, <2>3, <2>4, <2>5
<1> HIDE DEF v
<1>12. v \in [0 .. n -> Visit]
  <2> DEFINE Bad == {k \in 0 .. n : v[k] \notin Visit}
  <2>1. SUFFICES ASSUME Bad # {} PROVE FALSE
    BY DEF v
  <2>2. PICK k \in Bad : \A j \in Bad : k <= j
    <3>1. Bad \in SUBSET Nat
      BY <1>1
    <3>2. QED
      BY <2>1, <3>1, LeastNatural
  <2>3. k \in 1 .. n
    BY <1>1, <1>2, <1>10, <2>2
  <2>4. v[k - 1] \in Visit
    BY <1>1, <2>2, <2>3
  <2>5. QED
    BY <1>11, <2>3, <2>4, VisitKeeps
<1>13. VisitedInTurn(v, provided)
  BY <1>10, <1>11, <1>12 DEF VisitedInTurn
<1>14. v[n] = iter[1 .. n]
  BY <1>1 DEF v
<1>15. SpecKeysAreValid(provided) <=>
         /\ RequiredKeys \subseteq provided /\ iter[1 .. n].valid
         /\ Cardinality(provided) = Cardinality(RequiredKeys) + iter[1 .. n].extra
  BY <1>8, Zenon DEF SpecKeysAreValid
<1>16. QED
  BY <1>13, <1>14, <1>15, Zenon

(* The keys of the first k sub displays.                                   *)
FirstGroups(k) == UNION {SubDisplayGroups[g] : g \in 1 .. k}
FirstNames(k) == {SubDisplayNames[g] : g \in 1 .. k}
SubKeys(k) == FirstGroups(k) \cup FirstNames(k)

LEMMA KeysAreThose ==
  ASSUME NEW k, NEW x
  PROVE  /\ x \in FirstGroups(k) <=> \E g \in 1 .. k : x \in SubDisplayGroups[g]
         /\ x \in FirstNames(k) <=> \E g \in 1 .. k : x = SubDisplayNames[g]
         /\ x \in SubKeys(k) <=> \E g \in 1 .. k : \/ x \in SubDisplayGroups[g]
                                                   \/ x = SubDisplayNames[g]
<1>1. x \in FirstGroups(k) <=> \E g \in 1 .. k : x \in SubDisplayGroups[g]
  BY Zenon DEF FirstGroups
<1>2. x \in FirstNames(k) <=> \E g \in 1 .. k : x = SubDisplayNames[g]
  BY DEF FirstNames
<1>3. QED
  BY <1>1, <1>2, Zenon DEF SubKeys

LEMMA SubKeysGrow ==
  ASSUME NEW k \in 1 .. Len(SubDisplayGroups)
  PROVE  /\ SubKeys(k) = SubKeys(k - 1) \cup SubDisplayGroups[k] \cup {SubDisplayNames[k]}
         /\ SubKeys(k - 1) \cap SubDisplayGroups[k] = {}
         /\ SubDisplayNames[k] \notin SubKeys(k - 1) \cup SubDisplayGroups[k]
<1>1. /\ k \in Nat /\ 1 .. k = (1 .. (k - 1)) \cup {k} /\ k \notin 1 .. (k - 1)
      /\ 1 .. (k - 1) \subseteq 1 .. Len(SubDisplayGroups)
  BY GroupsAreDisjoint
<1>2. \A g, h \in 1 .. Len(SubDisplayGroups) :
       /\ SubDisplayNames[g] \notin SubDisplayGroups[h]
       /\ g # h => /\ SubDisplayGroups[g] \cap SubDisplayGroups[h] = {}
                   /\ SubDisplayNames[g] # SubDisplayNames[h]
  BY GroupsAreDisjoint
<1>3. ASSUME NEW x
      PROVE  x \in SubKeys(k) <=>
               x \in SubKeys(k - 1) \cup SubDisplayGroups[k] \cup {SubDisplayNames[k]}
  <2>1. x \in SubKeys(k) <=> \E g \in 1 .. k : \/ x \in SubDisplayGroups[g]
                                               \/ x = SubDisplayNames[g]
    BY KeysAreThose
  <2>2. x \in SubKeys(k - 1) <=> \E g \in 1 .. (k - 1) : \/ x \in SubDisplayGroups[g]
                                                         \/ x = SubDisplayNames[g]
    BY KeysAreThose
  <2>3. QED
    BY <1>1, <2>1, <2>2, Zenon
<1>5. ASSUME NEW x \in SubKeys(k - 1)
      PROVE  x \notin SubDisplayGroups[k] /\ x # SubDisplayNames[k]
  <2>1. PICK g \in 1 .. (k - 1) : x \in SubDisplayGroups[g] \/ x = SubDisplayNames[g]
    BY KeysAreThose
  <2>2. g # k /\ g \in 1 .. Len(SubDisplayGroups)
    BY <1>1
  <2>3. QED
    BY <2>1, <2>2, <1>2
<1>6. QED
  BY <1>2, <1>3, <1>5

LEMMA SubKeysCount ==
  ASSUME NEW k \in 1 .. Len(SubDisplayGroups), NEW provided, IsFiniteSet(provided)
  PROVE  Cardinality(provided \cap SubKeys(k)) =
           Cardinality(provided \cap SubKeys(k - 1))
             + Cardinality(SubDisplayGroups[k] \cap provided)
             + (IF SubDisplayNames[k] \in provided THEN 1 ELSE 0)
<1> DEFINE A == provided \cap SubKeys(k - 1)
           B == SubDisplayGroups[k] \cap provided
           C == provided \cap {SubDisplayNames[k]}
<1>1. provided \cap SubKeys(k) = (A \cup B) \cup C
  BY SubKeysGrow
<1>2. A \cap B = {} /\ (A \cup B) \cap C = {}
  BY SubKeysGrow
<1>3. IsFiniteSet(A) /\ IsFiniteSet(B) /\ IsFiniteSet(C)
  BY FS_Subset
<1>4. Cardinality(C) = IF SubDisplayNames[k] \in provided THEN 1 ELSE 0
  <2>1. CASE SubDisplayNames[k] \in provided
    <3>1. C = {SubDisplayNames[k]}
      BY <2>1
    <3>2. QED
      BY <2>1, <3>1, FS_Singleton
  <2>2. CASE SubDisplayNames[k] \notin provided
    <3>1. C = {}
      BY <2>2
    <3>2. QED
      BY <2>2, <3>1, FS_EmptySet
  <2>3. QED
    BY <2>1, <2>2
<1> HIDE DEF A, B, C
<1>5. /\ IsFiniteSet(A \cup B)
      /\ Cardinality(A \cup B) = Cardinality(A) + Cardinality(B) - Cardinality(A \cap B)
  BY <1>3, FS_Union
<1>6. Cardinality((A \cup B) \cup C)
        = Cardinality(A \cup B) + Cardinality(C) - Cardinality((A \cup B) \cap C)
  BY <1>3, <1>5, FS_Union
<1>7. Cardinality(A) \in Nat /\ Cardinality(B) \in Nat /\ Cardinality(C) \in Nat
      /\ Cardinality({}) = 0
  BY <1>3, FS_CardinalityType, FS_EmptySet
<1>8. Cardinality(provided \cap SubKeys(k)) = Cardinality(A) + Cardinality(B) + Cardinality(C)
  <2>1. Cardinality(A \cap B) = 0 /\ Cardinality((A \cup B) \cap C) = 0
    BY <1>2, <1>7
  <2>2. Cardinality(A \cup B) = Cardinality(A) + Cardinality(B)
    BY <1>5, <1>7, <2>1
  <2>3. Cardinality((A \cup B) \cup C) = Cardinality(A \cup B) + Cardinality(C)
    BY <1>6, <1>7, <2>1, <2>2
  <2>4. QED
    BY <1>1, <2>2, <2>3
<1>9. QED
  BY <1>4, <1>8 DEF A, B

(* After k rounds: all groups fit, whether the last is there, and how many *)
(* keys of sub displays have been counted.                                 *)
Counted(v, k, provided) ==
  /\ v[k].valid = (\A g \in 1 .. k : GroupFits(g, provided))
  /\ v[k].previous = (k = 0 \/ Present(k, provided))
  /\ v[k].extra = Cardinality(provided \cap SubKeys(k))

LEMMA RoundCounts ==
  ASSUME NEW v, NEW provided, IsFiniteSet(provided), VisitedInTurn(v, provided),
         NEW k \in 1 .. Len(SubDisplayGroups), Counted(v, k - 1, provided)
  PROVE  Counted(v, k, provided)
<1> DEFINE present == Cardinality(SubDisplayGroups[k] \cap provided)
           named == IF SubDisplayNames[k] \in provided THEN 1 ELSE 0
           w == v[k - 1]
<1>1. k \in Nat /\ k - 1 \in 0 .. Len(SubDisplayGroups) /\ k # 0
      /\ 1 .. k = (1 .. (k - 1)) \cup {k}
  BY GroupsAreDisjoint
<1>2. w \in Visit /\ v[k] = VisitGroup(w, k, provided)
  BY <1>1 DEF VisitedInTurn
<1>3. /\ present \in Nat /\ (present = 0 <=> ~ Present(k, provided))
      /\ present \in {0, Cardinality(SubDisplayGroups[k])}
           <=> (Present(k, provided) => SubDisplayGroups[k] \subseteq provided)
  BY GroupCounts
<1>4. named # 0 <=> SubDisplayNames[k] \in provided
  OBVIOUS
<1>5. /\ v[k].valid = (/\ w.valid
                       /\ present \in {0, Cardinality(SubDisplayGroups[k])}
                       /\ present # 0 => w.previous
                       /\ named # 0 => present # 0)
      /\ v[k].previous = (present # 0)
      /\ v[k].extra = w.extra + present + named
  <2>1. v[k] = [valid |-> /\ w.valid
                          /\ present \in {0, Cardinality(SubDisplayGroups[k])}
                          /\ present # 0 => w.previous
                          /\ named # 0 => present # 0,
                previous |-> present # 0,
                extra |-> w.extra + present + named]
    BY <1>2, Zenon DEF VisitGroup
  <2> HIDE DEF present, named, w
  <2>2. QED
    BY <2>1
<1>6. /\ w.valid = (\A g \in 1 .. (k - 1) : GroupFits(g, provided))
      /\ w.previous = (k - 1 = 0 \/ Present(k - 1, provided))
      /\ w.extra = Cardinality(provided \cap SubKeys(k - 1))
  BY DEF Counted
<1> HIDE DEF present, named, w
<1>7. k - 1 = 0 <=> k = 1
  BY <1>1
<1>8. (/\ present \in {0, Cardinality(SubDisplayGroups[k])}
       /\ present # 0 => (k - 1 = 0 \/ Present(k - 1, provided))
       /\ named # 0 => present # 0) <=> GroupFits(k, provided)
  BY <1>3, <1>4, <1>7, Zenon DEF GroupFits
<1>9. (\A g \in 1 .. k : GroupFits(g, provided))
        <=> (\A g \in 1 .. (k - 1) : GroupFits(g, provided)) /\ GroupFits(k, provided)
  BY <1>1, Zenon
<1>10. v[k].valid = (\A g \in 1 .. k : GroupFits(g, provided))
  BY <1>5, <1>6, <1>8, <1>9, Zenon
<1>11. v[k].previous = (k = 0 \/ Present(k, provided))
  BY <1>1, <1>3, <1>5, Zenon
<1>12. v[k].extra = Cardinality(provided \cap SubKeys(k))
  BY <1>5, <1>6, SubKeysCount DEF present, named
<1>13. QED
  BY <1>10, <1>11, <1>12, Zenon DEF Counted

LEMMA AllRoundsCount ==
  ASSUME NEW v, NEW provided, IsFiniteSet(provided), VisitedInTurn(v, provided)
  PROVE  Counted(v, Len(SubDisplayGroups), provided)
<1> DEFINE n == Len(SubDisplayGroups)
           Bad == {k \in 0 .. n : ~ Counted(v, k, provided)}
<1>1. n \in Nat
  BY GroupsAreDisjoint
<1>2. SUFFICES ASSUME Bad # {} PROVE FALSE
  BY <1>1
<1>3. PICK k \in Bad : \A j \in Bad : k <= j
  <2>1. Bad \in SUBSET Nat
    BY <1>1
  <2>2. QED
    BY <1>2, <2>1, LeastNatural
<1>4. Counted(v, 0, provided)
  <2>1. v[0] = FirstVisit
    BY DEF VisitedInTurn
  <2>2. v[0].valid = TRUE /\ v[0].previous = TRUE /\ v[0].extra = 0
    BY <2>1 DEF FirstVisit
  <2>3. 1 .. 0 = {}
    OBVIOUS
  <2>4. SubKeys(0) = {}
    BY <2>3 DEF SubKeys, FirstGroups, FirstNames
  <2>5. Cardinality(provided \cap SubKeys(0)) = 0
    BY <2>4, FS_EmptySet
  <2>6. \A g \in 1 .. 0 : GroupFits(g, provided)
    BY <2>3
  <2>7. QED
    BY <2>2, <2>5, <2>6, Zenon DEF Counted
<1>5. k \in 1 .. n
  BY <1>1, <1>3, <1>4
<1>6. Counted(v, k - 1, provided)
  BY <1>1, <1>3, <1>5
<1>7. QED
  BY <1>3, <1>5, <1>6, RoundCounts

InTurnKeys(provided) ==
  \E k \in 0 .. Len(SubDisplayGroups) :
    \E names \in SUBSET FirstNames(k) :
      provided = RequiredKeys \cup FirstGroups(k) \cup names

(* What the rounds accept, in terms of the keys.                           *)
LEMMA ValidKeys ==
  ASSUME NEW provided, IsFiniteSet(provided)
  PROVE  SpecKeysAreValid(provided) <=>
           /\ RequiredKeys \subseteq provided
           /\ provided \subseteq RequiredKeys \cup SubKeys(Len(SubDisplayGroups))
           /\ \A g \in 1 .. Len(SubDisplayGroups) : GroupFits(g, provided)
<1> DEFINE n == Len(SubDisplayGroups)
           T == provided \cap SubKeys(n)
<1>1. PICK v : /\ VisitedInTurn(v, provided)
               /\ SpecKeysAreValid(provided) <=>
                     /\ RequiredKeys \subseteq provided
                     /\ v[n].valid
                     /\ Cardinality(provided) = Cardinality(RequiredKeys) + v[n].extra
  BY GroupsAreVisited
<1>2. Counted(v, n, provided)
  BY <1>1, AllRoundsCount
<1>3. SpecKeysAreValid(provided) <=>
         /\ RequiredKeys \subseteq provided
         /\ \A g \in 1 .. n : GroupFits(g, provided)
         /\ Cardinality(provided) = Cardinality(RequiredKeys) + Cardinality(T)
  BY <1>1, <1>2, Zenon DEF Counted
<1>4. RequiredKeys \cap T = {}
  <2>1. ASSUME NEW x \in RequiredKeys, x \in SubKeys(n) PROVE FALSE
    <3>1. PICK g \in 1 .. n : x \in SubDisplayGroups[g] \/ x = SubDisplayNames[g]
      BY <2>1, KeysAreThose
    <3>2. QED
      BY <3>1, GroupsAreDisjoint
  <2>2. QED
    BY <2>1
<1>5. ASSUME RequiredKeys \subseteq provided
      PROVE  Cardinality(provided) = Cardinality(RequiredKeys) + Cardinality(T)
               <=> provided \subseteq RequiredKeys \cup SubKeys(n)
  <2> DEFINE U == RequiredKeys \cup T
  <2>1. IsFiniteSet(RequiredKeys) /\ IsFiniteSet(T)
    BY SpecKeysAssumption, FS_Subset
  <2>2. U \in SUBSET provided
    BY <1>5
  <2>3. provided \subseteq RequiredKeys \cup SubKeys(n) <=> provided = U
    BY <2>2
  <2> HIDE DEF T
  <2>4. Cardinality(U) = Cardinality(RequiredKeys) + Cardinality(T)
    <3>1. Cardinality(U) = Cardinality(RequiredKeys) + Cardinality(T)
                             - Cardinality(RequiredKeys \cap T)
      BY <2>1, FS_Union
    <3>2. Cardinality(RequiredKeys) \in Nat /\ Cardinality(T) \in Nat
          /\ Cardinality(RequiredKeys \cap T) = 0
      BY <2>1, <1>4, FS_CardinalityType, FS_EmptySet
    <3>3. QED
      BY <3>1, <3>2
  <2> HIDE DEF U
  <2>5. Cardinality(provided) = Cardinality(U) => provided = U
    BY <2>2, FS_Subset
  <2>6. QED
    BY <2>3, <2>4, <2>5
<1> HIDE DEF T, n
<1>6. QED
  BY <1>3, <1>5 DEF n

LEMMA TurnsAreValid ==
  ASSUME NEW provided, InTurnKeys(provided)
  PROVE  /\ RequiredKeys \subseteq provided
         /\ provided \subseteq RequiredKeys \cup SubKeys(Len(SubDisplayGroups))
         /\ \A g \in 1 .. Len(SubDisplayGroups) : GroupFits(g, provided)
<1> DEFINE n == Len(SubDisplayGroups)
<1>11. PICK k \in 0 .. n : \E names \in SUBSET FirstNames(k) :
        provided = RequiredKeys \cup FirstGroups(k) \cup names
  BY DEF InTurnKeys
<1>1. PICK names \in SUBSET FirstNames(k) :
        provided = RequiredKeys \cup FirstGroups(k) \cup names
  BY <1>11
<1>2. n \in Nat /\ 1 .. k \subseteq 1 .. n
  BY GroupsAreDisjoint
<1>3. \A g \in 1 .. k : SubDisplayGroups[g] \subseteq provided
  BY <1>1, KeysAreThose
<1>4. ASSUME NEW g \in (1 .. n) \ (1 .. k)
      PROVE  /\ SubDisplayGroups[g] \cap provided = {}
             /\ SubDisplayNames[g] \notin provided
  <2>1. \A h \in 1 .. k :
          /\ h # g /\ SubDisplayGroups[g] \cap SubDisplayGroups[h] = {}
          /\ SubDisplayNames[h] \notin SubDisplayGroups[g]
          /\ SubDisplayNames[g] \notin SubDisplayGroups[h]
          /\ SubDisplayNames[g] # SubDisplayNames[h]
    BY <1>2, <1>4, GroupsAreDisjoint
  <2>2. SubDisplayGroups[g] \cap RequiredKeys = {} /\ SubDisplayNames[g] \notin RequiredKeys
    BY GroupsAreDisjoint
  <2>3. ASSUME NEW x \in provided
        PROVE  \/ x \in RequiredKeys
               \/ \E h \in 1 .. k : x \in SubDisplayGroups[h] \/ x = SubDisplayNames[h]
    BY <1>1, KeysAreThose
  <2>4. QED
    BY <2>1, <2>2, <2>3
<1>5. \A g \in 1 .. k : Present(g, provided)
  BY <1>2, <1>3, GroupsAreDisjoint DEF Present
<1>6. ASSUME NEW g \in 1 .. n PROVE GroupFits(g, provided)
  <2>1. CASE g \in 1 .. k
    <3>1. g = 1 \/ g - 1 \in 1 .. k
      BY <1>2, <2>1
    <3>2. QED
      BY <1>3, <1>5, <2>1, <3>1 DEF GroupFits
  <2>2. CASE g \notin 1 .. k
    BY <1>4, <2>2 DEF GroupFits, Present
  <2>3. QED
    BY <2>1, <2>2
<1>7. ASSUME NEW x \in provided, x \notin RequiredKeys PROVE x \in SubKeys(n)
  <2>1. \E g \in 1 .. k : x \in SubDisplayGroups[g] \/ x = SubDisplayNames[g]
    BY <1>1, <1>7, KeysAreThose
  <2>2. QED
    BY <1>2, <2>1, KeysAreThose
<1>8. QED
  BY <1>1, <1>6, <1>7

LEMMA ValidAreTurns ==
  ASSUME NEW provided, RequiredKeys \subseteq provided,
         provided \subseteq RequiredKeys \cup SubKeys(Len(SubDisplayGroups)),
         \A g \in 1 .. Len(SubDisplayGroups) : GroupFits(g, provided)
  PROVE  InTurnKeys(provided)
<1> DEFINE n == Len(SubDisplayGroups)
           Missing == {k \in 1 .. n + 1 : k = n + 1 \/ ~ Present(k, provided)}
<1>1. n \in Nat
  BY GroupsAreDisjoint
<1>2. PICK m \in Missing : \A j \in Missing : m <= j
  <2>1. Missing \in SUBSET Nat /\ n + 1 \in Missing
    BY <1>1
  <2>2. QED
    BY <2>1, LeastNatural
<1>3. m \in 1 .. n + 1 /\ (m = n + 1 \/ ~ Present(m, provided))
  OBVIOUS
<1>4. \A g \in 1 .. (m - 1) : g \in 1 .. n /\ Present(g, provided)
  <2>1. ASSUME NEW g \in 1 .. (m - 1) PROVE g \in 1 .. n /\ Present(g, provided)
    <3>1. g \in 1 .. n + 1 /\ g < m /\ g \in 1 .. n
      BY <1>1, <1>3
    <3>2. g \notin Missing
      BY <1>1, <1>2, <1>3, <3>1
    <3>3. QED
      BY <3>1, <3>2
  <2>2. QED
    BY <2>1
<1>5. \A g \in 1 .. n : g >= m => ~ Present(g, provided)
  <2> DEFINE Bad == {g \in 1 .. n : g >= m /\ Present(g, provided)}
  <2>1. SUFFICES ASSUME Bad # {} PROVE FALSE
    OBVIOUS
  <2>2. PICK g \in Bad : \A j \in Bad : g <= j
    <3>1. Bad \in SUBSET Nat
      BY <1>1
    <3>2. QED
      BY <2>1, <3>1, LeastNatural
  <2>3. g \in 1 .. n /\ g >= m /\ Present(g, provided)
    OBVIOUS
  <2>4. g # 1 /\ g > m
    BY <1>1, <1>3, <2>3
  <2>5. Present(g - 1, provided)
    BY <2>3, <2>4 DEF GroupFits
  <2>6. g - 1 \in 1 .. n /\ g - 1 >= m /\ ~(g <= g - 1)
    BY <1>1, <1>3, <2>3, <2>4
  <2>7. QED
    BY <2>2, <2>5, <2>6
<1> DEFINE k == m - 1
           names == provided \cap FirstNames(k)
<1>6. k \in 0 .. n /\ 1 .. k \subseteq 1 .. n
  BY <1>1, <1>3
<1>7. \A g \in 1 .. n : g \in 1 .. k \/ g >= m
  BY <1>1, <1>3
<1>8. \A g \in 1 .. k : SubDisplayGroups[g] \subseteq provided
  BY <1>4 DEF GroupFits
<1>9. ASSUME NEW g \in 1 .. n, g >= m
      PROVE  SubDisplayGroups[g] \cap provided = {} /\ SubDisplayNames[g] \notin provided
  <2>1. ~ Present(g, provided) /\ GroupFits(g, provided)
    BY <1>5, <1>9
  <2>2. QED
    BY <2>1 DEF GroupFits, Present
<1> HIDE DEF k, Missing
<1>10. ASSUME NEW x \in provided
       PROVE  x \in RequiredKeys \cup FirstGroups(k) \cup names
  <2>1. CASE x \in RequiredKeys
    BY <2>1
  <2>2. CASE \E g \in 1 .. n : x \in SubDisplayGroups[g] \/ x = SubDisplayNames[g]
    <3>1. PICK g \in 1 .. n : x \in SubDisplayGroups[g] \/ x = SubDisplayNames[g]
      BY <2>2
    <3>2. g \in 1 .. k
      BY <1>7, <1>9, <3>1
    <3>3. x \in FirstGroups(k) \/ x \in FirstNames(k)
      BY <3>1, <3>2, KeysAreThose
    <3>4. QED
      BY <3>3
  <2>3. x \in RequiredKeys \/ x \in SubKeys(n)
    OBVIOUS
  <2>4. QED
    BY <2>1, <2>2, <2>3, KeysAreThose
<1>11. provided = RequiredKeys \cup FirstGroups(k) \cup names
  <2>1. FirstGroups(k) \subseteq provided
    BY <1>8, KeysAreThose
  <2>2. QED
    BY <1>10, <2>1
<1> HIDE DEF names
<1>12. names \in SUBSET FirstNames(k)
  BY DEF names
<1>13. QED
  BY <1>6, <1>11, <1>12 DEF InTurnKeys

(* What spec_keys_are_valid counts up to is the required keys, the groups  *)
(* of the first sub displays in full and names of those alone: for any     *)
(* tables of keys without repetitions.                                     *)
THEOREM SubDisplaysAlwaysInTurn == QueriesSpec => []SubDisplaysInTurn
<1>1. ASSUME QuestionFits PROVE SubDisplaysInTurn
  <2>1. SUFFICES ASSUME Asked("keys") PROVE SubDisplaysInTurn
    BY DEF SubDisplaysInTurn
  <2>2. IsFiniteSet(question.provided)
    BY <1>1, <2>1, QueriesAssumption DEF Asked, QuestionFits
  <2>3. SpecKeysAreValid(question.provided) <=> InTurnKeys(question.provided)
    BY <2>2, ValidKeys, TurnsAreValid, ValidAreTurns
  <2>4. InTurnKeys(question.provided) <=>
          \E n \in 0 .. Len(SubDisplayGroups) : \E names \in SUBSET FirstNames(n) :
            question.provided = RequiredKeys \cup FirstGroups(n) \cup names
    BY Zenon DEF InTurnKeys
  <2>5. QED
    BY <2>3, <2>4, Zenon DEF SubDisplaysInTurn, FirstGroups, FirstNames
<1>2. QED
  BY <1>1, QuestionsAreAsked, PTL

(***************************************************************************)
(* Identifiers.                                                            *)
(***************************************************************************)
(* Characters; the provers do not take a literal for a member of STRING.   *)
Letters == STRING \cup {"f", "i", "a", "h", "hbelow", "-"}
(* What composing leaves of them, lower case of that, and joining of those.*)
Spelt == Letters \ {"fi"}
Small == Spelt \ {"A", "H"}
Plain == Small \ {" ", "_"}

(* Nothing is left to compose.                                             *)
Settled(x) == \A k \in 1 .. Len(x) - 1 : ~(x[k] = "h" /\ x[k + 1] = "below")

(* What the composing loop has after each of its rounds.                   *)
ComposedInTurn(v, text, L) ==
  /\ v \in [0 .. Len(text) -> Seq(L)] /\ v[0] = <<>>
  /\ \A k \in 1 .. Len(text) : v[k] = PushComposed(v[k - 1], text[k])

ComposesSets(iter, text) ==
  iter = [s \in SUBSET DOMAIN text |->
            IF s = {} THEN <<>>
            ELSE PushComposed(iter[s \ {Max(s)}], text[Max(s)])]

LEMMA ComposingKeeps ==
  ASSUME NEW L, {"f", "i", "hbelow"} \subseteq L,
         NEW done \in Seq(L), NEW ch \in L \cup {"fi"}
  PROVE  PushComposed(done, ch) \in Seq(L)
<1>1. CASE ch = "fi"
  <2>1. PushComposed(done, ch) = done \o <<"f", "i">>
    BY <1>1 DEF PushComposed
  <2>2. <<"f", "i">> \in Seq(L)
    OBVIOUS
  <2>3. QED
    BY <2>1, <2>2
<1>2. CASE ch = "below" /\ done # <<>> /\ Last(done) = "h"
  <2>1. PushComposed(done, ch) = Append(Front(done), "hbelow")
    BY <1>2 DEF PushComposed
  <2>2. Front(done) \in Seq(L)
    BY <1>2 DEF Front
  <2>3. QED
    BY <2>1, <2>2
<1>3. CASE ch # "fi" /\ ~(ch = "below" /\ done # <<>> /\ Last(done) = "h")
  <2>1. PushComposed(done, ch) = Append(done, ch)
    BY <1>3 DEF PushComposed
  <2>2. QED
    BY <1>3, <2>1
<1>4. QED
  BY <1>1, <1>2, <1>3

LEMMA CharactersAreComposed ==
  ASSUME NEW L, {"f", "i", "hbelow"} \subseteq L, NEW text \in Seq(L \cup {"fi"})
  PROVE  \E v : ComposedInTurn(v, text, L) /\ Composed(text) = v[Len(text)]
<1> DEFINE n == Len(text)
           T == Seq(L)
           step == [p \in T \X (1 .. n) |-> PushComposed(p[1], text[p[2]])]
<1>1. n \in Nat /\ DOMAIN text = 1 .. n /\ \A i \in 1 .. n : text[i] \in L \cup {"fi"}
  OBVIOUS
<1>2. <<>> \in T
  OBVIOUS
<1>3. step \in [T \X (1 .. n) -> T]
  BY <1>1, ComposingKeeps
<1>4. PICK g : /\ FoldsLeft(g, <<>>, step, SUBSET (1 .. n))
               /\ g \in [SUBSET (1 .. n) -> T]
  <2> HIDE DEF step, n, T
  <2>1. QED
    BY <1>1, <1>2, <1>3, FoldExists
<1>5. ComposesSets(g, text)
  <2>1. ASSUME NEW s \in SUBSET (1 .. n), s # {}
        PROVE  step[<<g[s \ {Max(s)}], Max(s)>>]
                 = PushComposed(g[s \ {Max(s)}], text[Max(s)])
    <3>1. Max(s) \in 1 .. n /\ s \ {Max(s)} \in SUBSET (1 .. n)
      BY <1>1, <2>1, LastPosition
    <3>2. g[s \ {Max(s)}] \in T
      BY <1>4, <3>1
    <3> HIDE DEF T
    <3>3. QED
      BY <3>1, <3>2
  <2>2. g = [s \in SUBSET (1 .. n) |->
               IF s = {} THEN <<>> ELSE step[<<g[s \ {Max(s)}], Max(s)>>]]
    BY <1>4 DEF FoldsLeft
  <2> HIDE DEF step
  <2>3. g = [s \in SUBSET (1 .. n) |->
               IF s = {} THEN <<>>
               ELSE PushComposed(g[s \ {Max(s)}], text[Max(s)])]
    BY <2>1, <2>2
  <2>4. QED
    BY <1>1, <2>3 DEF ComposesSets
<1> DEFINE iter == CHOOSE f : ComposesSets(f, text)
           v == [k \in 0 .. n |-> iter[1 .. k]]
<1>6. ComposesSets(iter, text)
  BY <1>5
<1>7. Composed(text) = iter[1 .. n]
  <2>1. Composed(text) = iter[DOMAIN text]
    BY DEF Composed, FoldLeft, MapThenFoldSet, ComposesSets
  <2>2. QED
    BY <1>1, <2>1
<1> HIDE DEF iter
<1>8. iter = [s \in SUBSET (1 .. n) |->
                IF s = {} THEN <<>>
                ELSE PushComposed(iter[s \ {Max(s)}], text[Max(s)])]
  BY <1>1, <1>6 DEF ComposesSets
<1>9. v[0] = <<>>
  BY <1>1, <1>8
<1>10. ASSUME NEW k \in 1 .. n PROVE v[k] = PushComposed(v[k - 1], text[k])
  <2>1. /\ 1 .. k # {} /\ Max(1 .. k) = k
        /\ (1 .. k) \ {Max(1 .. k)} = 1 .. (k - 1)
    BY <1>1, FirstPositions
  <2>2. 1 .. k \in SUBSET (1 .. n)
    BY <1>1
  <2>3. iter[1 .. k] = PushComposed(iter[(1 .. k) \ {Max(1 .. k)}], text[Max(1 .. k)])
    BY <1>8, <2>1, <2>2, Zenon
  <2>4. v[k] = iter[1 .. k] /\ v[k - 1] = iter[1 .. (k - 1)]
    BY <1>1
  <2>5. QED
    BY <2>1, <2>3, <2>4
<1>11. v \in [0 .. n -> T]
  <2> HIDE DEF v, T
  <2> DEFINE Bad == {k \in 0 .. n : v[k] \notin T}
  <2>1. SUFFICES ASSUME Bad # {} PROVE FALSE
    BY DEF v
  <2>2. PICK k \in Bad : \A j \in Bad : k <= j
    <3>1. Bad \in SUBSET Nat
      BY <1>1
    <3>2. QED
      BY <2>1, <3>1, LeastNatural
  <2>3. k \in 1 .. n
    BY <1>1, <1>2, <1>9, <2>2
  <2>4. v[k - 1] \in T
    BY <1>1, <2>2, <2>3
  <2>5. QED
    BY <1>1, <1>10, <2>3, <2>4, ComposingKeeps DEF T
<1> HIDE DEF v
<1>12. ComposedInTurn(v, text, L)
  BY <1>9, <1>10, <1>11 DEF ComposedInTurn
<1>13. v[n] = iter[1 .. n]
  BY <1>1 DEF v
<1>14. QED
  BY <1>7, <1>12, <1>13

LEMMA LoweredSmall ==
  ASSUME NEW ch \in Spelt
  PROVE  Lower(ch) \in Small /\ (ch \in Plain => Lower(ch) = ch)
<1>1. CASE ch = "A"
  BY <1>1 DEF Lower, Small, Spelt, Letters, Plain
<1>2. CASE ch = "H"
  BY <1>2 DEF Lower, Small, Spelt, Letters, Plain
<1>3. CASE ch \notin {"A", "H"}
  BY <1>3 DEF Lower, Small
<1>4. QED
  BY <1>1, <1>2, <1>3

LEMMA FoldedSmall ==
  ASSUME NEW text \in Seq(STRING)
  PROVE  Folded(text) \in Seq(Small)
<1>1. {"f", "i", "hbelow"} \subseteq Spelt
  BY DEF Spelt, Letters
<1>2. text \in Seq(Spelt \cup {"fi"})
  <2>1. \A i \in 1 .. Len(text) : text[i] \in Spelt \cup {"fi"}
    BY DEF Spelt, Letters
  <2>2. QED
    BY <2>1
<1>3. PICK v : ComposedInTurn(v, text, Spelt) /\ Composed(text) = v[Len(text)]
  BY <1>1, <1>2, CharactersAreComposed
<1>4. Composed(text) \in Seq(Spelt)
  BY <1>3 DEF ComposedInTurn
<1> DEFINE c == Composed(text)
<1> HIDE DEF c
<1>5. c \in Seq(Spelt)
  BY <1>4 DEF c
<1>6. DOMAIN c = 1 .. Len(c) /\ \A i \in 1 .. Len(c) : Lower(c[i]) \in Small
  BY <1>5, LoweredSmall
<1>7. [i \in DOMAIN c |-> Lower(c[i])] \in Seq(Small)
  BY <1>5, <1>6
<1>8. QED
  BY <1>7 DEF Folded, c

(* One round keeps what is composed settled, and no longer than what has   *)
(* been read.                                                              *)
LEMMA ComposingSettles ==
  ASSUME NEW done \in Seq(Plain), Settled(done), NEW ch \in Plain
  PROVE  /\ PushComposed(done, ch) \in Seq(Plain)
         /\ Settled(PushComposed(done, ch))
         /\ PushComposed(done, ch) # <<>>
         /\ Len(PushComposed(done, ch)) <= Len(done) + 1
<1> DEFINE n == Len(done)
<1>1. n \in Nat /\ ch # "fi" /\ "hbelow" # "h" /\ "hbelow" # "below"
  <2>1. ch # "fi"
    BY DEF Plain, Small, Spelt
  <2>2. n \in Nat
    OBVIOUS
  <2>3. QED
    BY <2>1, <2>2
<1>2. {"f", "i", "hbelow"} \subseteq Plain
  BY DEF Plain, Small, Spelt, Letters
<1>3. PushComposed(done, ch) \in Seq(Plain)
  BY <1>2, ComposingKeeps
<1>4. CASE ch = "below" /\ done # <<>> /\ Last(done) = "h"
  <2> DEFINE p == Append(Front(done), "hbelow")
  <2>1. PushComposed(done, ch) = p
    BY <1>4 DEF PushComposed
  <2>2. n > 0 /\ Front(done) \in Seq(Plain) /\ Len(Front(done)) = n - 1
        /\ \A k \in 1 .. n - 1 : Front(done)[k] = done[k]
    <3>1. n > 0 /\ n - 1 \in Nat
      BY <1>4
    <3>2. Front(done) = SubSeq(done, 1, n - 1)
      BY DEF Front
    <3>3. SubSeq(done, 1, n - 1) \in Seq(Plain) /\ Len(SubSeq(done, 1, n - 1)) = n - 1
      <4>1. \A i \in 1 .. n - 1 : done[i] \in Plain
        OBVIOUS
      <4> HIDE DEF n
      <4>2. n - 1 \in Int /\ 1 \in Int /\ (1 <= n - 1 \/ n - 1 = 0)
        BY <1>1, <3>1
      <4>3. SubSeq(done, 1, n - 1) \in Seq(Plain)
            /\ Len(SubSeq(done, 1, n - 1)) = IF 1 <= n - 1 THEN (n - 1) - 1 + 1 ELSE 0
        BY <4>1, <4>2, SubSeqProperties
      <4>4. QED
        BY <4>2, <4>3
    <3>4. \A k \in 1 .. n - 1 : SubSeq(done, 1, n - 1)[k] = done[k]
      BY <3>1
    <3>5. QED
      BY <3>1, <3>2, <3>3, <3>4
  <2>3. Len(p) = n /\ p[n] = "hbelow" /\ \A k \in 1 .. n - 1 : p[k] = done[k]
    BY <1>1, <1>2, <2>2
  <2> HIDE DEF p
  <2>4. Settled(p)
    <3>1. SUFFICES ASSUME NEW k \in 1 .. n - 1, p[k] = "h", p[k + 1] = "below"
                   PROVE  FALSE
      BY <2>3 DEF Settled
    <3>2. k + 1 # n /\ k + 1 \in 1 .. n - 1
      BY <1>1, <2>3, <3>1
    <3>3. QED
      BY <1>1, <2>3, <3>1, <3>2 DEF Settled
  <2>5. p # <<>>
    BY <2>2, <2>3
  <2>6. QED
    BY <1>1, <1>3, <2>1, <2>3, <2>4, <2>5
<1>5. CASE ~(ch = "below" /\ done # <<>> /\ Last(done) = "h")
  <2> DEFINE p == Append(done, ch)
  <2>1. PushComposed(done, ch) = p
    BY <1>1, <1>5 DEF PushComposed
  <2>2. Len(p) = n + 1 /\ p[n + 1] = ch /\ \A k \in 1 .. n : p[k] = done[k]
    BY <1>1
  <2> HIDE DEF p
  <2>3. Settled(p)
    <3>1. SUFFICES ASSUME NEW k \in 1 .. n, p[k] = "h", p[k + 1] = "below"
                   PROVE  FALSE
      BY <2>2 DEF Settled
    <3>2. CASE k = n
      <4>1. done[n] = "h" /\ ch = "below" /\ done # <<>>
        BY <1>1, <2>2, <3>1, <3>2
      <4>2. QED
        BY <1>5, <4>1 DEF Last
    <3>3. CASE k # n
      <4>1. k \in 1 .. n - 1 /\ k + 1 \in 1 .. n
        BY <1>1, <3>3
      <4>2. QED
        BY <2>2, <3>1, <4>1 DEF Settled
    <3>4. QED
      BY <3>2, <3>3
  <2>4. p # <<>>
    BY <1>1, <2>2
  <2>5. QED
    BY <1>1, <1>3, <2>1, <2>2, <2>3, <2>4
<1>6. QED
  BY <1>4, <1>5

(* Composing settles what is in lower case and joined.                     *)
LEMMA ComposedSettled ==
  ASSUME NEW x \in Seq(Plain)
  PROVE  /\ Composed(x) \in Seq(Plain) /\ Settled(Composed(x))
         /\ Len(Composed(x)) <= Len(x)
         /\ x # <<>> => Composed(x) # <<>>
<1> DEFINE n == Len(x)
<1>1. n \in Nat /\ \A k \in 1 .. n : x[k] \in Plain
  OBVIOUS
<1>2. PICK v : ComposedInTurn(v, x, Plain) /\ Composed(x) = v[n]
  <2>1. {"f", "i", "hbelow"} \subseteq Plain
    BY DEF Plain, Small, Spelt, Letters
  <2>2. x \in Seq(Plain \cup {"fi"})
    OBVIOUS
  <2>3. QED
    BY <2>1, <2>2, CharactersAreComposed
<1> DEFINE Good(k) == /\ Settled(v[k]) /\ Len(v[k]) <= k
                      /\ k # 0 => v[k] # <<>>
<1>3. /\ \A k \in 0 .. n : v[k] \in Seq(Plain)
      /\ v[0] = <<>>
      /\ \A k \in 1 .. n : v[k] = PushComposed(v[k - 1], x[k])
  BY <1>2 DEF ComposedInTurn
<1> HIDE DEF n
<1>4. Good(0)
  BY <1>3 DEF Settled
<1>5. ASSUME NEW k \in 1 .. n, Good(k - 1) PROVE Good(k)
  <2> DEFINE done == v[k - 1]
  <2>1. done \in Seq(Plain) /\ Settled(done) /\ Len(done) <= k - 1 /\ x[k] \in Plain
    BY <1>1, <1>3, <1>5
  <2>2. v[k] = PushComposed(done, x[k])
    BY <1>3
  <2> HIDE DEF done
  <2>3. /\ Settled(v[k]) /\ v[k] # <<>> /\ Len(v[k]) <= Len(done) + 1
    BY <2>1, <2>2, ComposingSettles
  <2>4. Len(v[k]) \in Nat /\ Len(done) \in Nat
    BY <1>1, <1>3, <2>1
  <2>5. QED
    BY <2>1, <2>3, <2>4
<1> HIDE DEF Good
<1>6. \A k \in 0 .. n : Good(k)
  <2> DEFINE Bad == {k \in 0 .. n : ~Good(k)}
  <2>1. SUFFICES ASSUME Bad # {} PROVE FALSE
    OBVIOUS
  <2>2. PICK k \in Bad : \A j \in Bad : k <= j
    <3>1. Bad \in SUBSET Nat
      BY <1>1
    <3>2. QED
      BY <2>1, <3>1, LeastNatural
  <2>3. k \in 1 .. n /\ ~Good(k)
    BY <1>1, <1>4, <2>2
  <2>4. Good(k - 1)
    BY <1>1, <2>2, <2>3
  <2>5. QED
    BY <1>5, <2>3, <2>4
<1>7. Good(n) /\ v[n] \in Seq(Plain)
  BY <1>1, <1>3, <1>6
<1>8. x # <<>> => n # 0
  BY DEF n
<1>9. QED
  BY <1>2, <1>7, <1>8 DEF Good, n

(* Where nothing is left to compose, all characters stay.                  *)
LEMMA SettledStay ==
  ASSUME NEW x \in Seq(Plain), Settled(x)
  PROVE  Composed(x) = x
<1> DEFINE n == Len(x)
           upTo(k) == [j \in 1 .. k |-> x[j]]
<1>1. DOMAIN x = 1 .. n /\ n \in Nat /\ \A k \in 1 .. n : x[k] \in Plain
  OBVIOUS
<1>2. PICK v : ComposedInTurn(v, x, Plain) /\ Composed(x) = v[n]
  <2>1. {"f", "i", "hbelow"} \subseteq Plain
    BY DEF Plain, Small, Spelt, Letters
  <2>2. x \in Seq(Plain \cup {"fi"})
    OBVIOUS
  <2>3. QED
    BY <2>1, <2>2, CharactersAreComposed
<1>3. v[0] = <<>> /\ \A k \in 1 .. n : v[k] = PushComposed(v[k - 1], x[k])
  BY <1>2 DEF ComposedInTurn
<1> HIDE DEF n
<1>4. ASSUME NEW k \in 1 .. n, v[k - 1] = upTo(k - 1)
      PROVE  v[k] = upTo(k)
  <2> DEFINE done == upTo(k - 1)
  <2>1. k \in Nat \ {0} /\ x[k] \in Plain /\ k <= n
    BY <1>1
  <2>2. done \in Seq(Plain) /\ Len(done) = k - 1
        /\ (k > 1 => done[k - 1] = x[k - 1])
    BY <1>1, <2>1
  <2>3. v[k] = PushComposed(done, x[k])
    BY <1>3, <1>4
  <2>4. done \o <<x[k]>> = upTo(k)
    BY <2>1, FirstElements DEF n
  <2> HIDE DEF done
  <2>5. x[k] # "fi"
    BY <2>1 DEF Plain, Small, Spelt
  <2>6. ~(x[k] = "below" /\ done # <<>> /\ Last(done) = "h")
    <3>1. SUFFICES ASSUME x[k] = "below", done # <<>>, Last(done) = "h" PROVE FALSE
      OBVIOUS
    <3>2. Len(done) # 0
      BY <2>2, <3>1
    <3>3. k - 1 \in 1 .. n - 1 /\ k > 1
      BY <1>1, <2>1, <2>2, <3>2
    <3>4. x[k - 1] = "h"
      BY <2>2, <3>1, <3>3 DEF Last
    <3>5. (k - 1) + 1 = k
      BY <2>1
    <3>6. QED
      BY <3>1, <3>3, <3>4, <3>5 DEF Settled, n
  <2>7. PushComposed(done, x[k]) = Append(done, x[k])
    BY <2>5, <2>6 DEF PushComposed
  <2>8. Append(done, x[k]) = done \o <<x[k]>>
    BY <2>1, <2>2
  <2>9. QED
    BY <2>3, <2>4, <2>7, <2>8
<1>5. v[0] = upTo(0)
  BY <1>3
<1> HIDE DEF upTo
<1>6. v[n] = upTo(n)
  <2> DEFINE Bad == {k \in 0 .. n : v[k] # upTo(k)}
  <2>1. SUFFICES ASSUME Bad # {} PROVE FALSE
    BY <1>1
  <2>2. PICK k \in Bad : \A j \in Bad : k <= j
    <3>1. Bad \in SUBSET Nat
      BY <1>1
    <3>2. QED
      BY <2>1, <3>1, LeastNatural
  <2>3. k \in 1 .. n /\ v[k] # upTo(k)
    BY <1>1, <1>5, <2>2
  <2>4. v[k - 1] = upTo(k - 1)
    BY <1>1, <2>2, <2>3
  <2>5. QED
    BY <1>4, <2>3, <2>4
<1>7. upTo(n) = x
  BY <1>1 DEF upTo
<1>8. QED
  BY <1>2, <1>6, <1>7

(* On normal forms folding is composing alone.                             *)
LEMMA FoldedPlain ==
  ASSUME NEW x \in Seq(Plain)
  PROVE  Folded(x) = Composed(x)
<1> DEFINE c == Composed(x)
<1>1. c \in Seq(Plain)
  BY ComposedSettled
<1> HIDE DEF c
<1>2. \A i \in DOMAIN c : Lower(c[i]) = c[i]
  <2>1. \A i \in DOMAIN c : c[i] \in Plain
    BY <1>1
  <2>2. Plain \subseteq Spelt
    BY DEF Plain, Small
  <2>3. QED
    BY <2>1, <2>2, LoweredSmall
<1>3. [i \in DOMAIN c |-> Lower(c[i])] = c
  BY <1>1, <1>2
<1>4. QED
  BY <1>3 DEF Folded, c

(* What the loop over the characters has after each of its rounds.         *)
Joining == [result : Seq(Plain), pending : BOOLEAN]
NothingJoined == [result |-> <<>>, pending |-> FALSE]

JoinedInTurn(v, chars) ==
  /\ v \in [0 .. Len(chars) -> Joining] /\ v[0] = NothingJoined
  /\ \A k \in 1 .. Len(chars) : v[k] = PushCharacter(v[k - 1], chars[k])

JoinsSets(iter, chars) ==
  iter = [s \in SUBSET DOMAIN chars |->
            IF s = {} THEN NothingJoined
            ELSE PushCharacter(iter[s \ {Max(s)}], chars[Max(s)])]

LEMMA PushKeeps ==
  ASSUME NEW acc \in Joining, NEW ch \in Small
  PROVE  PushCharacter(acc, ch) \in Joining
<1>1. acc.result \in Seq(Plain) /\ acc.pending \in BOOLEAN
      /\ acc = [result |-> acc.result, pending |-> acc.pending]
  BY DEF Joining
<1>2. CASE ch \in {" ", "_"}
  <2>1. PushCharacter(acc, ch) = [acc EXCEPT !.pending = acc.result # <<>>]
    BY <1>2 DEF PushCharacter
  <2>2. QED
    BY <1>1, <2>1 DEF Joining
<1>3. CASE ch \notin {" ", "_"}
  <2> DEFINE before == IF acc.pending THEN Append(acc.result, "-") ELSE acc.result
  <2>1. PushCharacter(acc, ch) = [result |-> before \o <<ch>>, pending |-> FALSE]
    BY <1>3 DEF PushCharacter
  <2>2. ch \in Plain /\ "-" \in Plain
    BY <1>3 DEF Plain, Small, Spelt, Letters
  <2> HIDE DEF before
  <2>3. before \in Seq(Plain)
    BY <1>1, <2>2 DEF before
  <2>4. before \o <<ch>> \in Seq(Plain)
    BY <2>2, <2>3
  <2>5. QED
    BY <2>1, <2>4 DEF Joining
<1>4. QED
  BY <1>2, <1>3

LEMMA CharactersAreJoined ==
  ASSUME NEW chars \in Seq(Small)
  PROVE  \E v : JoinedInTurn(v, chars) /\ JoinWords(chars) = v[Len(chars)].result
<1> DEFINE n == Len(chars)
           step == [p \in Joining \X (1 .. n) |-> PushCharacter(p[1], chars[p[2]])]
<1>1. n \in Nat /\ DOMAIN chars = 1 .. n /\ \A i \in 1 .. n : chars[i] \in Small
  OBVIOUS
<1>2. NothingJoined \in Joining
  BY DEF NothingJoined, Joining
<1>3. step \in [Joining \X (1 .. n) -> Joining]
  BY <1>1, PushKeeps
<1>4. PICK g : /\ FoldsLeft(g, NothingJoined, step, SUBSET (1 .. n))
               /\ g \in [SUBSET (1 .. n) -> Joining]
  <2> HIDE DEF step, n
  <2>1. QED
    BY <1>1, <1>2, <1>3, FoldExists
<1>5. JoinsSets(g, chars)
  <2>1. ASSUME NEW s \in SUBSET (1 .. n), s # {}
        PROVE  step[<<g[s \ {Max(s)}], Max(s)>>]
                 = PushCharacter(g[s \ {Max(s)}], chars[Max(s)])
    <3>1. Max(s) \in 1 .. n /\ s \ {Max(s)} \in SUBSET (1 .. n)
      BY <1>1, <2>1, LastPosition
    <3>2. g[s \ {Max(s)}] \in Joining
      BY <1>4, <3>1
    <3>3. QED
      BY <3>1, <3>2
  <2>2. g = [s \in SUBSET (1 .. n) |->
               IF s = {} THEN NothingJoined ELSE step[<<g[s \ {Max(s)}], Max(s)>>]]
    BY <1>4 DEF FoldsLeft
  <2> HIDE DEF step
  <2>3. g = [s \in SUBSET (1 .. n) |->
               IF s = {} THEN NothingJoined
               ELSE PushCharacter(g[s \ {Max(s)}], chars[Max(s)])]
    BY <2>1, <2>2
  <2>4. QED
    BY <1>1, <2>3 DEF JoinsSets
<1> DEFINE iter == CHOOSE f : JoinsSets(f, chars)
           v == [k \in 0 .. n |-> iter[1 .. k]]
<1>6. JoinsSets(iter, chars)
  BY <1>5
<1>7. JoinWords(chars) = iter[1 .. n].result
  <2>1. JoinWords(chars) = iter[DOMAIN chars].result
    BY DEF JoinWords, FoldLeft, MapThenFoldSet, JoinsSets, NothingJoined
  <2>2. QED
    BY <1>1, <2>1
<1> HIDE DEF iter
<1>8. iter = [s \in SUBSET (1 .. n) |->
                IF s = {} THEN NothingJoined
                ELSE PushCharacter(iter[s \ {Max(s)}], chars[Max(s)])]
  BY <1>1, <1>6 DEF JoinsSets
<1>9. v[0] = NothingJoined
  BY <1>1, <1>8
<1>10. ASSUME NEW k \in 1 .. n PROVE v[k] = PushCharacter(v[k - 1], chars[k])
  <2>1. /\ 1 .. k # {} /\ Max(1 .. k) = k
        /\ (1 .. k) \ {Max(1 .. k)} = 1 .. (k - 1)
    BY <1>1, FirstPositions
  <2>2. 1 .. k \in SUBSET (1 .. n)
    BY <1>1
  <2>3. iter[1 .. k] = PushCharacter(iter[(1 .. k) \ {Max(1 .. k)}], chars[Max(1 .. k)])
    BY <1>8, <2>1, <2>2, Zenon
  <2>4. v[k] = iter[1 .. k] /\ v[k - 1] = iter[1 .. (k - 1)]
    BY <1>1
  <2>5. QED
    BY <2>1, <2>3, <2>4
<1>11. v \in [0 .. n -> Joining]
  <2> HIDE DEF v
  <2> DEFINE Bad == {k \in 0 .. n : v[k] \notin Joining}
  <2>1. SUFFICES ASSUME Bad # {} PROVE FALSE
    BY DEF v
  <2>2. PICK k \in Bad : \A j \in Bad : k <= j
    <3>1. Bad \in SUBSET Nat
      BY <1>1
    <3>2. QED
      BY <2>1, <3>1, LeastNatural
  <2>3. k \in 1 .. n
    BY <1>1, <1>2, <1>9, <2>2
  <2>4. v[k - 1] \in Joining
    BY <1>1, <2>2, <2>3
  <2>5. QED
    BY <1>1, <1>10, <2>3, <2>4, PushKeeps
<1> HIDE DEF v
<1>12. JoinedInTurn(v, chars)
  BY <1>9, <1>10, <1>11 DEF JoinedInTurn
<1>13. v[n] = iter[1 .. n]
  BY <1>1 DEF v
<1>14. QED
  BY <1>7, <1>12, <1>13

LEMMA JoinedArePlain ==
  ASSUME NEW chars \in Seq(Small)
  PROVE  JoinWords(chars) \in Seq(Plain)
<1>1. PICK v : JoinedInTurn(v, chars) /\ JoinWords(chars) = v[Len(chars)].result
  BY CharactersAreJoined
<1>2. v[Len(chars)] \in Joining
  BY <1>1 DEF JoinedInTurn
<1>3. QED
  BY <1>1, <1>2 DEF Joining

(* Without separators there is nothing to join.                            *)
LEMMA JoinedPlain ==
  ASSUME NEW x \in Seq(Plain)
  PROVE  JoinWords(x) = x
<1> DEFINE n == Len(x)
           upTo(k) == [j \in 1 .. k |-> x[j]]
<1>1. DOMAIN x = 1 .. n /\ n \in Nat /\ \A i \in 1 .. n : x[i] \in Plain
  OBVIOUS
<1>2. x \in Seq(Small)
  <2>1. \A i \in 1 .. n : x[i] \in Small
    BY <1>1 DEF Plain
  <2>2. QED
    BY <1>1, <2>1
<1>3. PICK v : JoinedInTurn(v, x) /\ JoinWords(x) = v[n].result
  BY <1>2, CharactersAreJoined
<1> HIDE DEF n
<1>4. \A k \in 0 .. n : v[k] = [result |-> upTo(k), pending |-> FALSE]
  <2> DEFINE Bad == {k \in 0 .. n : v[k] # [result |-> upTo(k), pending |-> FALSE]}
  <2>1. SUFFICES ASSUME Bad # {} PROVE FALSE
    OBVIOUS
  <2>2. PICK k \in Bad : \A j \in Bad : k <= j
    <3>1. Bad \in SUBSET Nat
      BY <1>1
    <3>2. QED
      BY <2>1, <3>1, LeastNatural
  <2>3. k \in 0 .. n /\ v[k] # [result |-> upTo(k), pending |-> FALSE]
    OBVIOUS
  <2>4. k # 0
    <3>1. v[0] = [result |-> <<>>, pending |-> FALSE]
      BY <1>3 DEF JoinedInTurn, NothingJoined
    <3>2. upTo(0) = <<>>
      OBVIOUS
    <3>3. QED
      BY <2>3, <3>1, <3>2
  <2>5. k \in 1 .. n /\ k - 1 \in 0 .. n /\ ~(k <= k - 1) /\ x[k] \in Plain
    BY <1>1, <2>3, <2>4
  <2>6. v[k - 1] = [result |-> upTo(k - 1), pending |-> FALSE]
    BY <2>2, <2>5
  <2>7. v[k] = PushCharacter(v[k - 1], x[k])
    BY <1>3, <2>5 DEF JoinedInTurn, n
  <2>8. v[k] = [result |-> upTo(k - 1) \o <<x[k]>>, pending |-> FALSE]
    <3>1. x[k] \notin {" ", "_"}
      BY <2>5 DEF Plain
    <3> DEFINE acc == v[k - 1]
    <3>2. acc.result = upTo(k - 1) /\ ~acc.pending
      BY <2>6
    <3> HIDE DEF upTo, acc
    <3>3. PushCharacter(acc, x[k]) = [result |-> acc.result \o <<x[k]>>, pending |-> FALSE]
      BY <3>1, <3>2 DEF PushCharacter
    <3>4. QED
      BY <2>7, <3>2, <3>3 DEF acc
  <2>9. upTo(k - 1) \o <<x[k]>> = upTo(k)
    BY <2>5, FirstElements DEF n
  <2>10. QED
    BY <2>3, <2>8, <2>9
<1>5. upTo(n) = x
  BY <1>1
<1>6. v[n] = [result |-> upTo(n), pending |-> FALSE]
  <2>1. n \in 0 .. n
    BY <1>1
  <2>2. QED
    BY <1>4, <2>1
<1>7. v[n].result = upTo(n)
  BY <1>6
<1>8. QED
  BY <1>3, <1>5, <1>7

(* A normal form is accepted; its own normal form is what composing makes  *)
(* of it, which stays.                                                     *)
LEMMA FormsSettle ==
  ASSUME NEW text \in Seq(STRING), NEW form \in NormalizeRouteIdentifier(text)
  PROVE  /\ NormalizeRouteIdentifier(form) = {Composed(form)}
         /\ NormalizeRouteIdentifier(Composed(form)) = {Composed(form)}
         /\ Settled(form) => Composed(form) = form
<1> DEFINE c == Composed(form)
<1>1. /\ form = JoinWords(Folded(text)) /\ form # <<>>
      /\ Len(form) <= MaxIdentifier
  BY DEF NormalizeRouteIdentifier, LengthFits
<1>2. form \in Seq(Plain)
  BY <1>1, FoldedSmall, JoinedArePlain
<1>3. c \in Seq(Plain) /\ Settled(c) /\ Len(c) <= Len(form) /\ c # <<>>
  BY <1>1, <1>2, ComposedSettled
<1>4. Len(c) <= MaxIdentifier
  <2>1. Len(c) \in Nat /\ Len(form) \in Nat
    BY <1>2, <1>3
  <2> HIDE DEF c
  <2>2. QED
    BY <1>1, <1>3, <2>1, QueriesAssumption
<1>5. JoinWords(Folded(form)) = c
  BY <1>2, <1>3, FoldedPlain, JoinedPlain
<1>6. Composed(c) = c
  BY <1>3, SettledStay
<1>7. JoinWords(Folded(c)) = c
  <2> HIDE DEF c
  <2>1. QED
    BY <1>3, <1>6, FoldedPlain, JoinedPlain
<1>8. NormalizeRouteIdentifier(form) = {c}
  BY <1>1, <1>3, <1>4, <1>5 DEF NormalizeRouteIdentifier, LengthFits
<1>9. NormalizeRouteIdentifier(c) = {c}
  <2> HIDE DEF c
  <2>1. QED
    BY <1>3, <1>4, <1>7 DEF NormalizeRouteIdentifier, LengthFits
<1>10. QED
  BY <1>2, <1>8, <1>9, SettledStay

(* Without a mark there is nothing to compose.                             *)
LEMMA UnmarkedSettle ==
  ASSUME NEW text \in Seq(STRING), NEW form \in NormalizeRouteIdentifier(text),
         \A k \in DOMAIN form : form[k] # "below"
  PROVE  /\ Composed(form) = form
         /\ NormalizeRouteIdentifier(form) = {form}
<1>1. form \in Seq(Plain)
  BY FoldedSmall, JoinedArePlain DEF NormalizeRouteIdentifier
<1>2. Settled(form)
  <2>1. \A k \in 1 .. Len(form) - 1 : k + 1 \in DOMAIN form
    BY <1>1
  <2>2. QED
    BY <2>1 DEF Settled
<1>3. QED
  BY <1>2, FormsSettle

(* A comparison asked for by its slugs is the same comparison.             *)
LEMMA ComparisonsReturn ==
  ASSUME NEW identifiers \in Seq(Seq(STRING)), NEW slugs \in CompareCameras(identifiers)
  PROVE  CompareCameras(slugs) = {slugs}
<1>1. /\ slugs \in [1 .. Len(identifiers) -> StoredSlugs]
      /\ DOMAIN identifiers = 1 .. Len(identifiers)
      /\ Len(identifiers) \in 1 .. 3
      /\ \A i \in 1 .. Len(identifiers) : identifiers[i] \in Seq(STRING)
      /\ \A i \in 1 .. Len(identifiers) : slugs[i] \in NormalizeRouteIdentifier(identifiers[i])
      /\ \A i, j \in 1 .. Len(identifiers) : slugs[i] = slugs[j] => i = j
  BY DEF CompareCameras
<1> DEFINE n == Len(identifiers)
<1>2. \A i \in 1 .. n : NormalizeRouteIdentifier(slugs[i]) = {slugs[i]}
  <2>1. \A i \in 1 .. n : \A k \in DOMAIN slugs[i] : slugs[i][k] # "below"
    BY <1>1, QueriesAssumption
  <2>2. QED
    BY <1>1, <2>1, UnmarkedSettle
<1>3. slugs \in Seq(StoredSlugs) /\ Len(slugs) = n /\ DOMAIN slugs = 1 .. n
  <2>1. n \in Nat /\ slugs \in [1 .. n -> StoredSlugs]
    BY <1>1
  <2> HIDE DEF n
  <2>2. QED
    BY <2>1
<1> HIDE DEF n
<1>4. slugs \in CompareCameras(slugs)
  BY <1>1, <1>2, <1>3 DEF CompareCameras, n
<1>5. ASSUME NEW others \in CompareCameras(slugs) PROVE others = slugs
  <2>1. others \in [1 .. n -> StoredSlugs]
        /\ \A i \in 1 .. n : others[i] \in NormalizeRouteIdentifier(slugs[i])
    BY <1>3 DEF CompareCameras
  <2>2. \A i \in 1 .. n : others[i] = slugs[i]
    BY <1>2, <2>1
  <2>3. QED
    BY <1>1, <2>1, <2>2 DEF n
<1>6. QED
  BY <1>4, <1>5

(* What the normal form of an accepted identifier gives is accepted, is the*)
(* form itself unless a mark is left in it, and gives itself from then on; *)
(* asked for by the slugs of its answer, a comparison is the same again    *)
(* (normalize_route_identifier, parse_comparison_query, compare_cameras).  *)
THEOREM IdentifiersAlwaysLeadBack == QueriesSpec => []IdentifiersLeadBack
<1>1. ASSUME QuestionFits PROVE IdentifiersLeadBack
  <2>1. SUFFICES ASSUME Asked("compare")
        PROVE  /\ \A i \in DOMAIN question.identifiers :
                    \A form \in NormalizeRouteIdentifier(question.identifiers[i]) :
                      \E settled \in NormalizeRouteIdentifier(form) :
                        /\ NormalizeRouteIdentifier(settled) = {settled}
                        /\ (\A k \in DOMAIN form : form[k] # "below") => settled = form
               /\ \A slugs \in CompareCameras(question.identifiers) :
                    CompareCameras(slugs) = {slugs}
    BY DEF IdentifiersLeadBack
  <2>2. question.identifiers \in Seq(Seq(STRING))
    BY <1>1, <2>1, QueriesAssumption DEF Asked, QuestionFits
  <2>3. \A i \in DOMAIN question.identifiers : question.identifiers[i] \in Seq(STRING)
    BY <2>2
  <2>4. ASSUME NEW i \in DOMAIN question.identifiers,
               NEW form \in NormalizeRouteIdentifier(question.identifiers[i])
        PROVE  \E settled \in NormalizeRouteIdentifier(form) :
                 /\ NormalizeRouteIdentifier(settled) = {settled}
                 /\ (\A k \in DOMAIN form : form[k] # "below") => settled = form
    <3>1. /\ Composed(form) \in NormalizeRouteIdentifier(form)
          /\ NormalizeRouteIdentifier(Composed(form)) = {Composed(form)}
      BY <2>3, FormsSettle
    <3>2. (\A k \in DOMAIN form : form[k] # "below") => Composed(form) = form
      BY <2>3, UnmarkedSettle
    <3>3. QED
      BY <3>1, <3>2
  <2>5. QED
    BY <2>2, <2>4, ComparisonsReturn
<1>2. QED
  BY <1>1, QuestionsAreAsked, PTL

(***************************************************************************)
(* Search terms.                                                           *)
(***************************************************************************)
(* How often a syllable is there, how often one comes right after another, *)
(* and whether one comes last.                                             *)
Occurs(s, c) == Cardinality({i \in DOMAIN s : s[i] = c})
Joins(s, c, d) == Cardinality({i \in DOMAIN s : s[i] = d /\ (i > 1 /\ s[i - 1] = c)})
Ends(s, c) == s # <<>> /\ s[Len(s)] = c

(* t is s and then x.                                                      *)
CountsOneMore(t, s, x, c, d) ==
  /\ Occurs(s, c) \in Nat /\ Joins(s, c, d) \in Nat
  /\ Occurs(t, c) = Occurs(s, c) + (IF x = c THEN 1 ELSE 0)
  /\ Joins(t, c, d) = Joins(s, c, d) + (IF Ends(s, c) /\ x = d THEN 1 ELSE 0)
  /\ Ends(t, c) <=> x = c

LEMMA AppendCounts ==
  ASSUME NEW A, NEW s \in Seq(A), NEW x \in A, NEW c, NEW d
  PROVE  CountsOneMore(Append(s, x), s, x, c, d)
<1> DEFINE n == Len(s)
           t == Append(s, x)
<1>1. /\ n \in Nat /\ DOMAIN s = 1 .. n /\ DOMAIN t = 1 .. (n + 1) /\ Len(t) = n + 1
      /\ t[n + 1] = x /\ \A i \in 1 .. n : t[i] = s[i]
  OBVIOUS
<1>2. s # <<>> <=> n # 0
  OBVIOUS
<1>3. t # <<>>
  <2>1. t \in Seq(A) /\ Len(t) # 0
    BY <1>1
  <2> HIDE DEF t
  <2>2. QED
    BY <2>1
<1> DEFINE F == 1 .. n
           G == 1 .. (n + 1)
<1>4. IsFiniteSet(F) /\ IsFiniteSet(G)
  <2>1. \A m \in Nat : IsFiniteSet(1 .. m)
    BY FS_Interval
  <2>2. n + 1 \in Nat
    BY <1>1
  <2>3. QED
    BY <1>1, <2>1, <2>2
<1> HIDE DEF n, t
<1>5. /\ Occurs(s, c) \in Nat
      /\ Occurs(t, c) = Occurs(s, c) + (IF x = c THEN 1 ELSE 0)
  <2> DEFINE P == {i \in F : s[i] = c}
             Q == {i \in G : t[i] = c}
  <2>1. P \in SUBSET F /\ n + 1 \notin P /\ P \ {n + 1} = Q \ {n + 1}
        /\ (n + 1 \in Q <=> x = c)
    BY <1>1
  <2>2. Occurs(s, c) = Cardinality(P) /\ Occurs(t, c) = Cardinality(Q)
    BY <1>1 DEF Occurs
  <2> HIDE DEF P, Q, F, G
  <2>3. IsFiniteSet(P) /\ Cardinality(P) \in Nat
    BY <1>4, <2>1, FS_Subset, FS_CardinalityType
  <2>4. Cardinality(Q) = Cardinality(P) + (IF n + 1 \in Q THEN 1 ELSE 0)
    BY <2>1, <2>3, OneElementMoves
  <2>5. QED
    BY <2>1, <2>2, <2>3, <2>4
<1>6. /\ Joins(s, c, d) \in Nat
      /\ Joins(t, c, d) = Joins(s, c, d) + (IF Ends(s, c) /\ x = d THEN 1 ELSE 0)
  <2> DEFINE P == {i \in F : s[i] = d /\ (i > 1 /\ s[i - 1] = c)}
             Q == {i \in G : t[i] = d /\ (i > 1 /\ t[i - 1] = c)}
  <2>1. P \in SUBSET F /\ n + 1 \notin P
    BY <1>1
  <2>2. ASSUME NEW i \in F PROVE i \in P <=> i \in Q
    <3>1. i \in G /\ t[i] = s[i] /\ (i > 1 => i - 1 \in 1 .. n)
      BY <1>1
    <3>2. i > 1 => t[i - 1] = s[i - 1]
      BY <1>1, <3>1
    <3>3. QED
      BY <3>1, <3>2
  <2>3. \A i \in G : i \in F \/ i = n + 1
    BY <1>1
  <2>4. P \ {n + 1} = Q \ {n + 1}
    BY <2>1, <2>2, <2>3
  <2>5. n + 1 \in Q <=> Ends(s, c) /\ x = d
    <3>1. CASE n = 0
      BY <1>1, <1>2, <3>1 DEF Ends
    <3>2. CASE n # 0
      <4>1. n \in 1 .. n /\ n + 1 > 1 /\ (n + 1) - 1 = n /\ n + 1 \in G
        BY <1>1, <3>2
      <4>2. t[n] = s[n]
        BY <1>1, <4>1
      <4>3. Ends(s, c) <=> s[n] = c
        BY <1>2, <3>2 DEF Ends, n
      <4>4. QED
        BY <1>1, <4>1, <4>2, <4>3
    <3>3. QED
      BY <3>1, <3>2
  <2>6. Joins(s, c, d) = Cardinality(P) /\ Joins(t, c, d) = Cardinality(Q)
    BY <1>1 DEF Joins
  <2> HIDE DEF P, Q, F, G
  <2>7. IsFiniteSet(P) /\ Cardinality(P) \in Nat
    BY <1>4, <2>1, FS_Subset, FS_CardinalityType
  <2>8. Cardinality(Q) = Cardinality(P) + (IF n + 1 \in Q THEN 1 ELSE 0)
    BY <2>1, <2>4, <2>7, OneElementMoves
  <2>9. QED
    BY <2>5, <2>6, <2>7, <2>8
<1>7. Ends(t, c) <=> x = c
  BY <1>1, <1>3 DEF Ends
<1>8. QED
  BY <1>5, <1>6, <1>7 DEF t, CountsOneMore

LEMMA NothingCounts ==
  ASSUME NEW c, NEW d
  PROVE  Occurs(<<>>, c) = 0 /\ Joins(<<>>, c, d) = 0 /\ ~Ends(<<>>, c)
<1>1. DOMAIN <<>> = {}
  OBVIOUS
<1>2. /\ {i \in DOMAIN <<>> : <<>>[i] = c} = {}
      /\ {i \in DOMAIN <<>> : <<>>[i] = d /\ (i > 1 /\ <<>>[i - 1] = c)} = {}
  BY <1>1
<1>3. QED
  BY <1>2, FS_EmptySet DEF Occurs, Joins, Ends

(* What comes last, taken away again.                                      *)
LEMMA WithoutLast ==
  ASSUME NEW A, NEW s \in Seq(A), s # <<>>
  PROVE  /\ SubSeq(s, 1, Len(s) - 1) \in Seq(A) /\ s[Len(s)] \in A
         /\ s = Append(SubSeq(s, 1, Len(s) - 1), s[Len(s)])
OBVIOUS

(* One sequence begins with another.                                       *)
LEMMA BeginsWith ==
  ASSUME NEW A, NEW k \in Seq(A), NEW r \in Seq(A), Len(k) # 0
  PROVE  IsPrefix(k, r) <=> Len(k) <= Len(r) /\ \A i \in 1 .. Len(k) : r[i] = k[i]
<1> DEFINE m == Len(k)
<1>1. m \in Nat \ {0} /\ Len(r) \in Nat
  OBVIOUS
<1>2. CASE ~(m <= Len(r))
  BY <1>2 DEF IsPrefix
<1>3. CASE m <= Len(r)
  <2>1. /\ 1 \in 1 .. Len(k) + 1 /\ m \in 1 - 1 .. Len(k)
        /\ 1 \in 1 .. Len(r) + 1 /\ m \in 1 - 1 .. Len(r)
    BY <1>1, <1>3
  <2>2. /\ SubSeq(k, 1, m) = [i \in 1 .. m |-> k[i]]
        /\ SubSeq(r, 1, m) = [i \in 1 .. m |-> r[i]]
    BY <1>1, <2>1
  <2>3. [i \in 1 .. m |-> k[i]] = [i \in 1 .. m |-> r[i]] <=> \A i \in 1 .. m : r[i] = k[i]
    OBVIOUS
  <2>4. QED
    BY <1>3, <2>2, <2>3 DEF IsPrefix
<1>4. QED
  BY <1>2, <1>3

LEMMA OneIsSuffix ==
  ASSUME NEW A, NEW s \in Seq(A), NEW x \in A, NEW a \in A
  PROVE  IsSuffix(<<a>>, Append(s, x)) <=> x = a
<1> DEFINE t == Append(s, x)
           r == Reverse(t)
           k == Reverse(<<a>>)
<1>1. t \in Seq(A) /\ Len(t) = Len(s) + 1 /\ t[Len(t)] = x /\ Len(t) \in Nat \ {0}
  OBVIOUS
<1> HIDE DEF t
<1>2. r \in Seq(A) /\ Len(r) = Len(t) /\ r[1] = x
  BY <1>1 DEF Reverse
<1>3. k \in Seq(A) /\ Len(k) = 1 /\ k[1] = a
  BY DEF Reverse
<1> HIDE DEF r, k
<1>4. IsPrefix(k, r) <=> 1 <= Len(r) /\ \A i \in 1 .. 1 : r[i] = k[i]
  <2>1. k \in Seq(A) /\ r \in Seq(A) /\ Len(k) # 0
    BY <1>2, <1>3
  <2>2. IsPrefix(k, r) <=> Len(k) <= Len(r) /\ \A i \in 1 .. Len(k) : r[i] = k[i]
    BY <2>1, BeginsWith, Zenon
  <2>3. QED
    BY <1>3, <2>2, Zenon
<1>5. IsSuffix(<<a>>, t) <=> x = a
  <2>1. IsSuffix(<<a>>, t) <=> IsPrefix(k, r)
    BY DEF IsSuffix, r, k
  <2>2. QED
    BY <1>1, <1>2, <1>3, <1>4, <2>1
<1>6. QED
  BY <1>5 DEF t

LEMMA TwoAreSuffix ==
  ASSUME NEW A, NEW s \in Seq(A), NEW x \in A, NEW a \in A, NEW b \in A
  PROVE  IsSuffix(<<a, b>>, Append(s, x)) <=> Ends(s, a) /\ x = b
<1> DEFINE t == Append(s, x)
           r == Reverse(t)
           k == Reverse(<<a, b>>)
<1>1. t \in Seq(A) /\ Len(t) = Len(s) + 1 /\ t[Len(t)] = x /\ Len(s) \in Nat
      /\ (s # <<>> => Len(s) \in Nat \ {0} /\ t[Len(s)] = s[Len(s)]) /\ (s = <<>> => Len(s) = 0)
  OBVIOUS
<1> HIDE DEF t
<1>2. r \in Seq(A) /\ Len(r) = Len(t) /\ r[1] = x /\ (Len(s) # 0 => r[2] = t[Len(s)])
  BY <1>1 DEF Reverse
<1>3. k \in Seq(A) /\ Len(k) = 2 /\ k[1] = b /\ k[2] = a
  BY DEF Reverse
<1> HIDE DEF r, k
<1>4. IsPrefix(k, r) <=> 2 <= Len(r) /\ \A i \in 1 .. 2 : r[i] = k[i]
  <2>1. k \in Seq(A) /\ r \in Seq(A) /\ Len(k) # 0
    BY <1>2, <1>3
  <2>2. IsPrefix(k, r) <=> Len(k) <= Len(r) /\ \A i \in 1 .. Len(k) : r[i] = k[i]
    BY <2>1, BeginsWith, Zenon
  <2>3. QED
    BY <1>3, <2>2, Zenon
<1>5. IsSuffix(<<a, b>>, t) <=> 2 <= Len(r) /\ r[1] = b /\ r[2] = a
  <2>1. IsSuffix(<<a, b>>, t) <=> IsPrefix(k, r)
    BY DEF IsSuffix, r, k
  <2>2. \A i : i \in 1 .. 2 <=> i = 1 \/ i = 2
    OBVIOUS
  <2>3. QED
    BY <1>3, <1>4, <2>1, <2>2
<1>6. QED
  BY <1>1, <1>2, <1>5 DEF Ends, t

(* What is known of other syllables, c and d, and of those of a pair a, b  *)
(* when done stands for text with e in the place of every such pair.       *)
PairReplaced(done, text, a, b, e, c, d) ==
  /\ Occurs(done, c) = Occurs(text, c) /\ Occurs(done, d) = Occurs(text, d)
  /\ Occurs(done, a) + Joins(text, a, b) = Occurs(text, a)
  /\ Occurs(done, b) + Joins(text, a, b) = Occurs(text, b)
  /\ Occurs(done, e) = Occurs(text, e) + Joins(text, a, b)
  /\ Joins(done, c, d) = Joins(text, c, d)
  /\ Ends(done, a) <=> Ends(text, a)
  /\ Ends(done, c) <=> Ends(text, c)

LEMMA PairStep ==
  ASSUME NEW A, NEW done \in Seq(A), NEW text \in Seq(A), NEW x \in A,
         NEW a \in A, NEW b \in A, NEW e \in A, NEW c \in A, NEW d \in A,
         a # b, e \notin {a, b}, c \notin {a, b, e}, d \notin {a, b, e},
         PairReplaced(done, text, a, b, e, c, d)
  PROVE  /\ PushReplaced(done, x, <<a, b>>, e) \in Seq(A)
         /\ PairReplaced(PushReplaced(done, x, <<a, b>>, e), Append(text, x), a, b, e, c, d)
<1> DEFINE more == Append(text, x)
<1>1. \A y, z : CountsOneMore(more, text, x, y, z)
  BY AppendCounts, Zenon
<1>11. /\ CountsOneMore(more, text, x, a, b) /\ CountsOneMore(more, text, x, b, b)
       /\ CountsOneMore(more, text, x, e, e) /\ CountsOneMore(more, text, x, c, d)
       /\ CountsOneMore(more, text, x, d, d)
  BY <1>1, Zenon
<1>2. IsSuffix(<<a, b>>, Append(done, x)) <=> Ends(done, a) /\ x = b
  BY TwoAreSuffix
<1>3. CASE Ends(done, a) /\ x = b
  <2> DEFINE front == SubSeq(done, 1, Len(done) - 1)
             now == Append(front, e)
  <2>1. done # <<>> /\ done[Len(done)] = a
    BY <1>3 DEF Ends
  <2>2. front \in Seq(A) /\ done = Append(front, a)
    BY <2>1, WithoutLast
  <2>3. PushReplaced(done, x, <<a, b>>, e) = now
    <3>1. Len(<<a, b>>) = 2 /\ Len(done) + 1 - 2 = Len(done) - 1
      OBVIOUS
    <3>2. PushReplaced(done, x, <<a, b>>, e)
            = Append(SubSeq(done, 1, Len(done) + 1 - Len(<<a, b>>)), e)
      BY <1>2, <1>3, Zenon DEF PushReplaced
    <3>3. QED
      BY <3>1, <3>2
  <2> HIDE DEF front
  <2>4. \A y, z : /\ CountsOneMore(done, front, a, y, z)
                  /\ CountsOneMore(now, front, e, y, z)
    BY <2>2, AppendCounts, Zenon
  <2>5. /\ CountsOneMore(done, front, a, a, b) /\ CountsOneMore(now, front, e, a, b)
        /\ CountsOneMore(done, front, a, b, b) /\ CountsOneMore(now, front, e, b, b)
        /\ CountsOneMore(done, front, a, e, e) /\ CountsOneMore(now, front, e, e, e)
        /\ CountsOneMore(done, front, a, c, d) /\ CountsOneMore(now, front, e, c, d)
        /\ CountsOneMore(done, front, a, d, d) /\ CountsOneMore(now, front, e, d, d)
    BY <2>4, Zenon
  <2>6. now \in Seq(A)
    BY <2>2
  <2> HIDE DEF now, more
  <2>7. /\ Occurs(text, a) \in Nat /\ Occurs(text, b) \in Nat /\ Occurs(text, c) \in Nat
        /\ Occurs(text, d) \in Nat /\ Occurs(text, e) \in Nat
        /\ Joins(text, a, b) \in Nat /\ Joins(text, c, d) \in Nat
        /\ Occurs(more, a) = Occurs(text, a)
        /\ Occurs(more, b) = Occurs(text, b) + 1
        /\ Occurs(more, e) = Occurs(text, e)
        /\ Occurs(more, c) = Occurs(text, c)
        /\ Occurs(more, d) = Occurs(text, d)
        /\ Joins(more, a, b) = Joins(text, a, b) + 1 /\ Joins(more, c, d) = Joins(text, c, d)
        /\ ~Ends(more, a) /\ ~Ends(more, c)
    <3>1. Ends(text, a)
      BY <1>3 DEF PairReplaced
    <3>2. QED
      BY <1>11, <1>3, <3>1 DEF CountsOneMore
  <2>8. /\ Occurs(front, a) \in Nat /\ Occurs(front, b) \in Nat /\ Occurs(front, c) \in Nat
        /\ Occurs(front, d) \in Nat /\ Occurs(front, e) \in Nat /\ Joins(front, c, d) \in Nat
        /\ Occurs(done, a) = Occurs(front, a) + 1
        /\ Occurs(done, b) = Occurs(front, b)
        /\ Occurs(done, e) = Occurs(front, e)
        /\ Occurs(done, c) = Occurs(front, c)
        /\ Occurs(done, d) = Occurs(front, d)
        /\ Joins(done, c, d) = Joins(front, c, d)
    BY <2>5 DEF CountsOneMore
  <2>9. /\ Occurs(now, a) = Occurs(front, a)
        /\ Occurs(now, b) = Occurs(front, b)
        /\ Occurs(now, e) = Occurs(front, e) + 1
        /\ Occurs(now, c) = Occurs(front, c)
        /\ Occurs(now, d) = Occurs(front, d)
        /\ Joins(now, c, d) = Joins(front, c, d) /\ ~Ends(now, a) /\ ~Ends(now, c)
    BY <2>5 DEF CountsOneMore
  <2>10. PairReplaced(now, more, a, b, e, c, d)
    <3>1. /\ Occurs(done, c) = Occurs(text, c) /\ Occurs(done, d) = Occurs(text, d)
          /\ Occurs(done, a) + Joins(text, a, b) = Occurs(text, a)
          /\ Occurs(done, b) + Joins(text, a, b) = Occurs(text, b)
          /\ Occurs(done, e) = Occurs(text, e) + Joins(text, a, b)
          /\ Joins(done, c, d) = Joins(text, c, d)
      BY DEF PairReplaced
    <3>2. Occurs(now, c) = Occurs(more, c) /\ Occurs(now, d) = Occurs(more, d)
      BY <2>7, <2>8, <2>9, <3>1
    <3>3. Occurs(now, a) + Joins(more, a, b) = Occurs(more, a)
      BY <2>7, <2>8, <2>9, <3>1
    <3>4. Occurs(now, b) + Joins(more, a, b) = Occurs(more, b)
      BY <2>7, <2>8, <2>9, <3>1
    <3>5. Occurs(now, e) = Occurs(more, e) + Joins(more, a, b)
      BY <2>7, <2>8, <2>9, <3>1
    <3>6. Joins(now, c, d) = Joins(more, c, d)
      BY <2>7, <2>8, <2>9, <3>1
    <3>7. (Ends(now, a) <=> Ends(more, a)) /\ (Ends(now, c) <=> Ends(more, c))
      BY <2>7, <2>9
    <3>8. QED
      BY <3>2, <3>3, <3>4, <3>5, <3>6, <3>7, Zenon DEF PairReplaced
  <2>11. QED
    BY <2>3, <2>6, <2>10 DEF more
<1>4. CASE ~(Ends(done, a) /\ x = b)
  <2> DEFINE now == Append(done, x)
  <2>1. PushReplaced(done, x, <<a, b>>, e) = now
    BY <1>2, <1>4, Zenon DEF PushReplaced
  <2>2. \A y, z : CountsOneMore(now, done, x, y, z)
    BY AppendCounts, Zenon
  <2>21. /\ CountsOneMore(now, done, x, a, b) /\ CountsOneMore(now, done, x, b, b)
         /\ CountsOneMore(now, done, x, e, e) /\ CountsOneMore(now, done, x, c, d)
         /\ CountsOneMore(now, done, x, d, d)
    BY <2>2, Zenon
  <2>3. now \in Seq(A)
    OBVIOUS
  <2> HIDE DEF now, more
  <2>4. (Ends(text, a) /\ x = b) = FALSE
    BY <1>4 DEF PairReplaced
  <2>5. /\ Occurs(more, a) = Occurs(text, a) + (IF x = a THEN 1 ELSE 0)
        /\ Occurs(more, b) = Occurs(text, b) + (IF x = b THEN 1 ELSE 0)
        /\ Occurs(more, e) = Occurs(text, e) + (IF x = e THEN 1 ELSE 0)
        /\ Joins(more, a, b) = Joins(text, a, b)
        /\ Occurs(text, a) \in Nat /\ Occurs(text, b) \in Nat /\ Occurs(text, e) \in Nat
        /\ Joins(text, a, b) \in Nat
    BY <1>11, <2>4 DEF CountsOneMore
  <2>6. /\ Occurs(now, a) = Occurs(done, a) + (IF x = a THEN 1 ELSE 0)
        /\ Occurs(now, b) = Occurs(done, b) + (IF x = b THEN 1 ELSE 0)
        /\ Occurs(now, e) = Occurs(done, e) + (IF x = e THEN 1 ELSE 0)
        /\ Occurs(done, a) \in Nat /\ Occurs(done, b) \in Nat /\ Occurs(done, e) \in Nat
    BY <2>21 DEF CountsOneMore
  <2>7. /\ Occurs(done, a) + Joins(text, a, b) = Occurs(text, a)
        /\ Occurs(done, b) + Joins(text, a, b) = Occurs(text, b)
        /\ Occurs(done, e) = Occurs(text, e) + Joins(text, a, b)
    BY DEF PairReplaced
  <2>8. /\ Occurs(now, a) + Joins(more, a, b) = Occurs(more, a)
        /\ Occurs(now, b) + Joins(more, a, b) = Occurs(more, b)
        /\ Occurs(now, e) = Occurs(more, e) + Joins(more, a, b)
    BY <2>5, <2>6, <2>7
  <2>9. /\ Occurs(now, c) = Occurs(more, c) /\ Occurs(now, d) = Occurs(more, d)
        /\ Joins(now, c, d) = Joins(more, c, d)
        /\ (Ends(now, a) <=> Ends(more, a)) /\ (Ends(now, c) <=> Ends(more, c))
    BY <1>11, <2>21 DEF PairReplaced, CountsOneMore
  <2>10. PairReplaced(now, more, a, b, e, c, d)
    BY <2>8, <2>9 DEF PairReplaced
  <2>11. QED
    BY <2>1, <2>3, <2>10 DEF more
<1>5. QED
  BY <1>3, <1>4

(* The same when done has e in the place of every single syllable a.       *)
WordReplaced(done, text, a, e, c) ==
  /\ Occurs(done, a) = 0
  /\ Occurs(done, e) = Occurs(text, e) + Occurs(text, a)
  /\ Occurs(done, c) = Occurs(text, c)

LEMMA WordStep ==
  ASSUME NEW A, NEW done \in Seq(A), NEW text \in Seq(A), NEW x \in A,
         NEW a \in A, NEW e \in A, NEW c \in A, e # a, c \notin {a, e},
         WordReplaced(done, text, a, e, c)
  PROVE  /\ PushReplaced(done, x, <<a>>, e) \in Seq(A)
         /\ WordReplaced(PushReplaced(done, x, <<a>>, e), Append(text, x), a, e, c)
<1> DEFINE more == Append(text, x)
           y == IF x = a THEN e ELSE x
           now == Append(done, y)
<1>1. /\ CountsOneMore(more, text, x, a, a) /\ CountsOneMore(more, text, x, e, e)
      /\ CountsOneMore(more, text, x, c, c)
  BY AppendCounts, Zenon
<1>2. IsSuffix(<<a>>, Append(done, x)) <=> x = a
  BY OneIsSuffix
<1>3. y \in A /\ now \in Seq(A)
  OBVIOUS
<1>4. PushReplaced(done, x, <<a>>, e) = now
  <2>1. SubSeq(done, 1, Len(done) + 1 - Len(<<a>>)) = done
    OBVIOUS
  <2>2. CASE x = a
    BY <1>2, <2>1, <2>2 DEF PushReplaced
  <2>3. CASE x # a
    BY <1>2, <2>3 DEF PushReplaced
  <2>4. QED
    BY <2>2, <2>3
<1>5. /\ CountsOneMore(now, done, y, a, a) /\ CountsOneMore(now, done, y, e, e)
      /\ CountsOneMore(now, done, y, c, c)
  <2> HIDE DEF y
  <2>1. QED
    BY <1>3, AppendCounts, Zenon
<1> HIDE DEF now, more
<1>6. WordReplaced(now, more, a, e, c)
  BY <1>1, <1>5 DEF WordReplaced, CountsOneMore
<1>7. QED
  BY <1>3, <1>4, <1>6 DEF more

(* What replacing has after each of its rounds.                            *)
ReplacedInTurn(v, text, korean, e, A) ==
  /\ v \in [0 .. Len(text) -> Seq(A)] /\ v[0] = <<>>
  /\ \A k \in 1 .. Len(text) : v[k] = PushReplaced(v[k - 1], text[k], korean, e)

ReplacesSets(iter, text, korean, e) ==
  iter = [s \in SUBSET DOMAIN text |->
            IF s = {} THEN <<>>
            ELSE PushReplaced(iter[s \ {Max(s)}], text[Max(s)], korean, e)]

LEMMA ReplacingKeeps ==
  ASSUME NEW A, NEW done \in Seq(A), NEW ch \in A, NEW korean, Len(korean) \in {1, 2},
         NEW e \in A
  PROVE  PushReplaced(done, ch, korean, e) \in Seq(A)
<1> DEFINE m == Len(done) + 1 - Len(korean)
<1>1. Len(done) \in Nat /\ m \in Int /\ m <= Len(done)
  OBVIOUS
<1> HIDE DEF m
<1>2. \A i \in 1 .. m : done[i] \in A
  <2>1. ASSUME NEW i \in 1 .. m PROVE done[i] \in A
    <3>1. i \in 1 .. Len(done)
      BY <1>1
    <3>2. QED
      BY <3>1
  <2>2. QED
    BY <2>1
<1>3. SubSeq(done, 1, m) \in Seq(A)
  BY <1>1, <1>2, SubSeqProperties
<1>4. Append(SubSeq(done, 1, m), e) \in Seq(A) /\ Append(done, ch) \in Seq(A)
  BY <1>3
<1>5. QED
  BY <1>4, Zenon DEF PushReplaced, m

LEMMA SyllablesAreReplaced ==
  ASSUME NEW A, NEW text \in Seq(A), NEW korean, Len(korean) \in {1, 2}, NEW e \in A
  PROVE  \E v : /\ ReplacedInTurn(v, text, korean, e, A)
                /\ Replaced(text, korean, e) = v[Len(text)]
<1> DEFINE n == Len(text)
           Texts == Seq(A)
           empty == <<>>
           step == [p \in Texts \X (1 .. n) |-> PushReplaced(p[1], text[p[2]], korean, e)]
<1>1. n \in Nat /\ DOMAIN text = 1 .. n /\ \A i \in 1 .. n : text[i] \in A
  OBVIOUS
<1>2. empty \in Texts
  OBVIOUS
<1>21. \A done \in Texts : \A ch \in A : PushReplaced(done, ch, korean, e) \in Texts
  BY ReplacingKeeps
<1> HIDE DEF Texts
<1>3. step \in [Texts \X (1 .. n) -> Texts]
  BY <1>1, <1>21
<1>4. PICK g : /\ FoldsLeft(g, empty, step, SUBSET (1 .. n))
               /\ g \in [SUBSET (1 .. n) -> Texts]
  <2> HIDE DEF step, n, empty
  <2>1. QED
    BY <1>1, <1>2, <1>3, FoldExists
<1>5. ReplacesSets(g, text, korean, e)
  <2>1. ASSUME NEW s \in SUBSET (1 .. n), s # {}
        PROVE  step[<<g[s \ {Max(s)}], Max(s)>>]
                 = PushReplaced(g[s \ {Max(s)}], text[Max(s)], korean, e)
    <3>1. Max(s) \in 1 .. n /\ s \ {Max(s)} \in SUBSET (1 .. n)
      BY <1>1, <2>1, LastPosition
    <3>2. g[s \ {Max(s)}] \in Texts
      BY <1>4, <3>1
    <3>3. QED
      BY <3>1, <3>2
  <2>2. g = [s \in SUBSET (1 .. n) |->
               IF s = {} THEN <<>> ELSE step[<<g[s \ {Max(s)}], Max(s)>>]]
    BY <1>4 DEF FoldsLeft
  <2> HIDE DEF step
  <2>3. g = [s \in SUBSET (1 .. n) |->
               IF s = {} THEN <<>>
               ELSE PushReplaced(g[s \ {Max(s)}], text[Max(s)], korean, e)]
    BY <2>1, <2>2
  <2>4. QED
    BY <1>1, <2>3 DEF ReplacesSets
<1> DEFINE iter == CHOOSE f : ReplacesSets(f, text, korean, e)
           v == [k \in 0 .. n |-> iter[1 .. k]]
<1>6. ReplacesSets(iter, text, korean, e)
  BY <1>5
<1>7. Replaced(text, korean, e) = iter[1 .. n]
  <2>1. Replaced(text, korean, e) = iter[DOMAIN text]
    BY DEF Replaced, FoldLeft, MapThenFoldSet, ReplacesSets
  <2>2. QED
    BY <1>1, <2>1
<1> HIDE DEF iter
<1>8. iter = [s \in SUBSET (1 .. n) |->
                IF s = {} THEN <<>>
                ELSE PushReplaced(iter[s \ {Max(s)}], text[Max(s)], korean, e)]
  BY <1>1, <1>6 DEF ReplacesSets
<1>9. v[0] = empty
  BY <1>1, <1>8
<1>10. ASSUME NEW k \in 1 .. n PROVE v[k] = PushReplaced(v[k - 1], text[k], korean, e)
  <2>1. /\ 1 .. k # {} /\ Max(1 .. k) = k
        /\ (1 .. k) \ {Max(1 .. k)} = 1 .. (k - 1)
    BY <1>1, FirstPositions
  <2>2. 1 .. k \in SUBSET (1 .. n)
    BY <1>1
  <2>3. iter[1 .. k]
          = PushReplaced(iter[(1 .. k) \ {Max(1 .. k)}], text[Max(1 .. k)], korean, e)
    BY <1>8, <2>1, <2>2, Zenon
  <2>4. v[k] = iter[1 .. k] /\ v[k - 1] = iter[1 .. (k - 1)]
    BY <1>1
  <2>5. QED
    BY <2>1, <2>3, <2>4
<1>11. v \in [0 .. n -> Texts]
  <2> HIDE DEF v, empty
  <2> DEFINE Bad == {k \in 0 .. n : v[k] \notin Texts}
  <2>1. SUFFICES ASSUME Bad # {} PROVE FALSE
    BY DEF v
  <2>2. PICK k \in Bad : \A j \in Bad : k <= j
    <3>1. Bad \in SUBSET Nat
      BY <1>1
    <3>2. QED
      BY <2>1, <3>1, LeastNatural
  <2>3. k \in 1 .. n /\ v[k] \notin Texts
    BY <1>1, <1>2, <1>9, <2>2
  <2>4. v[k - 1] \in Texts /\ text[k] \in A
    BY <1>1, <2>2, <2>3
  <2>5. QED
    BY <1>10, <1>21, <2>3, <2>4
<1> HIDE DEF v
<1>12. ReplacedInTurn(v, text, korean, e, A)
  BY <1>9, <1>10, <1>11 DEF ReplacedInTurn, Texts, empty
<1>13. v[n] = iter[1 .. n]
  BY <1>1 DEF v
<1>14. QED
  BY <1>7, <1>12, <1>13

(* A whole pass over the text, for a pair and for a single syllable.       *)
LEMMA PairsAreReplaced ==
  ASSUME NEW A, NEW text \in Seq(A),
         NEW a \in A, NEW b \in A, NEW e \in A, NEW c \in A, NEW d \in A,
         a # b, e \notin {a, b}, c \notin {a, b, e}, d \notin {a, b, e}
  PROVE  /\ Replaced(text, <<a, b>>, e) \in Seq(A)
         /\ PairReplaced(Replaced(text, <<a, b>>, e), text, a, b, e, c, d)
<1> DEFINE n == Len(text)
           upTo(k) == [j \in 1 .. k |-> text[j]]
           korean == <<a, b>>
<1>1. n \in Nat /\ \A i \in 1 .. n : text[i] \in A
  OBVIOUS
<1>2. Len(korean) \in {1, 2}
  OBVIOUS
<1>3. PICK v : ReplacedInTurn(v, text, korean, e, A) /\ Replaced(text, korean, e) = v[n]
  BY <1>2, SyllablesAreReplaced
<1> HIDE DEF n
<1>4. \A k \in 0 .. n : upTo(k) \in Seq(A)
  BY <1>1
<1>5. \A k \in 0 .. n : v[k] \in Seq(A)
  BY <1>3 DEF ReplacedInTurn, n
<1>6. upTo(0) = <<>> /\ v[0] = <<>>
  BY <1>3 DEF ReplacedInTurn
<1>7. \A k \in 0 .. n : PairReplaced(v[k], upTo(k), a, b, e, c, d)
  <2> HIDE DEF upTo, korean
  <2> DEFINE Bad == {k \in 0 .. n : ~PairReplaced(v[k], upTo(k), a, b, e, c, d)}
  <2>1. SUFFICES ASSUME Bad # {} PROVE FALSE
    OBVIOUS
  <2>2. PICK k \in Bad : \A j \in Bad : k <= j
    <3>1. Bad \in SUBSET Nat
      BY <1>1
    <3>2. QED
      BY <2>1, <3>1, LeastNatural
  <2>3. k \in 0 .. n /\ ~PairReplaced(v[k], upTo(k), a, b, e, c, d)
    OBVIOUS
  <2>4. k # 0
    <3>1. PairReplaced(<<>>, <<>>, a, b, e, c, d)
      <4>1. \A y, z : Occurs(<<>>, y) = 0 /\ Joins(<<>>, y, z) = 0 /\ ~Ends(<<>>, y)
        BY NothingCounts, Zenon
      <4>2. QED
        BY <4>1 DEF PairReplaced
    <3>2. QED
      BY <1>6, <2>3, <3>1
  <2>5. k \in 1 .. n /\ k - 1 \in 0 .. n /\ ~(k <= k - 1) /\ text[k] \in A
    BY <1>1, <2>3, <2>4
  <2>6. PairReplaced(v[k - 1], upTo(k - 1), a, b, e, c, d)
    BY <2>2, <2>5
  <2>7. v[k] = PushReplaced(v[k - 1], text[k], korean, e)
    BY <1>3, <2>5 DEF ReplacedInTurn, n
  <2>8. upTo(k) = Append(upTo(k - 1), text[k])
    <3>1. upTo(k - 1) \o <<text[k]>> = upTo(k)
      BY <2>5, FirstElements DEF n, upTo
    <3>2. Append(upTo(k - 1), text[k]) = upTo(k - 1) \o <<text[k]>>
      BY <1>4, <2>5
    <3>3. QED
      BY <3>1, <3>2
  <2>9. v[k - 1] \in Seq(A) /\ upTo(k - 1) \in Seq(A)
    BY <1>4, <1>5, <2>5
  <2>10. PairReplaced(PushReplaced(v[k - 1], text[k], <<a, b>>, e),
                      Append(upTo(k - 1), text[k]), a, b, e, c, d)
    BY <2>5, <2>6, <2>9, PairStep
  <2>11. QED
    BY <2>3, <2>7, <2>8, <2>10 DEF korean
<1>8. upTo(n) = text
  BY DEF n
<1>9. n \in 0 .. n
  BY <1>1
<1>10. QED
  BY <1>3, <1>5, <1>7, <1>8, <1>9

LEMMA WordsAreReplaced ==
  ASSUME NEW A, NEW text \in Seq(A), NEW a \in A, NEW e \in A, NEW c \in A,
         e # a, c \notin {a, e}
  PROVE  /\ Replaced(text, <<a>>, e) \in Seq(A)
         /\ WordReplaced(Replaced(text, <<a>>, e), text, a, e, c)
<1> DEFINE n == Len(text)
           upTo(k) == [j \in 1 .. k |-> text[j]]
           korean == <<a>>
<1>1. n \in Nat /\ \A i \in 1 .. n : text[i] \in A
  OBVIOUS
<1>2. Len(korean) \in {1, 2}
  OBVIOUS
<1>3. PICK v : ReplacedInTurn(v, text, korean, e, A) /\ Replaced(text, korean, e) = v[n]
  BY <1>2, SyllablesAreReplaced
<1> HIDE DEF n
<1>4. \A k \in 0 .. n : upTo(k) \in Seq(A)
  BY <1>1
<1>5. \A k \in 0 .. n : v[k] \in Seq(A)
  BY <1>3 DEF ReplacedInTurn, n
<1>6. upTo(0) = <<>> /\ v[0] = <<>>
  BY <1>3 DEF ReplacedInTurn
<1>7. \A k \in 0 .. n : WordReplaced(v[k], upTo(k), a, e, c)
  <2> HIDE DEF upTo, korean
  <2> DEFINE Bad == {k \in 0 .. n : ~WordReplaced(v[k], upTo(k), a, e, c)}
  <2>1. SUFFICES ASSUME Bad # {} PROVE FALSE
    OBVIOUS
  <2>2. PICK k \in Bad : \A j \in Bad : k <= j
    <3>1. Bad \in SUBSET Nat
      BY <1>1
    <3>2. QED
      BY <2>1, <3>1, LeastNatural
  <2>3. k \in 0 .. n /\ ~WordReplaced(v[k], upTo(k), a, e, c)
    OBVIOUS
  <2>4. k # 0
    <3>1. WordReplaced(<<>>, <<>>, a, e, c)
      <4>1. \A y, z : Occurs(<<>>, y) = 0 /\ Joins(<<>>, y, z) = 0 /\ ~Ends(<<>>, y)
        BY NothingCounts, Zenon
      <4>2. QED
        BY <4>1 DEF WordReplaced
    <3>2. QED
      BY <1>6, <2>3, <3>1
  <2>5. k \in 1 .. n /\ k - 1 \in 0 .. n /\ ~(k <= k - 1) /\ text[k] \in A
    BY <1>1, <2>3, <2>4
  <2>6. WordReplaced(v[k - 1], upTo(k - 1), a, e, c)
    BY <2>2, <2>5
  <2>7. v[k] = PushReplaced(v[k - 1], text[k], korean, e)
    BY <1>3, <2>5 DEF ReplacedInTurn, n
  <2>8. upTo(k) = Append(upTo(k - 1), text[k])
    <3>1. upTo(k - 1) \o <<text[k]>> = upTo(k)
      BY <2>5, FirstElements DEF n, upTo
    <3>2. Append(upTo(k - 1), text[k]) = upTo(k - 1) \o <<text[k]>>
      BY <1>4, <2>5
    <3>3. QED
      BY <3>1, <3>2
  <2>9. v[k - 1] \in Seq(A) /\ upTo(k - 1) \in Seq(A)
    BY <1>4, <1>5, <2>5
  <2>10. WordReplaced(PushReplaced(v[k - 1], text[k], <<a>>, e),
                      Append(upTo(k - 1), text[k]), a, e, c)
    BY <2>5, <2>6, <2>9, WordStep
  <2>11. QED
    BY <2>3, <2>7, <2>8, <2>10 DEF korean
<1>8. upTo(n) = text
  BY DEF n
<1>9. n \in 0 .. n
  BY <1>1
<1>10. QED
  BY <1>3, <1>5, <1>7, <1>8, <1>9

(* The four passes, one after the other.                                   *)
Syllables == STRING \cup {"pol", "deu", "peul", "rip", "fold", "flip"}

ExpandsSets(iter, text) ==
  iter = [s \in SUBSET DOMAIN Synonyms |->
            IF s = {} THEN text
            ELSE Replaced(iter[s \ {Max(s)}], Synonyms[Max(s)].ko, Synonyms[Max(s)].en)]

LEMMA PassesKeep ==
  ASSUME NEW text \in Seq(Syllables), NEW i \in 1 .. 4
  PROVE  Replaced(text, Synonyms[i].ko, Synonyms[i].en) \in Seq(Syllables)
<1>1. Len(Synonyms[i].ko) \in {1, 2} /\ Synonyms[i].en \in Syllables
  BY DEF Synonyms, Syllables
<1>2. \A korean : \A e \in Syllables : Len(korean) \in {1, 2} =>
        Replaced(text, korean, e) \in Seq(Syllables)
  <2>1. ASSUME NEW korean, NEW e \in Syllables, Len(korean) \in {1, 2}
        PROVE  Replaced(text, korean, e) \in Seq(Syllables)
    <3>1. PICK v : /\ ReplacedInTurn(v, text, korean, e, Syllables)
                   /\ Replaced(text, korean, e) = v[Len(text)]
      BY <2>1, SyllablesAreReplaced
    <3>2. v \in [0 .. Len(text) -> Seq(Syllables)] /\ Len(text) \in 0 .. Len(text)
      BY <3>1 DEF ReplacedInTurn
    <3>3. QED
      BY <3>1, <3>2
  <2>2. QED
    BY <2>1
<1>3. QED
  BY <1>1, <1>2

LEMMA FourPasses ==
  ASSUME NEW text \in Seq(Syllables)
  PROVE  \E a, b, c \in Seq(Syllables) :
           /\ a = Replaced(text, <<"pol", "deu">>, "fold")
           /\ b = Replaced(a, <<"peul", "rip">>, "flip")
           /\ c = Replaced(b, <<"pol">>, "fold")
           /\ ExpandSearchSynonyms(text) = Replaced(c, <<"peul">>, "flip")
<1> DEFINE Texts == Seq(Syllables)
           step == [p \in Texts \X (1 .. 4) |->
                      Replaced(p[1], Synonyms[p[2]].ko, Synonyms[p[2]].en)]
<1>1. DOMAIN Synonyms = 1 .. 4
  BY DEF Synonyms
<1>2. text \in Texts
  OBVIOUS
<1>3. \A t \in Texts : \A i \in 1 .. 4 :
        Replaced(t, Synonyms[i].ko, Synonyms[i].en) \in Texts
  BY PassesKeep
<1> HIDE DEF Texts
<1>4. step \in [Texts \X (1 .. 4) -> Texts]
  BY <1>3
<1>5. PICK g : /\ FoldsLeft(g, text, step, SUBSET (1 .. 4))
               /\ g \in [SUBSET (1 .. 4) -> Texts]
  <2> HIDE DEF step
  <2>1. 4 \in Nat
    OBVIOUS
  <2>2. QED
    BY <1>2, <1>4, <2>1, FoldExists
<1>6. ExpandsSets(g, text)
  <2>1. ASSUME NEW s \in SUBSET (1 .. 4), s # {}
        PROVE  step[<<g[s \ {Max(s)}], Max(s)>>]
                 = Replaced(g[s \ {Max(s)}], Synonyms[Max(s)].ko, Synonyms[Max(s)].en)
    <3>1. Max(s) \in 1 .. 4 /\ s \ {Max(s)} \in SUBSET (1 .. 4)
      BY <2>1, LastPosition
    <3>2. g[s \ {Max(s)}] \in Texts
      BY <1>5, <3>1
    <3>3. QED
      BY <3>1, <3>2
  <2>2. g = [s \in SUBSET (1 .. 4) |->
               IF s = {} THEN text ELSE step[<<g[s \ {Max(s)}], Max(s)>>]]
    BY <1>5 DEF FoldsLeft
  <2> HIDE DEF step
  <2>3. g = [s \in SUBSET (1 .. 4) |->
               IF s = {} THEN text
               ELSE Replaced(g[s \ {Max(s)}], Synonyms[Max(s)].ko, Synonyms[Max(s)].en)]
    BY <2>1, <2>2
  <2>4. QED
    BY <1>1, <2>3 DEF ExpandsSets
<1> DEFINE iter == CHOOSE f : ExpandsSets(f, text)
<1>7. ExpandsSets(iter, text)
  BY <1>6
<1>8. ExpandSearchSynonyms(text) = iter[1 .. 4]
  <2>1. ExpandSearchSynonyms(text) = iter[DOMAIN Synonyms]
    BY DEF ExpandSearchSynonyms, FoldLeft, MapThenFoldSet, ExpandsSets
  <2>2. QED
    BY <1>1, <2>1
<1> HIDE DEF iter
<1>9. iter = [s \in SUBSET (1 .. 4) |->
                IF s = {} THEN text
                ELSE Replaced(iter[s \ {Max(s)}], Synonyms[Max(s)].ko, Synonyms[Max(s)].en)]
  BY <1>1, <1>7 DEF ExpandsSets
<1>10. iter[1 .. 0] = text
  BY <1>9
<1>11. ASSUME NEW k \in 1 .. 4
       PROVE  iter[1 .. k] = Replaced(iter[1 .. (k - 1)], Synonyms[k].ko, Synonyms[k].en)
  <2>1. /\ 1 .. k # {} /\ Max(1 .. k) = k
        /\ (1 .. k) \ {Max(1 .. k)} = 1 .. (k - 1)
    BY FirstPositions
  <2>2. 1 .. k \in SUBSET (1 .. 4)
    OBVIOUS
  <2>3. iter[1 .. k] = Replaced(iter[(1 .. k) \ {Max(1 .. k)}],
                                Synonyms[Max(1 .. k)].ko, Synonyms[Max(1 .. k)].en)
    BY <1>9, <2>1, <2>2, Zenon
  <2>4. QED
    BY <2>1, <2>3
<1>12. /\ iter[1 .. 1] = Replaced(text, <<"pol", "deu">>, "fold")
       /\ iter[1 .. 2] = Replaced(iter[1 .. 1], <<"peul", "rip">>, "flip")
       /\ iter[1 .. 3] = Replaced(iter[1 .. 2], <<"pol">>, "fold")
       /\ iter[1 .. 4] = Replaced(iter[1 .. 3], <<"peul">>, "flip")
  <2>1. /\ Synonyms[1].ko = <<"pol", "deu">> /\ Synonyms[1].en = "fold"
        /\ Synonyms[2].ko = <<"peul", "rip">> /\ Synonyms[2].en = "flip"
        /\ Synonyms[3].ko = <<"pol">> /\ Synonyms[3].en = "fold"
        /\ Synonyms[4].ko = <<"peul">> /\ Synonyms[4].en = "flip"
    BY DEF Synonyms
  <2>2. /\ iter[1 .. 1] = Replaced(iter[1 .. 0], Synonyms[1].ko, Synonyms[1].en)
        /\ iter[1 .. 2] = Replaced(iter[1 .. 1], Synonyms[2].ko, Synonyms[2].en)
        /\ iter[1 .. 3] = Replaced(iter[1 .. 2], Synonyms[3].ko, Synonyms[3].en)
        /\ iter[1 .. 4] = Replaced(iter[1 .. 3], Synonyms[4].ko, Synonyms[4].en)
    <3>1. /\ 1 \in 1 .. 4 /\ 2 \in 1 .. 4 /\ 3 \in 1 .. 4 /\ 4 \in 1 .. 4
          /\ 1 - 1 = 0 /\ 2 - 1 = 1 /\ 3 - 1 = 2 /\ 4 - 1 = 3
      OBVIOUS
    <3>2. QED
      BY <1>11, <3>1
  <2>3. QED
    BY <1>10, <2>1, <2>2
<1>13. iter[1 .. 1] \in Texts /\ iter[1 .. 2] \in Texts /\ iter[1 .. 3] \in Texts
  <2>1. \A k \in 1 .. 4 : iter[1 .. (k - 1)] \in Texts => iter[1 .. k] \in Texts
    BY <1>3, <1>11
  <2>2. /\ iter[1 .. 0] \in Texts => iter[1 .. 1] \in Texts
        /\ iter[1 .. 1] \in Texts => iter[1 .. 2] \in Texts
        /\ iter[1 .. 2] \in Texts => iter[1 .. 3] \in Texts
    <3>1. /\ 1 \in 1 .. 4 /\ 2 \in 1 .. 4 /\ 3 \in 1 .. 4
          /\ 1 - 1 = 0 /\ 2 - 1 = 1 /\ 3 - 1 = 2
      OBVIOUS
    <3>2. QED
      BY <2>1, <3>1
  <2>3. QED
    BY <1>2, <1>10, <2>2
<1>14. QED
  BY <1>8, <1>12, <1>13, Zenon DEF Texts

(* A second syllable that does not follow its first one.                   *)
LEMMA AloneCount ==
  ASSUME NEW A, NEW s \in Seq(A), NEW c, NEW d
  PROVE  Cardinality({i \in DOMAIN s : s[i] = d /\ ~(i > 1 /\ s[i - 1] = c)})
           = Occurs(s, d) - Joins(s, c, d)
<1> DEFINE F == 1 .. Len(s)
           P == {i \in F : s[i] = d}
           Q == {i \in F : s[i] = d /\ (i > 1 /\ s[i - 1] = c)}
           R == {i \in F : s[i] = d /\ ~(i > 1 /\ s[i - 1] = c)}
<1>1. DOMAIN s = F /\ Len(s) \in Nat
  OBVIOUS
<1>2. IsFiniteSet(F)
  <2>1. \A m \in Nat : IsFiniteSet(1 .. m)
    BY FS_Interval
  <2>2. QED
    BY <1>1, <2>1
<1>3. P \in SUBSET F /\ R = P \ Q /\ P \cap Q = Q
  OBVIOUS
<1>4. Occurs(s, d) = Cardinality(P) /\ Joins(s, c, d) = Cardinality(Q)
  BY <1>1 DEF Occurs, Joins
<1>5. {i \in DOMAIN s : s[i] = d /\ ~(i > 1 /\ s[i - 1] = c)} = R
  BY <1>1
<1> HIDE DEF F, P, Q, R
<1>6. Cardinality(R) = Cardinality(P) - Cardinality(Q)
  <2>1. IsFiniteSet(P)
    BY <1>2, <1>3, FS_Subset
  <2>2. Cardinality(P \ Q) = Cardinality(P) - Cardinality(P \cap Q)
    BY <2>1, FS_Difference
  <2>3. QED
    BY <1>3, <2>2
<1>7. QED
  BY <1>4, <1>5, <1>6

LEMMA SyllablesAreCounted ==
  ASSUME NEW text \in Seq(Syllables), NEW words, words = ExpandSearchSynonyms(text)
  PROVE  /\ Occurs(words, "pol") = 0 /\ Occurs(words, "peul") = 0
         /\ Occurs(words, "fold") = Occurs(text, "fold") + Occurs(text, "pol")
         /\ Occurs(words, "flip") = Occurs(text, "flip") + Occurs(text, "peul")
         /\ Occurs(words, "deu") = Occurs(text, "deu") - Joins(text, "pol", "deu")
         /\ Occurs(words, "rip") = Occurs(text, "rip") - Joins(text, "peul", "rip")
<1>1. PICK a \in Seq(Syllables), b \in Seq(Syllables), c \in Seq(Syllables) :
        /\ a = Replaced(text, <<"pol", "deu">>, "fold")
        /\ b = Replaced(a, <<"peul", "rip">>, "flip")
        /\ c = Replaced(b, <<"pol">>, "fold")
        /\ words = Replaced(c, <<"peul">>, "flip")
  BY FourPasses, Zenon
<1>2. /\ "pol" \in Syllables /\ "deu" \in Syllables /\ "peul" \in Syllables
      /\ "rip" \in Syllables /\ "fold" \in Syllables /\ "flip" \in Syllables
  BY DEF Syllables
<1> HIDE DEF Syllables
<1>3. /\ PairReplaced(a, text, "pol", "deu", "fold", "peul", "rip")
      /\ PairReplaced(a, text, "pol", "deu", "fold", "flip", "rip")
  BY <1>1, <1>2, PairsAreReplaced
<1>4. /\ PairReplaced(b, a, "peul", "rip", "flip", "pol", "deu")
      /\ PairReplaced(b, a, "peul", "rip", "flip", "fold", "deu")
  BY <1>1, <1>2, PairsAreReplaced
<1>5. /\ WordReplaced(c, b, "pol", "fold", "peul") /\ WordReplaced(c, b, "pol", "fold", "deu")
      /\ WordReplaced(c, b, "pol", "fold", "flip") /\ WordReplaced(c, b, "pol", "fold", "rip")
  BY <1>1, <1>2, WordsAreReplaced
<1>6. /\ WordReplaced(words, c, "peul", "flip", "pol")
      /\ WordReplaced(words, c, "peul", "flip", "deu")
      /\ WordReplaced(words, c, "peul", "flip", "fold")
      /\ WordReplaced(words, c, "peul", "flip", "rip")
  <2> DEFINE last == Replaced(c, <<"peul">>, "flip")
  <2>1. /\ WordReplaced(last, c, "peul", "flip", "pol")
        /\ WordReplaced(last, c, "peul", "flip", "deu")
        /\ WordReplaced(last, c, "peul", "flip", "fold")
        /\ WordReplaced(last, c, "peul", "flip", "rip")
    BY <1>2, WordsAreReplaced
  <2> HIDE DEF last
  <2>2. words = last
    BY <1>1 DEF last
  <2>3. QED
    BY <2>1, <2>2
<1>7. \A y \in {"pol", "deu", "peul", "rip", "fold", "flip"} :
         /\ Occurs(text, y) \in Nat /\ Occurs(a, y) \in Nat /\ Occurs(b, y) \in Nat
         /\ Occurs(c, y) \in Nat
  <2>1. ASSUME NEW y, NEW s \in Seq(Syllables) PROVE Occurs(s, y) \in Nat
    <3>1. CountsOneMore(Append(s, "pol"), s, "pol", y, y)
      BY <1>2, AppendCounts, Zenon
    <3>2. QED
      BY <3>1 DEF CountsOneMore
  <2>2. QED
    BY <2>1
<1>8. Joins(text, "pol", "deu") \in Nat /\ Joins(text, "peul", "rip") \in Nat
  <2>1. /\ CountsOneMore(Append(text, "pol"), text, "pol", "pol", "deu")
        /\ CountsOneMore(Append(text, "pol"), text, "pol", "peul", "rip")
    BY <1>2, AppendCounts, Zenon
  <2>2. QED
    BY <2>1 DEF CountsOneMore
<1>9. /\ Occurs(a, "pol") + Joins(text, "pol", "deu") = Occurs(text, "pol")
      /\ Occurs(a, "deu") + Joins(text, "pol", "deu") = Occurs(text, "deu")
      /\ Occurs(a, "fold") = Occurs(text, "fold") + Joins(text, "pol", "deu")
      /\ Occurs(a, "peul") = Occurs(text, "peul") /\ Occurs(a, "rip") = Occurs(text, "rip")
      /\ Occurs(a, "flip") = Occurs(text, "flip")
      /\ Joins(a, "peul", "rip") = Joins(text, "peul", "rip")
  BY <1>3 DEF PairReplaced
<1>10. /\ Occurs(b, "peul") + Joins(a, "peul", "rip") = Occurs(a, "peul")
       /\ Occurs(b, "rip") + Joins(a, "peul", "rip") = Occurs(a, "rip")
       /\ Occurs(b, "flip") = Occurs(a, "flip") + Joins(a, "peul", "rip")
       /\ Occurs(b, "pol") = Occurs(a, "pol") /\ Occurs(b, "deu") = Occurs(a, "deu")
       /\ Occurs(b, "fold") = Occurs(a, "fold")
  BY <1>4 DEF PairReplaced
<1>11. /\ Occurs(c, "pol") = 0 /\ Occurs(c, "fold") = Occurs(b, "fold") + Occurs(b, "pol")
       /\ Occurs(c, "peul") = Occurs(b, "peul") /\ Occurs(c, "deu") = Occurs(b, "deu")
       /\ Occurs(c, "flip") = Occurs(b, "flip") /\ Occurs(c, "rip") = Occurs(b, "rip")
  BY <1>5 DEF WordReplaced
<1>12. /\ Occurs(words, "peul") = 0
       /\ Occurs(words, "flip") = Occurs(c, "flip") + Occurs(c, "peul")
       /\ Occurs(words, "pol") = Occurs(c, "pol") /\ Occurs(words, "deu") = Occurs(c, "deu")
       /\ Occurs(words, "fold") = Occurs(c, "fold") /\ Occurs(words, "rip") = Occurs(c, "rip")
  BY <1>6 DEF WordReplaced
<1>13. /\ Occurs(words, "pol") = 0 /\ Occurs(words, "peul") = 0
       /\ Occurs(words, "deu") = Occurs(text, "deu") - Joins(text, "pol", "deu")
       /\ Occurs(words, "rip") = Occurs(text, "rip") - Joins(text, "peul", "rip")
  <2>1. Occurs(a, "deu") \in Nat /\ Occurs(a, "rip") \in Nat /\ Occurs(b, "rip") \in Nat
    BY <1>7
  <2>2. Occurs(words, "deu") = Occurs(a, "deu") /\ Occurs(words, "rip") = Occurs(b, "rip")
    BY <1>10, <1>11, <1>12
  <2>3. Occurs(words, "deu") = Occurs(text, "deu") - Joins(text, "pol", "deu")
    BY <1>8, <1>9, <2>1, <2>2
  <2>4. Occurs(b, "rip") + Joins(text, "peul", "rip") = Occurs(text, "rip")
    BY <1>9, <1>10
  <2>5. Occurs(words, "rip") = Occurs(text, "rip") - Joins(text, "peul", "rip")
    BY <1>8, <2>1, <2>2, <2>4
  <2>6. QED
    BY <1>11, <1>12, <2>3, <2>5
<1>14. Occurs(words, "fold") = Occurs(text, "fold") + Occurs(text, "pol")
  BY <1>7, <1>8, <1>9, <1>10, <1>11, <1>12
<1>15. Occurs(words, "flip") = Occurs(text, "flip") + Occurs(text, "peul")
  <2>1. /\ Occurs(text, "flip") \in Nat /\ Occurs(text, "peul") \in Nat
        /\ Occurs(b, "peul") \in Nat
    BY <1>7
  <2>2. Occurs(words, "flip") = Occurs(b, "flip") + Occurs(b, "peul")
    BY <1>11, <1>12
  <2>3. /\ Occurs(b, "flip") = Occurs(text, "flip") + Joins(text, "peul", "rip")
        /\ Occurs(b, "peul") + Joins(text, "peul", "rip") = Occurs(text, "peul")
    BY <1>9, <1>10
  <2>4. QED
    BY <1>8, <2>1, <2>2, <2>3
<1>16. QED
  BY <1>13, <1>14, <1>15

(* Every syllable of a product line becomes its English word, whatever     *)
(* else the search term holds (expand_search_synonyms).                    *)
THEOREM SynonymsAlwaysBecomeWords == QueriesSpec => []SynonymsBecomeWords
<1>1. ASSUME QuestionFits PROVE SynonymsBecomeWords
  <2>1. CASE ~Asked("search")
    BY <2>1 DEF SynonymsBecomeWords
  <2>2. CASE Asked("search")
    <3> DEFINE text == question.text
               words == ExpandSearchSynonyms(text)
    <3>1. text \in Seq(Syllables)
      <4>1. text \in Seq(STRING)
        BY <1>1, <2>2, QueriesAssumption DEF Asked, QuestionFits
      <4>2. STRING \subseteq Syllables
        BY DEF Syllables
      <4> HIDE DEF text
      <4>3. DOMAIN text = 1 .. Len(text) /\ \A i \in 1 .. Len(text) : text[i] \in STRING
        BY <4>1
      <4>4. \A i \in 1 .. Len(text) : text[i] \in Syllables
        BY <4>2, <4>3
      <4> HIDE DEF Syllables
      <4>5. QED
        BY <4>1, <4>3, <4>4
    <3> HIDE DEF text
    <3>2. /\ Occurs(words, "pol") = 0 /\ Occurs(words, "peul") = 0
          /\ Occurs(words, "fold") = Occurs(text, "fold") + Occurs(text, "pol")
          /\ Occurs(words, "flip") = Occurs(text, "flip") + Occurs(text, "peul")
          /\ Occurs(words, "deu") = Occurs(text, "deu") - Joins(text, "pol", "deu")
          /\ Occurs(words, "rip") = Occurs(text, "rip") - Joins(text, "peul", "rip")
      BY <3>1, SyllablesAreCounted
    <3>3. /\ Cardinality({i \in DOMAIN text : text[i] = "deu"
                             /\ ~(i > 1 /\ text[i - 1] = "pol")})
               = Occurs(text, "deu") - Joins(text, "pol", "deu")
          /\ Cardinality({i \in DOMAIN text : text[i] = "rip"
                             /\ ~(i > 1 /\ text[i - 1] = "peul")})
               = Occurs(text, "rip") - Joins(text, "peul", "rip")
      BY <3>1, AloneCount
    <3> HIDE DEF words
    <3>4. QED
      BY <2>2, <3>2, <3>3, Zenon DEF SynonymsBecomeWords, Occurs, text, words
  <2>3. QED
    BY <2>1, <2>2
<1>2. QED
  BY <1>1, QuestionsAreAsked, PTL
=============================================================================
