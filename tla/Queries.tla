------------------------------- MODULE Queries -------------------------------
(***************************************************************************)
(* What a request's own text decides before the database is asked: query   *)
(* strings of the three lists and of the camera comparison, identifiers,   *)
(* search terms, spec keys.  One request is looked at after the other.     *)
(*                                                                         *)
(* A query string is a sequence of decoded pairs (parse_query_pairs, url). *)
(* An identifier or a search term is a sequence of characters, of which    *)
(* one stands for each class the code tells apart.  A parser yields a set: *)
(* its reading, or nothing for a 400.                                      *)
(***************************************************************************)
EXTENDS Pages, SequencesExt

CONSTANTS
  Reads,        \* str::parse::<u32>: the numbers of the texts it accepts
  Digits,       \* the texts of ASCII digits alone
  Searches,     \* values of q that leave something to search for
  Controls,     \* texts with a control character
  TooLong,      \* texts above their limit
  Slugs,        \* texts that valid_slug accepts
  DeviceListSize, CameraListSize,  \* default page sizes, 20 and 30
  MaxIdentifier,  \* 160 characters
  StoredSlugs,    \* slugs of camera_models: ASCII, so without a mark
  RequiredKeys, SubDisplayGroups, SubDisplayNames,
  Questions, NoQuestion

ASSUME QueriesAssumption ==
  /\ \A text \in DOMAIN Reads : Reads[text] \in Nat
  /\ MaxIdentifier \in Nat
  /\ DeviceListSize \in 1 .. MaxPageSize /\ CameraListSize \in 1 .. MaxPageSize
  /\ \A slug \in StoredSlugs : \A i \in DOMAIN slug : slug[i] # "below"
  /\ NoQuestion \notin Questions
  /\ \A q \in Questions : q.kind = "list" => q.pairs \in Seq([key : STRING, value : STRING])
  /\ \A q \in Questions : q.kind = "compare" => q.identifiers \in Seq(Seq(STRING))
  /\ \A q \in Questions : q.kind = "search" => q.text \in Seq(STRING)
  /\ \A q \in Questions : q.kind = "keys" => IsFiniteSet(q.provided)
ASSUME SpecKeysAssumption ==
  /\ IsFiniteSet(RequiredKeys)
  /\ SubDisplayGroups \in Seq(SUBSET STRING) /\ SubDisplayNames \in Seq(STRING)
  /\ Len(SubDisplayNames) = Len(SubDisplayGroups)
  /\ \A g \in DOMAIN SubDisplayGroups :
       /\ SubDisplayGroups[g] # {} /\ IsFiniteSet(SubDisplayGroups[g])
       /\ RequiredKeys \cap (SubDisplayGroups[g] \cup {SubDisplayNames[g]}) = {}
  /\ \A g, h \in DOMAIN SubDisplayGroups :
       /\ SubDisplayNames[g] \notin SubDisplayGroups[h]
       /\ g # h => /\ SubDisplayGroups[g] \cap SubDisplayGroups[h] = {}
                   /\ SubDisplayNames[g] # SubDisplayNames[h]

VARIABLE question

QueriesInit == question = NoQuestion

Ask(asked) == question = NoQuestion /\ question' = asked
Answer == question # NoQuestion /\ question' = NoQuestion

QueriesNext == (\E asked \in Questions : Ask(asked)) \/ Answer

QueriesSpec == QueriesInit /\ [][QueriesNext]_question

-----------------------------------------------------------------------------
(* Query strings.  Pairs go into a HashMap, one after the other; a key it  *)
(* already has is refused, and so is a key the endpoint does not know.     *)
(* Mutant: a repeated key replaces the earlier one.                        *)
KeysFit_LastWins(pairs, known) == \A i \in DOMAIN pairs : pairs[i].key \in known

KeysFit(pairs, known) ==
  /\ \A i \in DOMAIN pairs : pairs[i].key \in known
  /\ \A i, j \in DOMAIN pairs : pairs[i].key = pairs[j].key => i = j

Given(pairs, key) == \E i \in DOMAIN pairs : pairs[i].key = key

ValueOf(pairs, key, default) ==
  IF Given(pairs, key)
  THEN pairs[CHOOSE i \in DOMAIN pairs :
               /\ pairs[i].key = key
               /\ \A j \in DOMAIN pairs : pairs[j].key = key => j <= i].value
  ELSE default

(* Mutant: the maximum is not looked at.                                   *)
ParseBoundedU32_Unbounded(pairs, key, maximum, default) ==
  IF Given(pairs, key)
  THEN {Reads[text] : text \in {ValueOf(pairs, key, "")} \cap DOMAIN Reads}
  ELSE {default}

ParseBoundedU32(pairs, key, maximum, default) ==
  IF Given(pairs, key)
  THEN {Reads[text] : text \in {ValueOf(pairs, key, "")} \cap DOMAIN Reads}
         \cap 1 .. maximum
  ELSE {default}

(* The cameras' own parser takes no leading plus sign.                     *)
ParsePageValue(pairs, key, maximum, default) ==
  IF Given(pairs, key) /\ ValueOf(pairs, key, "") \notin Digits
  THEN {}
  ELSE ParseBoundedU32(pairs, key, maximum, default)

ListQuery(pairs) ==
  LET q     == ValueOf(pairs, "q", "")
      brand == ValueOf(pairs, "brand", "")
      sort  == ValueOf(pairs, "sort", IF q \in Searches THEN "relevance"
                                      ELSE "release_date_desc")
  IN {reading \in [q : {q}, brand : {brand}, sort : {sort},
                   page : ParseBoundedU32(pairs, "page", MaxPage, 1),
                   size : ParseBoundedU32(pairs, "page_size", MaxPageSize, DeviceListSize)] :
        /\ KeysFit(pairs, {"q", "category", "brand", "page", "page_size", "sort"})
        /\ q \notin TooLong
        /\ ValueOf(pairs, "category", "smartphone") = "smartphone"
        /\ Given(pairs, "brand") => brand \in Slugs
        /\ sort \in {"relevance", "release_date_desc"}}

(* An empty brand or status is no filter here.                             *)
AdminDeviceListQuery(pairs) ==
  LET q      == ValueOf(pairs, "q", "")
      field  == ValueOf(pairs, "search_field", "name")
      brand  == ValueOf(pairs, "brand", "")
      status == ValueOf(pairs, "publication_status", "")
      sort   == ValueOf(pairs, "sort", "release_date_desc")
  IN {reading \in [q : {q}, field : {field}, brand : {brand}, status : {status}, sort : {sort},
                   page : ParseBoundedU32(pairs, "page", MaxPage, 1),
                   size : ParseBoundedU32(pairs, "page_size", MaxPageSize, DeviceListSize)] :
        /\ KeysFit(pairs, {"q", "search_field", "brand", "publication_status",
                           "sort", "page", "page_size", "category"})
        /\ ValueOf(pairs, "category", "smartphone") = "smartphone"
        /\ q \notin TooLong \cup Controls
        /\ field \in {"name", "model_number"}
        /\ brand \in Slugs \cup {""}
        /\ status \in {"", "draft", "published", "archived"}
        /\ sort \in {"release_date_asc", "release_date_desc"}}

CameraListQuery(pairs) ==
  LET q      == ValueOf(pairs, "q", "")
      series == ValueOf(pairs, "series", "")
  IN {reading \in [q : {q}, series : {series},
                   page : ParsePageValue(pairs, "page", MaxPage, 1),
                   size : ParsePageValue(pairs, "page_size", MaxPageSize, CameraListSize)] :
        /\ KeysFit(pairs, {"q", "series", "page", "page_size"})
        /\ q \notin TooLong \cup Controls
        /\ Given(pairs, "series") => series \notin TooLong \cup Controls \cup {""}}

-----------------------------------------------------------------------------
(* Identifiers.  NFKC spells a ligature out, and makes one character of a  *)
(* letter and the mark after it where Unicode has one: "hbelow" stands for *)
(* U+1E96, "h" with the macron below, which has no capital.                *)
PushComposed(done, ch) ==
  CASE ch = "fi" -> done \o <<"f", "i">>
    [] ch = "below" /\ done # <<>> /\ Last(done) = "h" -> Append(Front(done), "hbelow")
    [] OTHER -> Append(done, ch)

Composed(text) == FoldLeft(PushComposed, <<>>, text)

(* Only then every character is put into lower case.                       *)
Lower(ch) == CASE ch = "A" -> "a" [] ch = "H" -> "h" [] OTHER -> ch
Folded(text) == [i \in DOMAIN Composed(text) |-> Lower(Composed(text)[i])]

(* The loop over the characters; trim() before it takes away what the loop *)
(* would drop at both ends anyway.                                         *)
PushCharacter(acc, ch) ==
  IF ch \in {" ", "_"}
  THEN [acc EXCEPT !.pending = acc.result # <<>>]
  ELSE [result |-> (IF acc.pending THEN Append(acc.result, "-") ELSE acc.result)
                     \o <<ch>>,
        pending |-> FALSE]

JoinWords(chars) ==
  FoldLeft(PushCharacter, [result |-> <<>>, pending |-> FALSE], chars).result

(* Mutant: only what was sent is measured, before ligatures are spelt out. *)
LengthFits_Raw(text, result) == result # <<>> /\ Len(text) <= MaxIdentifier

LengthFits(text, result) ==
  result # <<>> /\ Len(text) <= MaxIdentifier /\ Len(result) <= MaxIdentifier

NormalizeRouteIdentifier(text) ==
  {result \in {JoinWords(Folded(text))} : LengthFits(text, result)}

(* compare_cameras of one to three identifiers (parse_comparison_query):   *)
(* distinct slugs, all of them stored; 400 or 404 otherwise.  The rows come*)
(* in any order and are put in that of the identifiers.                    *)
CompareCameras(identifiers) ==
  {slugs \in [DOMAIN identifiers -> StoredSlugs] :
     /\ Len(identifiers) \in 1 .. 3
     /\ \A i \in DOMAIN slugs : slugs[i] \in NormalizeRouteIdentifier(identifiers[i])
     /\ \A i, j \in DOMAIN slugs : slugs[i] = slugs[j] => i = j}

-----------------------------------------------------------------------------
(* expand_search_synonyms: str::replace for each pair, in this order.  The *)
(* other pairs share no syllable with these.                               *)
PushReplaced(done, ch, korean, english) ==
  IF IsSuffix(korean, Append(done, ch))
  THEN Append(SubSeq(done, 1, Len(done) + 1 - Len(korean)), english)
  ELSE Append(done, ch)

Replaced(text, korean, english) ==
  FoldLeft(LAMBDA done, ch : PushReplaced(done, ch, korean, english), <<>>, text)

(* Mutant: the bare syllables come first.                                  *)
Synonyms_SyllablesFirst ==
  <<[ko |-> <<"pol">>, en |-> "fold"], [ko |-> <<"peul">>, en |-> "flip"],
    [ko |-> <<"pol", "deu">>, en |-> "fold"], [ko |-> <<"peul", "rip">>, en |-> "flip"]>>

Synonyms ==
  <<[ko |-> <<"pol", "deu">>, en |-> "fold"], [ko |-> <<"peul", "rip">>, en |-> "flip"],
    [ko |-> <<"pol">>, en |-> "fold"], [ko |-> <<"peul">>, en |-> "flip"]>>

ExpandSearchSynonyms(text) ==
  FoldLeft(LAMBDA done, pair : Replaced(done, pair.ko, pair.en), text, Synonyms)

-----------------------------------------------------------------------------
(* spec_keys_are_valid: counts, group by group, with its early returns.    *)
(* Mutant: a second sub display needs no first one.                        *)
VisitGroup_Unordered(acc, g, provided) ==
  LET present == Cardinality(SubDisplayGroups[g] \cap provided)
      named   == IF SubDisplayNames[g] \in provided THEN 1 ELSE 0
  IN [valid |-> /\ acc.valid
                /\ present \in {0, Cardinality(SubDisplayGroups[g])}
                /\ named # 0 => present # 0,
      previous |-> present # 0,
      extra |-> acc.extra + present + named]

VisitGroup(acc, g, provided) ==
  LET present == Cardinality(SubDisplayGroups[g] \cap provided)
      named   == IF SubDisplayNames[g] \in provided THEN 1 ELSE 0
  IN [valid |-> /\ acc.valid
                /\ present \in {0, Cardinality(SubDisplayGroups[g])}
                /\ present # 0 => acc.previous
                /\ named # 0 => present # 0,
      previous |-> present # 0,
      extra |-> acc.extra + present + named]

SpecKeysAreValid(provided) ==
  LET groups == FoldLeftDomain(LAMBDA acc, g : VisitGroup(acc, g, provided),
                               [valid |-> TRUE, previous |-> TRUE, extra |-> 0],
                               SubDisplayGroups)
  IN /\ RequiredKeys \subseteq provided /\ groups.valid
     /\ Cardinality(provided) = Cardinality(RequiredKeys) + groups.extra

(***************************************************************************)
(* Properties.                                                             *)
(***************************************************************************)
Asked(kind) == question # NoQuestion /\ question.kind = kind

Orders(n) == {p \in [1 .. n -> 1 .. n] : \A i, j \in 1 .. n : p[i] = p[j] => i = j}

(* A query string means the same whatever the order of its pairs: no list  *)
(* answers one order and refuses another, or filters by another value.     *)
ReadingIgnoresOrder ==
  Asked("list") =>
    LET pairs == question.pairs
    IN \A p \in Orders(Len(pairs)) :
         LET shuffled == [i \in DOMAIN pairs |-> pairs[p[i]]]
         IN /\ ListQuery(shuffled) = ListQuery(pairs)
            /\ AdminDeviceListQuery(shuffled) = AdminDeviceListQuery(pairs)
            /\ CameraListQuery(shuffled) = CameraListQuery(pairs)

(* Whatever page a list accepts, its OFFSET does not wrap in u32: the page *)
(* shows the rows that are its own, and total_pages counts the pages.      *)
AcceptedPagesTile ==
  Asked("list") =>
    \A reading \in {[page |-> r.page, size |-> r.size] : r \in ListQuery(question.pairs)}
         \cup {[page |-> r.page, size |-> r.size] : r \in AdminDeviceListQuery(question.pairs)}
         \cup {[page |-> r.page, size |-> r.size] : r \in CameraListQuery(question.pairs)} :
      /\ PageShowsItsRows(reading.page, reading.size)
      /\ TotalCountsPages(reading.page, reading.size)

(* The normal form of an accepted identifier is accepted.  It is its own   *)
(* normal form if no mark is left in it; a second pass may still put a mark*)
(* onto the letter that the first one put into lower case, but it leaves   *)
(* nothing to a third.  Asked for by the slugs of its answer, in their     *)
(* order, a comparison is the same again.                                  *)
IdentifiersLeadBack ==
  Asked("compare") =>
    LET identifiers == question.identifiers
    IN /\ \A i \in DOMAIN identifiers :
            \A form \in NormalizeRouteIdentifier(identifiers[i]) :
              \E settled \in NormalizeRouteIdentifier(form) :
                /\ NormalizeRouteIdentifier(settled) = {settled}
                /\ (\A k \in DOMAIN form : form[k] # "below") => settled = form
       /\ \A slugs \in CompareCameras(identifiers) : CompareCameras(slugs) = {slugs}

(* After the expansion no syllable of a product line is left, each has     *)
(* become one English word beside those that were sent, and a second       *)
(* syllable is only left where its first one was missing.                  *)
SynonymsBecomeWords ==
  Asked("search") =>
    LET text == question.text
        words == ExpandSearchSynonyms(text)
        Count(s, ch) == Cardinality({i \in DOMAIN s : s[i] = ch})
        Alone(second, first) ==
          Cardinality({i \in DOMAIN text : text[i] = second
                                           /\ ~(i > 1 /\ text[i - 1] = first)})
    IN /\ Count(words, "pol") = 0 /\ Count(words, "peul") = 0
       /\ Count(words, "fold") = Count(text, "fold") + Count(text, "pol")
       /\ Count(words, "flip") = Count(text, "flip") + Count(text, "peul")
       /\ Count(words, "deu") = Alone("deu", "pol")
       /\ Count(words, "rip") = Alone("rip", "peul")

(* What is counted up to be valid is the required keys, the groups of the  *)
(* first sub displays in full, and names of those alone.                   *)
SubDisplaysInTurn ==
  Asked("keys") =>
    LET First(n) == UNION {SubDisplayGroups[g] : g \in 1 .. n}
        Names(n) == {SubDisplayNames[g] : g \in 1 .. n}
    IN SpecKeysAreValid(question.provided) <=>
         \E n \in 0 .. Len(SubDisplayGroups) : \E names \in SUBSET Names(n) :
           question.provided = RequiredKeys \cup First(n) \cup names
=============================================================================
