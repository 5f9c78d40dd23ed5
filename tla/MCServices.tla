----------------------------- MODULE MCServices -----------------------------
(***************************************************************************)
(* The services that share no table with one another, checked in one run:  *)
(* a behaviour serves one of them and leaves the others as they begin.     *)
(* Each has its own instance, described with its definitions below.        *)
(***************************************************************************)
EXTENDS Accounts, Cameras, RouteMisses, WirelessTechnologies, Queries

VARIABLE serving

served == <<accountsVars, camerasVars, missVars, technology, question, serving>>

Init ==
  /\ serving \in {"accounts", "cameras", "misses", "technologies", "queries"}
  /\ AccountsInit /\ CamerasInit /\ MissesInit /\ TechnologiesInit /\ QueriesInit

Next ==
  /\ UNCHANGED serving
  /\ \/ /\ serving = "accounts" /\ AccountsNext
        /\ UNCHANGED <<camerasVars, missVars, technology, question>>
     \/ /\ serving = "cameras" /\ CamerasNext
        /\ UNCHANGED <<accountsVars, missVars, technology, question>>
     \/ /\ serving = "misses" /\ MissesNext
        /\ UNCHANGED <<accountsVars, camerasVars, technology, question>>
     \/ /\ serving = "technologies" /\ TechnologiesNext
        /\ UNCHANGED <<accountsVars, camerasVars, missVars, question>>
     \/ /\ serving = "queries" /\ QueriesNext
        /\ UNCHANGED <<accountsVars, camerasVars, missVars, technology>>

Spec == Init /\ [][Next]_served

-----------------------------------------------------------------------------
(* Accounts: an address is registered, freed again, and then wanted by its *)
(* first user and by a new one at once; two patches change different       *)
(* fields of the same user.                                                *)
CONSTANTS u1, u2, p1, p2

Sign(email) ==
  [kind |-> "create", email |-> email, name |-> "Ann", password |-> "right"]
Change(u, email, name) == [kind |-> "patch", user |-> u, email |-> email, name |-> name]
LogIn(password) == [kind |-> "login", email |-> "a", password |-> password]

MCCalls ==
  {Sign("a"), Change(u1, "b", Absent), Change(u1, "a", Absent), Change(u1, Absent, "Bea"),
   [kind |-> "delete", user |-> u1], LogIn("right"), LogIn("wrong")}

(* Cameras: two spellings of one brand, an update of a camera that may not *)
(* be there, a slug two writes want, a row that a CHECK refuses after its  *)
(* brand has been renamed, and administrators who exchange names.          *)
CONSTANTS b1, b2, k1, k2, l1

PutCamera(target, brandSlug, name, slug) ==
  [target |-> target, brandSlug |-> brandSlug, brandName |-> name, slug |-> slug,
   refusedAt |-> "never"]
MCCameraRequests ==
  {PutCamera(NoRow, "canon", "Canon", "r5"), PutCamera(k1, "canon", "CANON", "r6"),
   PutCamera(NoRow, "sony", "Sony", "r5"),
   [PutCamera(NoRow, "canon", "CANON", "r6") EXCEPT !.refusedAt = "row"]}
MCBrandInputs == {[slug |-> "canon", name |-> "Sony"], [slug |-> "sony", name |-> "Canon"]}

(* Misses: three reports of two paths over three days.                    *)
CONSTANTS m1, m2, m3

(* Technologies: two spellings of a value that are one when trimmed.       *)
CONSTANTS t1, t2, t3

MCTrimmed == [value \in {"5G", " 5G", "4G"} |-> IF value = " 5G" THEN "5G" ELSE value]
MCTechnologyInputs == [category : {"network", "wifi"}, value : DOMAIN MCTrimmed]

(* Queries: up to three pairs of those that decide something; identifiers  *)
(* of up to three characters: a ligature, a mark that composes with a small*)
(* letter and not with its capital, and both separators.                   *)
Pair(key, value) == [key |-> key, value |-> value]
MCPairs ==
  {Pair("page", "3"), Pair("page", "+3"), Pair("page", "9"), Pair("page", "x"),
   Pair("page_size", "4"), Pair("page_size", "1"), Pair("q", ""), Pair("q", "fold"),
   Pair("q", "tab"), Pair("sort", "relevance"), Pair("brand", ""), Pair("brand", "acme"),
   Pair("series", "eos"), Pair("category", "tablet"), Pair("nope", "x")}
MCReads ==
  [text \in {"1", "3", "+3", "4", "9"} |->
     CASE text = "1" -> 1 [] text = "4" -> 4 [] text = "9" -> 9 [] OTHER -> 3]

Characters == {"a", "A", "fi", "h", "H", "below", "hbelow", "-", "_", " "}
Spellings == {<<"a">>, <<"A">>, <<"fi">>, <<"a", " ", "a">>, <<"a", "-", "a">>}
MCStoredSlugs == {<<"a">>, <<"f", "i">>, <<"a", "-", "a">>}
MCGroups == <<{"panel1", "size1"}, {"panel2", "size2"}>>
MCDisplayNames == <<"name1", "name2">>
SpecKeys == {"weight", "other"} \cup MCGroups[1] \cup MCGroups[2] \cup {"name1", "name2"}

MCQuestions ==
  [kind : {"list"}, pairs : BoundedSeq(MCPairs, 3)]
    \cup [kind : {"compare"}, identifiers : BoundedSeq(BoundedSeq(Characters, 3), 1)]
    \cup [kind : {"compare"}, identifiers : BoundedSeq(Spellings, 3)]
    \cup [kind : {"search"}, text : BoundedSeq({"pol", "deu", "peul", "rip", "fold"}, 4)]
    \cup [kind : {"keys"}, provided : SUBSET SpecKeys]

(* Clients and CameraWriters are the same two places.                      *)
Symmetries == Permutations({p1, p2}) \cup Permutations(Reports)
=============================================================================
