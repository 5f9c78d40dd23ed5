--------------------------- MODULE MCCatalogReads ---------------------------
(***************************************************************************)
(* Two devices, a writer that edits, publishes and archives them, and one  *)
(* reader with a question of every kind.  PageSize is 1, so that a list    *)
(* has a second page.                                                      *)
(***************************************************************************)
EXTENDS CatalogReads

CONSTANTS d1, d2, r1, g1, acme, bolt

MCNames == {"One", "Three"}
MCRouteKey == [name \in MCNames |-> IF name = "Three" THEN 3 ELSE 1]

Payload(slug, names, brand, status, checked) ==
  [slug |-> slug, names |-> names, brand |-> brand, brandName |-> "Acme",
   status |-> status, checked |-> checked,
   refusedAt |-> "never", refusedWith |-> "400"]

First   == Payload(1, {"One", "Three"}, acme, "published", TRUE)
Edited  == Payload(1, {"One"}, bolt, "published", TRUE)
Second  == Payload(2, {}, bolt, "published", TRUE)
Retired == Payload(2, {}, bolt, "archived", TRUE)
Unready == Payload(2, {"Three"}, acme, "published", FALSE)

MCPayloads == {First, Edited, Second, Retired, Unready}
MCInitialDevices == [d \in Devices |-> IF d = d1 THEN First ELSE Second]

Asked(kind, keys, brand, page) ==
  [kind |-> kind, keys |-> keys, device |-> IF kind = "by_id" THEN d2 ELSE NoDevice,
   brand |-> brand, status |-> "any", page |-> page]
MCQuestions ==
  {Asked("detail", <<3>>, NoBrand, 1),
   Asked("comparison", <<2, 1>>, NoBrand, 1),
   Asked("comparison", <<3, 1>>, NoBrand, 1),
   Asked("comparison", <<1, 1>>, NoBrand, 1),
   Asked("home", <<>>, NoBrand, 1),
   Asked("list", <<>>, NoBrand, 2),
   Asked("list", <<1, 2>>, bolt, 1),
   Asked("by_id", <<>>, NoBrand, 1),
   Asked("by_slug", <<2>>, NoBrand, 1),
   [Asked("admin_list", <<>>, bolt, 1) EXCEPT !.status = "published"]}

(* A response is put together from at most four queries: more than three   *)
(* commits in the lifetime of one request show nothing new.                *)
FewOverlappingWrites == \A r \in Readers : Len(since[r]) <= 4
=============================================================================
