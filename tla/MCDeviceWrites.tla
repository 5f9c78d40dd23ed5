--------------------------- MODULE MCDeviceWrites ---------------------------
(***************************************************************************)
(* A small catalogue for TLC: two slots and up to three rows, one more than*)
(* the payloads can fill.  The payloads cross their keys, exchange slugs   *)
(* and brands between stored devices, rename a brand, claim an alias twice *)
(* under two spellings and fail on their own content.                      *)
(***************************************************************************)
EXTENDS DeviceWrites, TLC

CONSTANTS d1, d2, d3, r1, r2, acme, bolt

MCNames == {"One", "one ", "Three"}
MCRouteKey == [name \in MCNames |-> IF name = "Three" THEN 3 ELSE 1]

Payload(slug, names, brand, name, status, checked) ==
  [slug |-> slug, names |-> names, brand |-> brand, brandName |-> name,
   status |-> status, checked |-> checked,
   refusedAt |-> "never", refusedWith |-> "400"]

First  == Payload(1, {"Three"}, acme, "Acme", "published", TRUE)
Second == Payload(2, {}, bolt, "Bolt", "published", TRUE)
Third  == Payload(3, {"One", "one "}, bolt, "BOLT", "draft", FALSE)
Faulty(payload, at, with) ==
  [payload EXCEPT !.refusedAt = at, !.refusedWith = with]

(* First and Third claim the same two keys, each with the other's slug for *)
(* its name; First and Second can be stored together and then exchanged.   *)
MCPayloads == {First, Second, Third, Faulty(Third, "keys", "400"),
               Faulty(Third, "children", "400")}
EmptyCatalogue == [d \in Devices |-> NoDevice]
Symmetries == Permutations(Devices) \cup Permutations(Requests)

SwapPayloads == {First, Second, Faulty(Second, "brand", "400"),
                 Faulty(Second, "row", "400"), Faulty(First, "keys", "400")}
TwoStored ==
  [d \in Devices |-> CASE d = d1 -> First [] d = d2 -> Second [] OTHER -> NoDevice]
BothBrands == [b \in Brands |-> IF b = acme THEN "Acme" ELSE "Bolt"]

(* First without the checked_at of its primary source.                     *)
UncheckedPayloads == {[First EXCEPT !.checked = FALSE], Second}
MCInitialBrands == [b \in Brands |-> IF b = acme THEN "Acme" ELSE NoBrand]
=============================================================================
