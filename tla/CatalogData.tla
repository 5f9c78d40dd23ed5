---------------------------- MODULE CatalogData ----------------------------
(***************************************************************************)
(* The vocabulary shared by the specifications of the device catalogue:    *)
(* what a write request carries, which route keys it claims and what makes *)
(* a stored device public.  Strings are members of small sets; only what   *)
(* the schema and the handlers compare is kept.                            *)
(***************************************************************************)
EXTENDS Naturals

CONSTANTS
  Devices,      \* ids (UUIDs) of device_models rows
  Brands,       \* brand slugs
  BrandNames,   \* display names a brand can be given
  Keys,         \* route keys; numbers, because BTreeMap orders them
  Names,        \* device names and alias values, as typed
  RouteKey,     \* normalize_route_identifier on Names
  Payloads,     \* the DeviceWriteRequests clients send
  NoDevice, NoBrand

Statuses == {"draft", "published", "archived"}

(* Where a payload can be refused for its own content: by validation, by   *)
(* the CHECKs of the brand or the row, while aliases are inserted, names   *)
(* normalised and identifiers inserted, or while the remaining child rows  *)
(* are inserted.                                                           *)
FaultPoints == {"validate", "brand", "row", "keys", "children"}

(* A slug is a route key that normalisation leaves as it is (valid_slug    *)
(* admits lower-case letters, digits and inner hyphens only).  checked     *)
(* says that the payload has its one primary source and that the source    *)
(* has a checked_at.  refusedAt is "never" or the place where the payload  *)
(* fails, refusedWith the status it fails with.                            *)
DeviceWriteRequest ==
  [slug : Keys, names : SUBSET Names,
   brand : Brands, brandName : BrandNames,
   status : Statuses, checked : BOOLEAN,
   refusedAt : FaultPoints \cup {"never"}, refusedWith : {"400", "409"}]

ASSUME RouteKeyAssumption == RouteKey \in [Names -> Keys]
ASSUME KeysAssumption     == Keys \subseteq Nat
ASSUME PayloadsAssumption == Payloads \subseteq DeviceWriteRequest
ASSUME NullAssumption     == /\ NoDevice \notin Devices
                             /\ NoDevice \notin Payloads
                             /\ NoBrand \notin BrandNames

(* The rows replace_children inserts into device_identifiers: slug, name   *)
(* and aliases normalised, each key once.                                  *)
ClaimedKeys(payload) ==
  {payload.slug} \cup {RouteKey[name] : name \in payload.names}

(* What PUBLIC_DEVICE_SELECT asks of a stored device.  The spec rows are   *)
(* complete and the release date is past: validation and the row's CHECK   *)
(* enforce the one, the model fixes the other.                             *)
IsPublic(payload) == payload.status = "published" /\ payload.checked

=============================================================================
