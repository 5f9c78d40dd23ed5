------------------------ MODULE WirelessTechnologies ------------------------
(***************************************************************************)
(* Master data for the wireless row of a device: POST, PUT and DELETE of   *)
(* /wireless-technologies.  Each is one autocommitted statement; the table *)
(* is referred to by nothing.  Labels and sort orders are left out.        *)
(***************************************************************************)
EXTENDS Naturals

CONSTANTS
  TechnologyIds,
  TechnologyInputs,   \* [category, value] of the bodies that are accepted
  Trimmed,            \* str::trim on their values
  NoTechnology

ASSUME TechnologiesAssumption ==
  \A input \in TechnologyInputs :
    /\ input.value \in DOMAIN Trimmed
    /\ Trimmed[input.value] \in DOMAIN Trimmed
    /\ Trimmed[Trimmed[input.value]] = Trimmed[input.value]

VARIABLE technology  \* the wireless_technologies table by id

TechnologiesInit == technology = [t \in TechnologyIds |-> NoTechnology]

(* Mutant: the value is bound as it came.                                  *)
TechnologyRow_Raw(input) == [category |-> input.category, value |-> input.value]

TechnologyRow(input) == [category |-> input.category, value |-> Trimmed[input.value]]

(* UNIQUE (category, value); 409 otherwise.                                *)
Unused(t, row) == \A other \in TechnologyIds \ {t} : technology[other] # row

CreateTechnology(t, input) ==
  /\ technology[t] = NoTechnology /\ Unused(t, TechnologyRow(input))
  /\ technology' = [technology EXCEPT ![t] = TechnologyRow(input)]

UpdateTechnology(t, input) ==
  /\ technology[t] # NoTechnology /\ Unused(t, TechnologyRow(input))
  /\ technology' = [technology EXCEPT ![t] = TechnologyRow(input)]

DeleteTechnology(t) ==
  /\ technology[t] # NoTechnology
  /\ technology' = [technology EXCEPT ![t] = NoTechnology]

TechnologiesNext ==
  \E t \in TechnologyIds :
    \/ \E input \in TechnologyInputs : CreateTechnology(t, input) \/ UpdateTechnology(t, input)
    \/ DeleteTechnology(t)

TechnologiesSpec == TechnologiesInit /\ [][TechnologiesNext]_technology

(***************************************************************************)
(* Property.                                                               *)
(***************************************************************************)

(* No two technologies of a category look alike: values that differ in the *)
(* blanks around them are the same value to the index.                     *)
TechnologiesLookDifferent ==
  \A t, u \in TechnologyIds :
    /\ technology[t] # NoTechnology /\ technology[u] # NoTechnology
    /\ technology[t].category = technology[u].category
    /\ Trimmed[technology[t].value] = Trimmed[technology[u].value]
    => t = u
=============================================================================
