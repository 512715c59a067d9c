---------------------------- MODULE MCAdministration ----------------------------
(* Small instances of the administration for TLC. *)
EXTENDS Administration, TLC

CONSTANTS all, some, depot  \* permissions and a group

\* An administrator, and a user with fewer permissions and a group.
AskedHere == {Access("ADMIN", all, "ALL", {}), Access("USER", some, "SELECTED", {depot})}

\* Every geofence here has as many rings and points as any other.
SameSize(value) == 1

Symmetry ==
    Permutations(Requests) \union Permutations(Admins) \union Permutations(Values)
=============================================================================
