---------------------------- MODULE MCAddresses ----------------------------
(***************************************************************************)
(* Small instances of AddressRepository, with a cap of one or two          *)
(* addresses.  The user u1 starts with none, one or two of them; any other *)
(* user has none.                                                          *)
(***************************************************************************)
EXTENDS AddressRepository, TLC

CONSTANTS u1, a1, a2, l1

ConnSymmetry == Permutations(Conn)

TableOf(rows) == [i \in AddressId |-> IF i \in DOMAIN rows THEN rows[i] ELSE Unborn]

Saved(default) == [owner |-> u1, label |-> l1, isDefault |-> default]

\* u1 has the default a1 and the address a2.
TwoAddresses == {TableOf([i \in {a1, a2} |-> Saved(i = a1)])}

\* u1 has one address, the default a1.
OneAddress == {TableOf([i \in {a1} |-> Saved(TRUE)])}

NoAddresses == {TableOf(<<>>)}

\* Every start of u1.
AnyStart == TwoAddresses \cup OneAddress \cup NoAddresses

----------------------------------------------------------------------------
AllRequests == CreateRequest \cup UpdateRequest \cup DeleteRequest

\* Requests that place, move and remove addresses and leave their columns alone.
Placements ==
    CreateRequest \cup DeleteRequest \cup {r \in UpdateRequest : r.label = Omitted}

\* Those of u1, and those of other users for the address a1 of u1.
PlacementsAndStrangers ==
    {r \in Placements : r.user # u1 => r.op # "create" /\ r.id = a1}

\* Placements that make an address the default, and removals.
DefaultMoves == {r \in Placements : r.op = "delete" \/ r.isDefault}

\* Updates of the addresses u1 starts with.
Edits == {r \in UpdateRequest : r.user = u1 /\ r.id \in {a1, a2}}

\* Every kind of request of u1, who creates with one label and edits with the
\* other, and those of other users who mean to take the default, or reach for a1.
Turns ==
    {r \in CreateRequest : r.label = l1 /\ (r.user # u1 => r.isDefault)}
      \cup {r \in UpdateRequest :
              IF r.user = u1 THEN r.label # l1 /\ r.id \in {a1, a2}
                             ELSE r.label = Omitted /\ r.isDefault /\ r.id = a1}
      \cup {r \in DeleteRequest : r.user # u1 => r.id = a1}
=============================================================================
