------------------------- MODULE CustomerAddresses -------------------------
(***************************************************************************)
(* The customer_addresses table as its transactions see it.                *)
(*                                                                         *)
(* Every statement of internal/db/queries/customer_addresses.sql runs in a *)
(* PostgreSQL transaction at the default level, READ COMMITTED: a          *)
(* statement reads the rows committed when it starts and the rows its own  *)
(* transaction has written, and a statement that writes a row another      *)
(* transaction has written waits for that transaction to end.  The server  *)
(* itself is not in the repository; this module keeps of it what the       *)
(* queries and the migration rely on.                                      *)
(***************************************************************************)
EXTENDS Naturals, FiniteSets

CONSTANTS
    User,       \* users.id
    AddressId,  \* the uuids that customer_addresses.id can take
    Label,      \* what label, address, location and delivery_note can hold
    Conn,       \* the pool's connections: each runs one transaction at a time
    NoConn,     \* the holder of a row nobody has locked
    Unborn,     \* a uuid no committed row has used yet
    Gone        \* a uuid whose row was deleted

(***************************************************************************)
(* A row.  label stands for all the columns a request sends and no rule    *)
(* inspects: label, address, lat, lng and delivery_note are fetched,       *)
(* merged and written together.                                            *)
(***************************************************************************)
Row == [owner : User, label : Label, isDefault : BOOLEAN]
Slot == Row \cup {Unborn, Gone}

ASSUME SlotAssumption == Unborn \notin Row /\ Gone \notin Row /\ Unborn # Gone
ASSUME NoConnAssumption == NoConn \notin Conn

VARIABLES
    table,     \* the committed version of every row
    draft,     \* the newest version of every row, committed or not
    lockedBy   \* the connection whose transaction wrote that version, while it runs

tableVars == <<table, draft, lockedBy>>

TableTypeOK ==
    /\ table \in [AddressId -> Slot]
    /\ draft \in [AddressId -> Slot]
    /\ lockedBy \in [AddressId -> Conn \cup {NoConn}]

----------------------------------------------------------------------------
(* Reading.                                                                *)

Live(s) == s \notin {Unborn, Gone}

\* The rows a statement of transaction c reads when it starts.
Seen(c) == [i \in AddressId |-> IF lockedBy[i] = c THEN draft[i] ELSE table[i]]

\* WHERE user_id = u
AddressesOf(rows, u) == {i \in AddressId : Live(rows[i]) /\ rows[i].owner = u}

\* WHERE user_id = u AND is_default = true
DefaultsOf(rows, u) == {i \in AddressesOf(rows, u) : rows[i].isDefault}

CountAddressesByUser(c, u) == Cardinality(AddressesOf(Seen(c), u))

\* Mutant: the query looks for the id alone.
GetFindsAnyones(c, i, u) == Live(Seen(c)[i])

\* GetCustomerAddressByID returns a row: it exists and is the user's own.
GetFinds(c, i, u) == i \in AddressesOf(Seen(c), u)

----------------------------------------------------------------------------
(* Writing.  A write needs the row's lock, and re-reads the newest version *)
(* of the row once it has it.                                              *)

Lockable(c, i) == lockedBy[i] \in {NoConn, c}

Write(c, i, s) ==
    /\ Lockable(c, i)
    /\ draft' = [draft EXCEPT ![i] = s]
    /\ lockedBy' = [lockedBy EXCEPT ![i] = c]
    /\ UNCHANGED table

\* INSERT with id DEFAULT gen_random_uuid(): a uuid nobody has.
CreateCustomerAddress(c, row) ==
    \E i \in AddressId :
        /\ table[i] = Unborn
        /\ lockedBy[i] = NoConn
        /\ Write(c, i, row)

\* UPDATE ... SET is_default = false for a row the statement's snapshot
\* matched.  The server tests the condition again on the version it finds under
\* the lock: a row deleted meanwhile is skipped, and one that is no longer the
\* default stays locked as it is.
UnsetDefaultAddress(c, i) ==
    IF Lockable(c, i) /\ ~ Live(draft[i])
      THEN UNCHANGED tableVars
      ELSE Write(c, i, [draft[i] EXCEPT !.isDefault = FALSE])

----------------------------------------------------------------------------
(* The unique index on (user_id) WHERE is_default.  A transaction writes   *)
(* its row first and enters it in the index next, when no other entry of   *)
(* the same user is in the way.  checking is the set of connections whose  *)
(* new row is written and not entered yet.                                 *)

\* Mutant: the check looks at the committed rows alone, as a SELECT would.
CommittedEntries(u, checking) == DefaultsOf(table, u)

Entries(u, checking) ==
    DefaultsOf(table, u) \cup {i \in DefaultsOf(draft, u) : lockedBy[i] \notin checking}

Rivals(c, u, checking) == {i \in Entries(u, checking) : lockedBy[i] # c}

\* A rival nobody is changing is there to stay: the statement fails at once.
\* Any other rival may come or go with its transaction: the statement waits.
IndexConflict(c, u, checking) == \E i \in Rivals(c, u, checking) : lockedBy[i] = NoConn

----------------------------------------------------------------------------
(* The end of a transaction.                                               *)

CommitWork(c) ==
    /\ table' = Seen(c)
    /\ lockedBy' = [i \in AddressId |-> IF lockedBy[i] = c THEN NoConn ELSE lockedBy[i]]
    /\ UNCHANGED draft

UndoWork(c) ==
    /\ draft' = [i \in AddressId |-> IF lockedBy[i] = c THEN table[i] ELSE draft[i]]
    /\ lockedBy' = [i \in AddressId |-> IF lockedBy[i] = c THEN NoConn ELSE lockedBy[i]]
    /\ UNCHANGED table

=============================================================================
