--------------------------- MODULE AddressTurns ---------------------------
(***************************************************************************)
(* When users take turns AddressRepository implements the exact promise of *)
(* AddressBook, the one handler.go and README.md make: no two requests of  *)
(* one user overlap, those of different users do.                          *)
(*                                                                         *)
(* What separates it from the overlapping promise is what a transaction    *)
(* read before it wrote: the count of the addresses, the row an update     *)
(* fetched, the defaults its UPDATE matched, the row to delete.  All of it *)
(* is the caller's, and a commit changes rows of its own caller only, so   *)
(* it is true still when the transaction commits.                          *)
(***************************************************************************)
EXTENDS AddressRefinement

----------------------------------------------------------------------------
(* What more is true when users take turns: nothing a transaction has read *)
(* of its caller's rows has changed since.                                 *)

\* The default row j was found and is taken from.
Displaced(c, j) == lockedBy[j] = c /\ draft[j] = Demoted(table[j])

\* A creation has still the room it counted.
RoomStays(c) ==
    pc[c] \in {"unset", "unsetRow", "insert", "index", "commit", "lost"} /\ req[c].op = "create"
      => Cardinality(AddressesOf(table, req[c].user)) < MaxAddresses

\* An update writes the row it fetched, with what was sent.
FetchedRowStays(c) ==
    LET r == req[c] IN
    /\ pc[c] \in {"unset", "unsetRow", "write"} /\ r.op = "update"
         => /\ r.id \in AddressesOf(table, r.user)
            /\ merged[c] = Merge(table[r.id], r)
    /\ pc[c] \in {"index", "commit", "lost"} /\ r.op = "update"
         => draft[r.id] = Merge(table[r.id], r)

\* A new default has displaced every other one.
DefaultsDisplaced(c) ==
    LET r == req[c] IN
    /\ pc[c] = "unsetRow" =>
         \A j \in DefaultsOf(table, r.user) : j \in matched[c] \/ Displaced(c, j)
    /\ /\ pc[c] \in {"insert", "write", "index", "commit", "lost"}
       /\ r.op \in {"create", "update"}
       /\ r.isDefault
      => \A j \in DefaultsOf(table, r.user) :
           Displaced(c, j) \/ (r.op = "update" /\ j = r.id)

\* The address to delete is there still, and is the last one or no default.
LastOrNotDefault(c) ==
    LET r == req[c] IN
    r.id \in DefaultsOf(table, r.user) => Cardinality(AddressesOf(table, r.user)) = 1

DeletionAllowed(c) ==
    LET r == req[c] IN
    /\ pc[c] = "countOthers" => r.id \in DefaultsOf(table, r.user)
    /\ pc[c] \in {"delete", "commit", "lost"} /\ r.op = "delete"
         => r.id \in AddressesOf(table, r.user) /\ LastOrNotDefault(c)

ReadsStand(c) ==
    /\ RoomStays(c)
    /\ FetchedRowStays(c)
    /\ DefaultsDisplaced(c)
    /\ DeletionAllowed(c)

TurnsInv == PromiseInv /\ OneRequestPerUser /\ \A c \in Conn : ReadsStand(c)

\* What was just begun, refused or ended rests on nothing.
LEMMA NothingRead ==
    ASSUME NEW c \in Conn, pc'[c] \in {"idle", "rollback", "count", "fetch"}
    PROVE  ReadsStand(c)'
BY DEF ReadsStand, RoomStays, FetchedRowStays, DefaultsDisplaced, DeletionAllowed

\* A default the statement found is taken away when its turn comes.
LEMMA UnsetStands ==
    ASSUME PromiseInv, NEW c \in Conn, ReadsStand(c), UnsetRow(c)
    PROVE  ReadsStand(c)'
<1> USE DEF PromiseInv, DefaultInv, TypeOK, TableTypeOK
<1> DEFINE r == req[c]
<1>1. PICK i \in matched[c] : /\ UnsetDefaultAddress(c, i)
                              /\ matched' = [matched EXCEPT ![c] = @ \ {i}]
    BY DEF UnsetRow
<1>2. /\ i \in AddressId
      /\ pc[c] = "unsetRow"
      /\ pc'[c] \in {"unsetRow", AfterUnset(c)}
      /\ pc'[c] # "unsetRow" => matched'[c] = {}
      /\ req' = req /\ merged' = merged /\ table' = table
      /\ \A j \in matched[c] : j # i => j \in matched'[c]
    BY <1>1 DEF UnsetRow, UnsetDefaultAddress, Write, tableVars, Goto
<1>3. /\ r.op \in {"create", "update"}
      /\ AfterUnset(c) \in {"insert", "write"}
      /\ AfterUnset(c) = "insert" <=> r.op = "create"
    BY <1>2 DEF RequestsInPlace, AfterUnset
<1>4. ASSUME NEW j \in AddressId, j # i, Displaced(c, j)
      PROVE  Displaced(c, j)'
    BY <1>1, <1>2, <1>4 DEF UnsetDefaultAddress, Write, tableVars, Displaced
<1>5. ASSUME i \in DefaultsOf(table, r.user)
      PROVE  Displaced(c, i)'
    <2>1. table[i] \in Row
        BY <1>2, <1>5, LiveIsRow DEF DefaultsOf, AddressesOf
    <2>2. draft[i] = table[i] \/ draft[i] = Demoted(table[i])
        <3>1. CASE lockedBy[i] = c
            BY <1>2, <3>1 DEF Underway, OnlyDisplaces, Held, Displaces
        <3>2. CASE lockedBy[i] = NoConn
            BY <1>2, <3>2 DEF LocksInPlace
        <3> QED
            BY <1>1, <3>1, <3>2 DEF UnsetDefaultAddress, Write, Lockable
    <2>3. draft[i] \in Row /\ Demoted(draft[i]) = Demoted(table[i])
        <3>1. CASE draft[i] = table[i]
            BY <2>1, <3>1
        <3>2. CASE draft[i] = Demoted(table[i])
            BY <2>1, <3>2, DemotedRowIs
        <3> QED  BY <2>2, <3>1, <3>2
    <2>4. Write(c, i, Demoted(table[i]))
        BY <1>1, <2>3, SlotAssumption DEF UnsetDefaultAddress, Demoted, Live
    <2> QED
        BY <1>2, <2>4 DEF Write, Displaced
<1>6. \A j \in DefaultsOf(table, r.user) : j \in matched'[c] \/ Displaced(c, j)'
    <2>1. \A j \in DefaultsOf(table, r.user) : j \in AddressId
        BY DEF DefaultsOf, AddressesOf
    <2>2. \A j \in DefaultsOf(table, r.user) : j \in matched[c] \/ Displaced(c, j)
        BY <1>2 DEF ReadsStand, DefaultsDisplaced
    <2> QED
        BY <1>2, <1>4, <1>5, <2>1, <2>2
<1>7. RoomStays(c)'
    BY <1>2, <1>3 DEF ReadsStand, RoomStays
<1>8. FetchedRowStays(c)'
    BY <1>2, <1>3 DEF ReadsStand, FetchedRowStays
<1>9. DefaultsDisplaced(c)'
    BY <1>2, <1>3, <1>6 DEF DefaultsDisplaced
<1>10. DeletionAllowed(c)'
    BY <1>2, <1>3 DEF DeletionAllowed
<1> QED
    BY <1>7, <1>8, <1>9, <1>10 DEF ReadsStand

\* No statement of a connection invalidates what it read before.
LEMMA OwnReadsStand ==
    ASSUME PromiseInv, NEW c \in Conn, ReadsStand(c), StepOf(c)
    PROVE  ReadsStand(c)'
<1> USE DEF PromiseInv, DefaultInv, TypeOK, TableTypeOK
<1> DEFINE r == req[c]
<1> USE DEF RoomStays, FetchedRowStays, DefaultsDisplaced, DeletionAllowed
<1>1. ASSUME NEW status, Refuse(c, status)
      PROVE  ReadsStand(c)'
    BY <1>1, NothingRead DEF Refuse, Goto
<1>2. ASSUME Finish(c)
      PROVE  ReadsStand(c)'
    BY <1>2, NothingRead DEF Finish, Goto
<1>3. ASSUME NEW q \in Inputs, Begin(c, q)
      PROVE  ReadsStand(c)'
    BY <1>3, NothingRead DEF Begin, Goto, FirstStatement
<1>4. CASE CheckCap(c) /\ ~ CapReached(c)
    <2>1. /\ pc[c] = "count" /\ r.op = "create"
          /\ pc'[c] = IF r.isDefault THEN "unset" ELSE "insert"
          /\ req' = req /\ table' = table
        BY <1>4 DEF CheckCap, Reads, Goto, RequestsInPlace
    <2>2. ~ (Cardinality(AddressesOf(table, r.user)) >= MaxAddresses)
        BY <1>4, <2>1, SeesCommitted DEF CapReached, CountAddressesByUser
    <2>3. Cardinality(AddressesOf(table, r.user)) < MaxAddresses
        BY <2>2, FiniteParts, CapAssumption
    <2> QED
        BY <2>1, <2>3 DEF ReadsStand
<1>5. CASE ScanDefault(c)
    <2>1. /\ pc[c] = "unset" /\ pc'[c] \in {"unsetRow", AfterUnset(c)}
          /\ req' = req /\ merged' = merged /\ table' = table
          /\ matched'[c] = DefaultsOf(table, r.user)
          /\ pc'[c] # "unsetRow" => DefaultsOf(table, r.user) = {}
        BY <1>5, SeesCommitted DEF ScanDefault, Goto
    <2>2. /\ r.op \in {"create", "update"}
          /\ AfterUnset(c) \in {"insert", "write"}
          /\ AfterUnset(c) = "insert" <=> r.op = "create"
        BY <2>1 DEF RequestsInPlace, AfterUnset
    <2> QED
        BY <2>1, <2>2 DEF ReadsStand
<1>6. CASE InsertAddress(c)
    <2>1. PICK i \in AddressId : table[i] = Unborn /\ Write(c, i, merged[c])
        BY <1>6 DEF InsertAddress, CreateCustomerAddress
    <2>2. /\ pc[c] = "insert" /\ pc'[c] \in {"index", "commit"} /\ r.op = "create"
          /\ req' = req /\ table' = table
        BY <1>6, <2>1 DEF InsertAddress, Write, Goto, RequestsInPlace
    <2>3. ASSUME NEW j \in DefaultsOf(table, r.user), Displaced(c, j)
          PROVE  Displaced(c, j)'
        BY <2>1, <2>2, <2>3 DEF DefaultsOf, AddressesOf, Live, Write, Displaced
    <2> QED
        BY <2>2, <2>3 DEF ReadsStand
<1>7. CASE FetchForUpdate(c) /\ GetFinds(c, r.id, r.user)
    <2>1. /\ pc[c] = "fetch" /\ r.op = "update"
          /\ Seen(c) = table
          /\ r.id \in AddressesOf(table, r.user)
        BY <1>7, SeesCommitted DEF FetchForUpdate, GetFinds
    <2>2. /\ pc'[c] \in {"unset", "write"}
          /\ pc'[c] = "write" /\ r.isDefault => table[r.id].isDefault
          /\ req' = req /\ table' = table
          /\ merged'[c] = Merge(table[r.id], r)
        <3>1. table[r.id] \in Row
            BY <2>1, LiveIsRow DEF AddressesOf
        <3>2. r.isDefault => Merge(table[r.id], r).isDefault
            BY <3>1 DEF Merge, Row
        <3> HIDE DEF r
        <3> QED
            BY <1>7, <2>1, <3>2 DEF FetchForUpdate, Reads, Goto, r
    <2>3. r.user \in User
        BY <2>1, RunsARequest, RequestFields
    <2>4. table[r.id].isDefault => \A j \in DefaultsOf(table, r.user) : j = r.id
        BY <2>1, <2>3 DEF AtMostOneDefault, DefaultsOf
    <2> QED
        BY <2>1, <2>2, <2>4 DEF ReadsStand
<1>8. CASE WriteMerged(c) /\ Live(draft[r.id])
    <2>1. /\ pc[c] = "write" /\ pc'[c] \in {"index", "commit"} /\ r.op = "update"
          /\ req' = req /\ r.id \in AddressId
          /\ Write(c, r.id, merged[c])
        BY <1>8, RunsARequest, RequestFields DEF WriteMerged, NewVersion, Goto, RequestsInPlace
    <2>2. table' = table /\ draft'[r.id] = merged[c]
        BY <2>1 DEF Write
    <2>3. ASSUME NEW j \in AddressId \ {r.id}, Displaced(c, j)
          PROVE  Displaced(c, j)'
        BY <2>1, <2>2, <2>3 DEF Write, Displaced
    <2>4. \A j \in DefaultsOf(table, r.user) : j \in AddressId
        BY DEF DefaultsOf, AddressesOf
    <2> QED
        BY <2>1, <2>2, <2>3, <2>4 DEF ReadsStand
<1>9. CASE FetchForDelete(c) /\ GetFinds(c, r.id, r.user)
    <2>1. /\ pc[c] = "fetch" /\ r.op = "delete"
          /\ Seen(c) = table
          /\ r.id \in AddressesOf(table, r.user)
        BY <1>9, SeesCommitted DEF FetchForDelete, GetFinds
    <2>2. /\ pc'[c] = IF table[r.id].isDefault THEN "countOthers" ELSE "delete"
          /\ req' = req /\ table' = table
        BY <1>9, <2>1 DEF FetchForDelete, Reads, Goto
    <2> QED
        BY <2>1, <2>2 DEF ReadsStand, LastOrNotDefault, DefaultsOf
<1>10. CASE CheckLast(c) /\ Reads(c, "delete")
    <2>1. /\ pc[c] = "countOthers" /\ pc'[c] = "delete" /\ r.op = "delete"
          /\ req' = req /\ table' = table
          /\ ~ (Cardinality(AddressesOf(table, r.user)) > 1)
        BY <1>10, SeesCommitted
        DEF CheckLast, Refuse, Reads, Goto, CountAddressesByUser, RequestsInPlace
    <2>2. r.id \in AddressesOf(table, r.user)
        BY <2>1 DEF ReadsStand, DefaultsOf
    <2>3. Cardinality(AddressesOf(table, r.user)) = 1
        BY <2>1, <2>2, FiniteParts, FS_EmptySet
    <2> QED
        BY <2>1, <2>2, <2>3 DEF ReadsStand, LastOrNotDefault
<1>11. CASE DeleteRow(c)
    <2>1. /\ pc[c] = "delete" /\ pc'[c] = "commit" /\ r.op = "delete"
          /\ req' = req /\ table' = table
        BY <1>11 DEF DeleteRow, Write, Goto, tableVars, RequestsInPlace
    <2> QED
        BY <2>1 DEF ReadsStand, LastOrNotDefault
<1>12. CASE EnterIndex(c) \/ LoseCommit(c)
    <2>1. /\ pc[c] \in {"index", "commit"} /\ pc'[c] \in {"commit", "lost"}
          /\ pc[c] = "index" => r.op \in {"create", "update"}
          /\ UNCHANGED <<req, table, draft, lockedBy, merged>>
        BY <1>12 DEF EnterIndex, LoseCommit, Goto, RequestsInPlace
    <2> QED
        BY <2>1 DEF ReadsStand, LastOrNotDefault, Displaced
<1> QED
    BY <1>1, <1>2, <1>3, <1>4, <1>5, <1>6, <1>7, <1>8, <1>9, <1>10, <1>11, <1>12,
       UnsetStands
    DEF StepOf, Proceed, CheckCap, FetchForUpdate, WriteMerged, FetchForDelete, CheckLast,
        UniqueViolation, BreakDeadlock, Abort, Commit, Rollback, SettleLost, Cancel

\* A request has its effect on rows of its caller, and on no others.
LEMMA EffectIsTheCallers ==
    ASSUME TypeOK, NEW r \in Inputs, Overlapping!Effect(r),
           NEW j \in AddressId, table'[j] # table[j]
    PROVE  /\ Live(table[j]) => table[j].owner = r.user
           /\ Live(table'[j]) => table'[j].owner = r.user
<1> USE DEF TypeOK, TableTypeOK
<1>1. ASSUME NEW i, j # i, Overlapping!OthersKept(r, i)
      PROVE  table[j].owner = r.user /\ table'[j].owner = r.user
    <2>1. j \in DefaultsOf(table, r.user) /\ table'[j] = Demoted(table[j])
        BY <1>1, BookIsTable DEF Overlapping!OthersKept, Overlapping!Demoted, Demoted
    <2>2. table[j] \in Row /\ table[j].owner = r.user
        BY <2>1, LiveIsRow DEF DefaultsOf, AddressesOf
    <2> QED
        BY <2>1, <2>2, DemotedRowIs
<1>2. CASE r.op = "create"
    BY <1>1, <1>2 DEF Overlapping!Effect, Overlapping!Created, Live
<1>3. CASE r.op = "update"
    <2>1. /\ r.id \in AddressesOf(table, r.user)
          /\ table'[r.id].owner = r.user
          /\ Overlapping!OthersKept(r, r.id)
        BY <1>3, BookIsTable DEF Overlapping!Effect, Overlapping!Updated
    <2>2. table[r.id].owner = r.user
        BY <2>1 DEF AddressesOf
    <2> QED
        BY <1>1, <2>1, <2>2
<1>4. CASE r.op = "delete"
    <2>1. /\ r.id \in AddressesOf(table, r.user) \/ table[r.id] = Gone
          /\ table' = [table EXCEPT ![r.id] = Gone]
        BY <1>4, BookIsTable DEF Overlapping!Effect, Overlapping!Deleted
    <2>2. j = r.id /\ table'[j] = Gone
        BY <2>1
    <2>3. table[j].owner = r.user
        BY <2>1, <2>2 DEF AddressesOf
    <2> QED
        BY <2>2, <2>3 DEF Live
<1> QED
    BY <1>2, <1>3, <1>4, RequestFields

\* The commit of one user leaves the rows of another alone.
LEMMA OtherUsersRows ==
    ASSUME PromiseInv, NEW c \in Conn, pc[c] \in {"commit", "lost"}, CommitWork(c),
           NEW u, u # req[c].user
    PROVE  /\ AddressesOf(table', u) = AddressesOf(table, u)
           /\ \A j \in AddressesOf(table, u) : table'[j] = table[j]
<1>1. req[c] \in Inputs /\ TypeOK
    BY RunsARequest DEF PromiseInv, DefaultInv
<1>2. \A j \in AddressId : table'[j] # table[j] =>
          /\ Live(table[j]) => table[j].owner # u
          /\ Live(table'[j]) => table'[j].owner # u
    BY <1>1, CommitTakesEffect, EffectIsTheCallers
<1> QED
    BY <1>2 DEF AddressesOf

\* What a transaction has read stands while those of other users move.
LEMMA BystanderReads ==
    ASSUME PromiseInv, OneRequestPerUser, NEW c \in Conn, StepOf(c),
           NEW d \in Conn \ {c}, ReadsStand(d)
    PROVE  ReadsStand(d)'
<1> USE DEF PromiseInv, DefaultInv
<1> DEFINE r == req[d]
<1>1. /\ pc'[d] = pc[d] /\ req'[d] = req[d] /\ merged'[d] = merged[d]
      /\ matched'[d] = matched[d]
    BY BystanderStays
<1>2. CASE pc[d] = "idle"
    BY <1>1, <1>2, NothingRead
<1>3. CASE pc[d] # "idle"
    <2>1. /\ AddressesOf(table', r.user) = AddressesOf(table, r.user)
          /\ \A j \in AddressesOf(table, r.user) : table'[j] = table[j]
        <3>1. CASE table' = table
            BY <3>1
        <3>2. CASE pc[c] \in {"commit", "lost"} /\ CommitWork(c)
            BY <1>3, <3>2, OtherUsersRows DEF OneRequestPerUser
        <3> QED  BY <3>1, <3>2, OnlyCommitsChange
    <2>2. DefaultsOf(table', r.user) = DefaultsOf(table, r.user)
        BY <2>1 DEF DefaultsOf
    <2>3. ASSUME NEW j \in DefaultsOf(table, r.user), Displaced(d, j)
          PROVE  Displaced(d, j)'
        <3>1. j \in Held(d) /\ j \in AddressesOf(table, r.user)
            BY <2>3 DEF Displaced, Held, DefaultsOf, AddressesOf
        <3>2. j \in Held(d)' /\ draft'[j] = draft[j] /\ table'[j] = table[j]
            BY <3>1, BystanderRows
        <3> QED
            BY <2>3, <3>2 DEF Displaced, Held
    <2>4. RoomStays(d)'
        BY <1>1, <2>1 DEF ReadsStand, RoomStays
    <2>5. FetchedRowStays(d)'
        <3>1. ASSUME pc[d] \in {"index", "commit", "lost"}, r.op = "update"
              PROVE  /\ r.id \in AddressesOf(table, r.user)
                     /\ draft'[r.id] = draft[r.id]
            <4>1. UpdateDrafted(d)
                BY <3>1 DEF Underway, EffectInPlace
            <4> QED
                BY <4>1, BystanderRows DEF UpdateDrafted
        <3> QED
            BY <1>1, <2>1, <3>1 DEF ReadsStand, FetchedRowStays
    <2>6. DefaultsDisplaced(d)'
        BY <1>1, <2>2, <2>3 DEF ReadsStand, DefaultsDisplaced
    <2>7. DeletionAllowed(d)'
        BY <1>1, <2>1, <2>2 DEF ReadsStand, DeletionAllowed, LastOrNotDefault
    <2> QED
        BY <2>4, <2>5, <2>6, <2>7 DEF ReadsStand
<1> QED  BY <1>2, <1>3

\* Taking turns is a way of using AddressRepository.
LEMMA TurnsAreSteps == TakingTurns => Spec
<1>1. [Next /\ OneRequestPerUser']_vars => [Next]_vars
    OBVIOUS
<1> QED
    BY <1>1, PTL DEF TakingTurns, Spec

\* When users take turns, what a request read stays true until it commits.
THEOREM TurnsInvHolds == TakingTurns => []TurnsInv
<1>1. Init => OneRequestPerUser /\ \A c \in Conn : ReadsStand(c)
    BY DEF Init, OneRequestPerUser, ReadsStand, RoomStays, FetchedRowStays,
        DefaultsDisplaced, DeletionAllowed
<1>2. TurnsInv /\ [Next /\ OneRequestPerUser']_vars
        => (OneRequestPerUser /\ \A c \in Conn : ReadsStand(c))'
    <2> SUFFICES ASSUME TurnsInv, [Next /\ OneRequestPerUser']_vars
                 PROVE  (OneRequestPerUser /\ \A c \in Conn : ReadsStand(c))'
        OBVIOUS
    <2>1. CASE UNCHANGED vars
        BY <2>1 DEF vars, TurnsInv, OneRequestPerUser, ReadsStand, RoomStays,
            FetchedRowStays, DefaultsDisplaced,
            DeletionAllowed, LastOrNotDefault, Displaced, DefaultsOf, AddressesOf
    <2>2. ASSUME NEW c \in Conn, StepOf(c), NEW d \in Conn
          PROVE  ReadsStand(d)'
        BY <2>2, OwnReadsStand, BystanderReads DEF TurnsInv
    <2> QED
        BY <2>1, <2>2 DEF Next, StepOf
<1>3. TakingTurns => []PromiseInv
    BY TurnsAreSteps, PromiseInvHolds, PTL
<1> QED
    BY <1>1, <1>2, <1>3, PTL DEF TakingTurns, TurnsInv

----------------------------------------------------------------------------
(* The exact promise.                                                      *)

\* The book of the exact promise is the table, too.
LEMMA ExactBookIsTable ==
    ASSUME NEW u
    PROVE  /\ OneAtATime!AddressesOf(u) = AddressesOf(table, u)
           /\ OneAtATime!DefaultsOf(u) = DefaultsOf(table, u)
           /\ OneAtATime!Cardinality(OneAtATime!AddressesOf(u))
                = Cardinality(AddressesOf(table, u))
BY DEF OneAtATime!AddressesOf, OneAtATime!DefaultsOf, OneAtATime!Live, AddressesOf,
       DefaultsOf, Live, OneAtATime!Cardinality, Cardinality

\* All the defaults it takes the place of are taken from.
LEMMA OthersAreDisplaced ==
    ASSUME TurnsInv, NEW c \in Conn, pc[c] \in {"commit", "lost"}, CommitWork(c),
           req[c].op \in {"create", "update"}, NEW i \in AddressId,
           req[c].op = "update" => i = req[c].id,
           \A j \in Held(c) \ {i} : Displaces(c, j)
    PROVE  OneAtATime!OthersKept(req[c], i)
<1> USE DEF TurnsInv, PromiseInv, DefaultInv
<1> SUFFICES ASSUME NEW j \in AddressId \ {i}
             PROVE  \/ /\ table'[j] = table[j]
                       /\ req[c].isDefault => j \notin DefaultsOf(table, req[c].user)
                    \/ /\ req[c].isDefault
                       /\ j \in DefaultsOf(table, req[c].user)
                       /\ table'[j] = Demoted(table[j])
    BY ExactBookIsTable DEF OneAtATime!OthersKept, OneAtATime!Demoted, Demoted
<1>1. CASE req[c].isDefault /\ j \in DefaultsOf(table, req[c].user)
    <2>1. Displaced(c, j)
        BY <1>1 DEF ReadsStand, DefaultsDisplaced
    <2> QED
        BY <1>1, <2>1, CommitPublishes DEF Displaced, Held
<1>2. CASE ~ (req[c].isDefault /\ j \in DefaultsOf(table, req[c].user))
    BY <1>2, CommitPublishes DEF Displaces
<1> QED  BY <1>1, <1>2

\* When users take turns a commit is the exact effect of its request.
LEMMA CommitTakesExactEffect ==
    ASSUME TurnsInv, NEW c \in Conn, pc[c] \in {"commit", "lost"}, CommitWork(c)
    PROVE  OneAtATime!Effect(req[c])
<1> DEFINE r == req[c]
<1> USE DEF TurnsInv, PromiseInv, DefaultInv
<1>1. r \in Inputs
    BY RunsARequest
<1>2. CASE r.op = "create"
    <2>1. PICK i \in Held(c) : /\ table[i] = Unborn
                               /\ draft[i] = NewRow(r)
                               /\ \A j \in Held(c) \ {i} : Displaces(c, j)
        BY <1>2 DEF Underway, EffectInPlace, CreateDrafted
    <2>2. i \in AddressId /\ table'[i] = NewRow(r)
        BY <2>1, CommitPublishes DEF Held
    <2>3. OneAtATime!OthersKept(r, i)
        BY <1>2, <2>1, <2>2, OthersAreDisplaced
    <2>4. Cardinality(AddressesOf(table, r.user)) < MaxAddresses
        BY <1>2 DEF ReadsStand, RoomStays
    <2>5. OneAtATime!Created(r)
        BY <2>1, <2>2, <2>3, <2>4, ExactBookIsTable DEF OneAtATime!Created, NewRow
    <2> QED
        BY <1>2, <2>5 DEF OneAtATime!Effect
<1>3. CASE r.op = "update"
    <2> DEFINE row == Merge(table[r.id], r)
    <2>1. /\ UpdateDrafted(c)
          /\ draft[r.id] = row
        BY <1>3 DEF Underway, EffectInPlace, ReadsStand, FetchedRowStays
    <2>2. /\ r.id \in Held(c) /\ r.id \in AddressId /\ r.id \in AddressesOf(table, r.user)
          /\ table'[r.id] = row
        BY <2>1, CommitPublishes DEF UpdateDrafted, AddressesOf
    <2>3. row \in [owner : {r.user}, label : Label, isDefault : BOOLEAN]
        BY <2>1 DEF UpdateDrafted, Row
    <2>4. OneAtATime!OthersKept(r, r.id)
        BY <1>3, <2>1, <2>2, OthersAreDisplaced DEF UpdateDrafted
    <2>5. table[r.id] \in Row
        BY <2>2, LiveIsRow DEF AddressesOf, TypeOK, TableTypeOK
    <2>6. /\ row.label = IF r.label = Omitted THEN table[r.id].label ELSE r.label
          /\ row.isDefault = (table[r.id].isDefault \/ r.isDefault)
        BY <2>5 DEF Merge, Row
    <2>7. r.isDefault \in BOOLEAN /\ table[r.id].isDefault \in BOOLEAN
        BY <1>1, <1>3, <2>5, RequestFields DEF Row
    <2>8. IF r.isDefault THEN row.isDefault ELSE row.isDefault = table[r.id].isDefault
        BY <2>6, <2>7
    <2>9. OneAtATime!Updated(r)
        BY <2>2, <2>3, <2>4, <2>6, <2>8, ExactBookIsTable DEF OneAtATime!Updated
    <2> QED
        BY <1>3, <2>9 DEF OneAtATime!Effect
<1>4. CASE r.op = "delete"
    <2>1. /\ DeleteDrafted(c)
          /\ r.id \in AddressesOf(table, r.user)
          /\ LastOrNotDefault(c)
        BY <1>4 DEF Underway, EffectInPlace, ReadsStand, DeletionAllowed
    <2>2. table \in [AddressId -> Slot] /\ r.id \in AddressId
        BY <1>1, <1>4, RequestFields DEF TypeOK, TableTypeOK
    <2>3. \A j \in AddressId : table'[j] = IF j = r.id THEN Gone ELSE table[j]
        BY <2>1, <2>2, CommitPublishes DEF DeleteDrafted
    <2>4. table' = [table EXCEPT ![r.id] = Gone]
        BY <2>2, <2>3, CommitPublishes
    <2>5. OneAtATime!LastOrNotDefault(r)
        BY <2>1, ExactBookIsTable DEF OneAtATime!LastOrNotDefault, LastOrNotDefault
    <2>6. OneAtATime!Deleted(r)
        BY <2>1, <2>4, <2>5, ExactBookIsTable DEF OneAtATime!Deleted
    <2> QED
        BY <1>4, <2>6 DEF OneAtATime!Effect
<1> QED
    BY <1>1, <1>2, <1>3, <1>4, RequestFields

\* When users take turns every step keeps the exact promise.
LEMMA ExactPromiseStep ==
    TurnsInv /\ [Next]_vars => [OneAtATime!Next]_(OneAtATime!vars)
<1> SUFFICES ASSUME TurnsInv, [Next]_vars
             PROVE  OneAtATime!Next \/ UNCHANGED <<table, Asked, answer>>
    BY DEF OneAtATime!vars
<1> USE DEF TurnsInv
<1>1. CASE UNCHANGED vars
    BY <1>1 DEF vars, Asked
<1>2. ASSUME NEW c \in Conn, Asks(c)
      PROVE  \E r \in Inputs : OneAtATime!Ask(c, r)
    BY <1>2 DEF Asks, Tells, OneAtATime!Ask, OneAtATime!Answered
<1>3. ASSUME NEW c \in Conn, Fails(c)
      PROVE  OneAtATime!Fail(c)
    <2>1. OneAtATime!Waiting(c) /\ OneAtATime!Over(c)
        BY <1>3, RequestFields DEF Fails, Waits, Closes, OneAtATime!Waiting, OneAtATime!Over
    <2>2. Asked[c] = req[c] /\ UNCHANGED table
        BY <1>3 DEF Fails, Waits
    <2>3. CASE Tells(c, 500)
        BY <2>1, <2>2, <2>3 DEF Tells, OneAtATime!Fail, OneAtATime!Answered
    <2>4. CASE Tells(c, 404) /\ req[c].op # "create"
               /\ req[c].id \notin AddressesOf(table, req[c].user)
        BY <2>1, <2>2, <2>4, ExactBookIsTable
        DEF Tells, OneAtATime!Fail, OneAtATime!Answered, OneAtATime!NotFound
    <2>5. CASE Tells(c, 400) /\ OneAtATime!Invalid(req[c])
        BY <2>1, <2>2, <2>5 DEF Tells, OneAtATime!Fail, OneAtATime!Answered
    <2>6. ASSUME req[c].op = "create",
                 Cardinality(AddressesOf(table, req[c].user)) >= MaxAddresses
          PROVE  OneAtATime!Invalid(req[c])
        BY <2>6, ExactBookIsTable DEF OneAtATime!Invalid
    <2>7. ASSUME req[c].op = "delete", Cardinality(AddressesOf(table, req[c].user)) > 1,
                 pc[c] = "countOthers"
          PROVE  OneAtATime!Invalid(req[c])
        <3>1. req[c].id \in DefaultsOf(table, req[c].user)
            BY <2>7 DEF ReadsStand, DeletionAllowed
        <3> QED
            BY <2>7, <3>1, ExactBookIsTable DEF OneAtATime!Invalid
    <2> QED
        BY <1>3, <2>3, <2>4, <2>5, <2>6, <2>7 DEF Fails
<1>4. ASSUME NEW c \in Conn, Succeeds(c)
      PROVE  OneAtATime!Succeed(c)
    <2>1. OneAtATime!Waiting(c) /\ OneAtATime!Over(c)
        BY <1>4, RequestFields DEF Succeeds, Waits, Closes, OneAtATime!Waiting, OneAtATime!Over
    <2>2. OneAtATime!Effect(req[c])
        BY <1>4, CommitTakesExactEffect DEF Succeeds
    <2> QED
        BY <1>4, <2>1, <2>2
        DEF Succeeds, Waits, Tells, Success, OneAtATime!Succeed, OneAtATime!Answered
<1>5. ASSUME NEW c \in Conn, Loses(c)
      PROVE  OneAtATime!LoseAnswer(c)
    BY <1>5, RequestFields
    DEF Loses, Waits, Tells, OneAtATime!LoseAnswer, OneAtATime!Waiting, OneAtATime!Answered
<1>6. ASSUME NEW c \in Conn, Settles(c)
      PROVE  OneAtATime!Settle(c)
    <2>1. OneAtATime!Effect(req[c]) \/ UNCHANGED table
        BY <1>6, CommitTakesExactEffect DEF Settles
    <2> QED
        BY <1>6, <2>1, RequestFields
        DEF Settles, Closes, OneAtATime!Settle, OneAtATime!Open, OneAtATime!Over
<1>7. ASSUME NEW c \in Conn, StepOf(c)
      PROVE  OneAtATime!Next \/ UNCHANGED <<table, Asked, answer>>
    BY <1>2, <1>3, <1>4, <1>5, <1>6, <1>7, VisibleSteps DEF OneAtATime!Next
<1> QED
    BY <1>1, <1>7 DEF Next, StepOf

\* When no two requests of one user overlap, on any number of connections, the
\* operations of repository.go keep the exact promise of AddressBook, whatever
\* fails and whichever answer is lost: only requests of the same user weaken it.
THEOREM TurnsKeepExactPromise == TakingTurns => KeepsExactPromise
<1>1. Init => OneAtATime!Init
    BY DEF Init, OneAtATime!Init, Asked
<1>2. TurnsInv /\ [Next /\ OneRequestPerUser']_vars
        => [OneAtATime!Next]_(OneAtATime!vars)
    BY ExactPromiseStep
<1> QED
    BY <1>1, <1>2, TurnsInvHolds, PTL DEF TakingTurns, KeepsExactPromise, OneAtATime!Spec

----------------------------------------------------------------------------
(* What follows for users who take turns.                                  *)

\* Beside the row it is about, a request leaves every default alone, or takes
\* the place of one for its caller.
LEMMA DefaultsKept ==
    ASSUME TypeOK, NEW r, NEW i, OneAtATime!OthersKept(r, i),
           NEW u, NEW j \in DefaultsOf(table, u) \ {i}
    PROVE  \/ j \in DefaultsOf(table', u)
           \/ r.isDefault /\ u = r.user
<1>1. j \in AddressId \ {i}
    BY DEF DefaultsOf, AddressesOf
<1>2. \/ table'[j] = table[j]
      \/ r.isDefault /\ j \in DefaultsOf(table, r.user)
    BY <1>1, ExactBookIsTable DEF OneAtATime!OthersKept
<1> QED
    BY <1>1, <1>2 DEF DefaultsOf, AddressesOf

\* No exact effect leaves a user who had a default with addresses and none.
LEMMA EffectKeepsDefault ==
    ASSUME TypeOK, TypeOK', NEW r \in Inputs, OneAtATime!Effect(r),
           NEW u \in User, DefaultsOf(table, u) # {}, AddressesOf(table', u) # {}
    PROVE  DefaultsOf(table', u) # {}
<1> USE DEF TypeOK, TableTypeOK
<1>1. PICK j \in DefaultsOf(table, u) : TRUE
    OBVIOUS
<1>2. j \in AddressId /\ Live(table[j]) /\ table[j].owner = u /\ table[j].isDefault
    BY DEF DefaultsOf, AddressesOf
<1>3. CASE r.op = "create"
    <2>1. PICK i \in AddressId :
                 /\ table[i] = Unborn
                 /\ table'[i] = [owner |-> r.user, label |-> r.label, isDefault |-> r.isDefault]
                 /\ OneAtATime!OthersKept(r, i)
        BY <1>3 DEF OneAtATime!Effect, OneAtATime!Created
    <2>2. j # i
        BY <1>2, <2>1 DEF Live
    <2>3. CASE r.isDefault /\ u = r.user
        <3>1. Live(table'[i])
            BY <1>3, <2>1, RequestFields, SlotAssumption DEF Row, Live
        <3>2. table'[i].owner = u /\ table'[i].isDefault
            BY <2>1, <2>3
        <3>3. i \in DefaultsOf(table', u)
            BY <2>1, <3>1, <3>2 DEF DefaultsOf, AddressesOf
        <3> QED  BY <3>3
    <2> QED
        BY <2>1, <2>2, <2>3, DefaultsKept
<1>4. CASE r.op = "update"
    <2>1. /\ r.id \in AddressesOf(table, r.user)
          /\ table'[r.id] \in [owner : {r.user}, label : Label, isDefault : BOOLEAN]
          /\ IF r.isDefault THEN table'[r.id].isDefault
                            ELSE table'[r.id].isDefault = table[r.id].isDefault
          /\ OneAtATime!OthersKept(r, r.id)
        BY <1>4, ExactBookIsTable DEF OneAtATime!Effect, OneAtATime!Updated
    <2>2. /\ r.id \in AddressId /\ r.user \in User
          /\ table[r.id].owner = r.user
        BY <1>4, <2>1, RequestFields DEF AddressesOf
    <2>3. table'[r.id] \in Row
        BY <2>1, <2>2 DEF Row
    <2>4. table'[r.id].isDefault => r.id \in DefaultsOf(table', r.user)
        BY <2>1, <2>2, <2>3, LiveIsRow DEF DefaultsOf, AddressesOf
    <2>5. CASE r.isDefault /\ u = r.user
        BY <2>1, <2>4, <2>5
    <2>6. CASE j = r.id
        BY <1>2, <2>1, <2>2, <2>4, <2>6
    <2> QED
        BY <2>1, <2>5, <2>6, DefaultsKept
<1>5. CASE r.op = "delete"
    <2>1. /\ r.id \in DefaultsOf(table, r.user)
                => Cardinality(AddressesOf(table, r.user)) = 1
          /\ table' = [table EXCEPT ![r.id] = Gone]
        BY <1>5, ExactBookIsTable
        DEF OneAtATime!Effect, OneAtATime!Deleted, OneAtATime!LastOrNotDefault
    <2>2. CASE j = r.id /\ u = r.user
        <3>1. PICK x : AddressesOf(table, u) = {x}
            BY <2>1, <2>2, FiniteParts, FS_Singleton
        <3>2. x = r.id
            BY <2>2, <3>1 DEF DefaultsOf
        <3>3. AddressesOf(table', u) = {}
            BY <2>1, <3>1, <3>2 DEF AddressesOf, Live
        <3> QED
            BY <3>3
    <2>3. CASE j = r.id /\ u # r.user
        <3>1. r.id \in AddressesOf(table, r.user)
            BY <1>5, ExactBookIsTable DEF OneAtATime!Effect, OneAtATime!Deleted
        <3> QED
            BY <1>2, <2>3, <3>1 DEF AddressesOf
    <2>4. CASE j # r.id
        BY <1>2, <2>1, <2>4 DEF DefaultsOf, AddressesOf
    <2> QED  BY <2>2, <2>3, <2>4
<1> QED
    BY <1>3, <1>4, <1>5, RequestFields

\* When users take turns, no request leaves one with addresses and without the
\* default they had: a consequence of the exact promise.
THEOREM TurnsKeepSomeDefault == TakingTurns => KeepsSomeDefault
<1>1. TypeOK /\ TypeOK' /\ [OneAtATime!Next]_(OneAtATime!vars)
        => [ \A u \in User :
               DefaultsOf(table, u) # {} /\ AddressesOf(table', u) # {}
                 => DefaultsOf(table', u) # {} ]_table
    <2> SUFFICES ASSUME TypeOK, TypeOK', OneAtATime!Next, table' # table, NEW u \in User,
                        DefaultsOf(table, u) # {}, AddressesOf(table', u) # {}
                 PROVE  DefaultsOf(table', u) # {}
        BY DEF OneAtATime!vars
    <2>1. PICK c \in Conn : /\ OneAtATime!Effect(Asked[c])
                            /\ Asked[c] # NoRequest
        BY DEF OneAtATime!Next, OneAtATime!Ask, OneAtATime!Succeed, OneAtATime!Fail,
            OneAtATime!LoseAnswer, OneAtATime!Settle, OneAtATime!Waiting, OneAtATime!Open
    <2>2. Asked[c] \in Inputs
        BY <2>1 DEF Asked, TypeOK
    <2> QED
        BY <2>1, <2>2, EffectKeepsDefault
<1>2. TakingTurns => [][OneAtATime!Next]_(OneAtATime!vars)
    BY TurnsKeepExactPromise DEF KeepsExactPromise, OneAtATime!Spec
<1>3. TakingTurns => []TypeOK
    BY TurnsAreSteps, TypeCorrect, PTL
<1> QED
    BY <1>1, <1>2, <1>3, PTL DEF KeepsSomeDefault

\* A draft that only displaces a default keeps the label.
LEMMA DisplacedLabel ==
    ASSUME TypeOK, NEW c \in Conn, NEW j \in AddressId, Live(table[j]), Displaces(c, j)
    PROVE  draft[j].label = table[j].label
BY LiveIsRow, DemotedRowIs DEF Displaces, TypeOK, TableTypeOK

\* When users take turns, a committed request changes the label of no address
\* but the one it is about, and only to the label it sent.
THEOREM TurnsEditOnlyWhatWasSent == TakingTurns => EditsOnlyWhatWasSent
<1>1. TurnsInv /\ [Next /\ OneRequestPerUser']_vars
        => [ \A i \in AddressId :
               Live(table[i]) /\ Live(table'[i]) /\ table'[i].label # table[i].label
                 => /\ lockedBy[i] \in Conn
                    /\ req[lockedBy[i]].op = "update"
                    /\ req[lockedBy[i]].id = i
                    /\ req[lockedBy[i]].label = table'[i].label ]_table
    <2> SUFFICES ASSUME TurnsInv, [Next]_vars, table' # table, NEW i \in AddressId,
                        Live(table[i]), Live(table'[i]), table'[i].label # table[i].label
                 PROVE  /\ lockedBy[i] \in Conn
                        /\ req[lockedBy[i]].op = "update"
                        /\ req[lockedBy[i]].id = i
                        /\ req[lockedBy[i]].label = table'[i].label
        OBVIOUS
    <2> USE DEF TurnsInv, PromiseInv, DefaultInv
    <2>1. PICK c \in Conn : pc[c] \in {"commit", "lost"} /\ CommitWork(c)
        BY OnlyCommitsChange DEF Next, StepOf, vars
    <2>2. i \in Held(c) /\ table'[i] = draft[i]
        BY <2>1, CommitPublishes
    <2>3. ~ Displaces(c, i)
        BY <2>2, DisplacedLabel
    <2>4. req[c] \in Inputs
        BY <2>1, RunsARequest
    <2>5. req[c].op # "create"
        BY <2>1, <2>2, <2>3 DEF Underway, EffectInPlace, CreateDrafted, Live
    <2>6. req[c].op # "delete"
        BY <2>1, <2>2 DEF Underway, EffectInPlace, DeleteDrafted, Live
    <2>7. req[c].op = "update" /\ req[c].id = i
        BY <2>1, <2>2, <2>3, <2>4, <2>5, <2>6, RequestFields
        DEF Underway, EffectInPlace, UpdateDrafted
    <2>8. draft[i] = Merge(table[i], req[c])
        BY <2>1, <2>7 DEF ReadsStand, FetchedRowStays
    <2>9. draft[i].label = IF req[c].label = Omitted THEN table[i].label ELSE req[c].label
        BY <2>8, LiveIsRow DEF Merge, Row, TypeOK, TableTypeOK
    <2> QED
        BY <2>2, <2>7, <2>9 DEF Held
<1> QED
    BY <1>1, TurnsInvHolds, PTL DEF TakingTurns, EditsOnlyWhatWasSent

\* An exact effect adds an address only below the cap.
LEMMA EffectKeepsCap ==
    ASSUME TypeOK, NEW r \in Inputs, OneAtATime!Effect(r), CapRespected
    PROVE  CapRespected'
<1> SUFFICES ASSUME NEW u \in User
             PROVE  Cardinality(AddressesOf(table', u)) <= MaxAddresses
    BY DEF CapRespected
<1> USE DEF TypeOK, TableTypeOK
<1> DEFINE before == AddressesOf(table, u)
           after == AddressesOf(table', u)
<1>1. /\ IsFiniteSet(before) /\ Cardinality(before) \in Nat
      /\ IsFiniteSet(after) /\ Cardinality(after) \in Nat
      /\ Cardinality(before) <= MaxAddresses
      /\ MaxAddresses \in Nat
    BY FiniteParts, CapAssumption DEF CapRespected
<1>2. ASSUME after \subseteq before
      PROVE  Cardinality(after) <= MaxAddresses
    <2>1. Cardinality(after) <= Cardinality(before)
        BY <1>1, <1>2, FS_Subset
    <2> QED
        BY <1>1, <2>1
<1>3. ASSUME NEW i, OneAtATime!OthersKept(r, i)
      PROVE  after \subseteq before \cup {i}
    <2> SUFFICES ASSUME NEW j \in after, j # i
                 PROVE  j \in before
        OBVIOUS
    <2>1. j \in AddressId
        BY DEF AddressesOf
    <2>2. CASE table'[j] = table[j]
        BY <2>1, <2>2 DEF AddressesOf
    <2>3. CASE j \in DefaultsOf(table, r.user) /\ table'[j] = Demoted(table[j])
        <3>1. table[j] \in Row /\ Live(table[j])
            BY <2>1, <2>3, LiveIsRow DEF DefaultsOf, AddressesOf
        <3>2. table'[j].owner = table[j].owner
            BY <2>3, <3>1, DemotedRowIs
        <3> QED
            BY <2>1, <3>1, <3>2 DEF AddressesOf
    <2> QED
        BY <1>3, <2>1, <2>2, <2>3, ExactBookIsTable
        DEF OneAtATime!OthersKept, OneAtATime!Demoted, Demoted
<1>4. CASE r.op = "create"
    <2>1. PICK i \in AddressId :
                 /\ table'[i] = [owner |-> r.user, label |-> r.label, isDefault |-> r.isDefault]
                 /\ OneAtATime!OthersKept(r, i)
        BY <1>4 DEF OneAtATime!Effect, OneAtATime!Created
    <2>2. after \subseteq before \cup {i}
        BY <1>3, <2>1
    <2>3. CASE u # r.user
        <3>1. i \notin after
            BY <2>1, <2>3 DEF AddressesOf
        <3> QED
            BY <1>2, <2>2, <3>1
    <2>4. CASE u = r.user
        <3>1. Cardinality(before) < MaxAddresses
            BY <1>4, <2>4, ExactBookIsTable DEF OneAtATime!Effect, OneAtATime!Created
        <3>2. /\ IsFiniteSet(before \cup {i})
              /\ Cardinality(before \cup {i}) \in Nat
              /\ Cardinality(before \cup {i}) <= Cardinality(before) + 1
            <4>1. Cardinality(before) \in Nat
                BY <1>1, FS_CardinalityType
            <4>2. IsFiniteSet(before)
                BY <1>1
            <4>3. /\ IsFiniteSet(before \cup {i})
                  /\ Cardinality(before \cup {i})
                       = IF i \in before THEN Cardinality(before) ELSE Cardinality(before) + 1
                BY <4>2, FS_AddElement
            <4> QED
                BY <4>1, <4>3
        <3>3. Cardinality(after) <= Cardinality(before \cup {i})
            BY <2>2, <3>2, FS_Subset
        <3> QED
            BY <1>1, <3>1, <3>2, <3>3
    <2> QED  BY <2>3, <2>4
<1>5. CASE r.op = "update"
    <2>1. /\ r.id \in AddressesOf(table, r.user)
          /\ table'[r.id].owner = r.user
          /\ OneAtATime!OthersKept(r, r.id)
        BY <1>5, ExactBookIsTable DEF OneAtATime!Effect, OneAtATime!Updated
    <2>2. r.id \in after => r.id \in before
        BY <2>1 DEF AddressesOf
    <2> QED
        BY <1>2, <1>3, <2>1, <2>2
<1>6. CASE r.op = "delete"
    <2>1. table' = [table EXCEPT ![r.id] = Gone]
        BY <1>6 DEF OneAtATime!Effect, OneAtATime!Deleted
    <2>2. after \subseteq before
        BY <2>1 DEF AddressesOf, Live
    <2> QED
        BY <1>2, <2>2
<1> QED
    BY <1>4, <1>5, <1>6, RequestFields

\* A cap that is respected stays so when users take turns: only overlapping
\* creations of one user pass it.
THEOREM TurnsRespectCap == TakingTurns /\ CapRespected => []CapRespected
<1>1. TypeOK /\ CapRespected /\ [OneAtATime!Next]_(OneAtATime!vars) => CapRespected'
    <2> SUFFICES ASSUME TypeOK, CapRespected, [OneAtATime!Next]_(OneAtATime!vars)
                 PROVE  CapRespected'
        OBVIOUS
    <2>1. CASE table' = table
        BY <2>1 DEF CapRespected, AddressesOf
    <2>2. CASE table' # table
        <3>1. PICK c \in Conn : OneAtATime!Effect(Asked[c]) /\ Asked[c] # NoRequest
            BY <2>2 DEF OneAtATime!Next, OneAtATime!Ask, OneAtATime!Succeed,
                OneAtATime!Fail, OneAtATime!LoseAnswer, OneAtATime!Settle,
                OneAtATime!Waiting, OneAtATime!Open, OneAtATime!vars
        <3>2. Asked[c] \in Inputs
            BY <3>1 DEF Asked, TypeOK
        <3> QED
            BY <3>1, <3>2, EffectKeepsCap
    <2> QED  BY <2>1, <2>2
<1>2. TakingTurns => [][OneAtATime!Next]_(OneAtATime!vars)
    BY TurnsKeepExactPromise DEF KeepsExactPromise, OneAtATime!Spec
<1>3. TakingTurns => []TypeOK
    BY TurnsAreSteps, TypeCorrect, PTL
<1> QED
    BY <1>1, <1>2, <1>3, PTL

=============================================================================
