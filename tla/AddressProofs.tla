--------------------------- MODULE AddressProofs ---------------------------
(***************************************************************************)
(* What holds of AddressRepository for every number of users, addresses,   *)
(* connections and requests.                                               *)
(*                                                                         *)
(* The unique index is checked when a row is written, long before the      *)
(* transaction commits, so AtMostOneDefault is not inductive: the argument *)
(* is about claims.  A row claims the default of its user when it has it   *)
(* for good or when its transaction has entered it in the index.  There is *)
(* one claim at a time, and the one who claims holds the lock of the row   *)
(* that has the default still, so that committing or undoing the claim     *)
(* cannot make a second one.                                               *)
(***************************************************************************)
EXTENDS AddressRepository, FiniteSetTheorems, TLAPS

----------------------------------------------------------------------------
(* Type correctness.                                                       *)

\* The fields of a request, by its operation.
LEMMA RequestFields ==
    ASSUME NEW r \in Inputs
    PROVE  /\ r # NoRequest
           /\ r.op \in {"create", "update", "delete"}
           /\ r.user \in User
           /\ r.op = "create" => r.label \in Label /\ r.isDefault \in BOOLEAN
           /\ r.op = "update" => r.label \in Label \cup {Omitted} /\ r.isDefault \in BOOLEAN
           /\ r.op \in {"update", "delete"} => r.id \in AddressId
BY InputsAssumption DEF CreateRequest, UpdateRequest, DeleteRequest

\* What is neither Unborn nor Gone is a row.
LEMMA LiveIsRow ==
    ASSUME NEW s \in Slot
    PROVE  Live(s) <=> s \in Row
BY SlotAssumption DEF Slot, Live

\* UnsetDefaultAddressForUser keeps the row and its owner, and clears the flag.
LEMMA DemotedRow ==
    ASSUME NEW s \in Slot, Live(s)
    PROVE  /\ [s EXCEPT !.isDefault = FALSE] \in Row
           /\ [s EXCEPT !.isDefault = FALSE].owner = s.owner
           /\ [s EXCEPT !.isDefault = FALSE].isDefault = FALSE
           /\ Live([s EXCEPT !.isDefault = FALSE])
<1>1. s \in Row
    BY LiveIsRow
<1>2. [s EXCEPT !.isDefault = FALSE] \in Row
    BY <1>1 DEF Row
<1> QED
    BY <1>1, <1>2, SlotAssumption DEF Row, Live

\* What a transaction sees, its own writes included, is a table.
LEMMA SeenType ==
    ASSUME TableTypeOK, NEW c \in Conn
    PROVE  Seen(c) \in [AddressId -> Slot]
BY DEF TableTypeOK, Seen

\* Writing a slot into the table keeps its type.
LEMMA WriteType ==
    ASSUME TableTypeOK, NEW c \in Conn, NEW i, NEW s \in Slot, Write(c, i, s)
    PROVE  TableTypeOK'
BY DEF TableTypeOK, Write

\* Committing or undoing the work of a transaction keeps the type of the table.
LEMMA EndType ==
    ASSUME TableTypeOK, NEW c \in Conn, CommitWork(c) \/ UndoWork(c)
    PROVE  TableTypeOK'
BY DEF TableTypeOK, CommitWork, UndoWork, Seen

\* What the connections hold apart from the table.
ConnTypeOK ==
    /\ pc \in [Conn -> Running \cup {"idle"}]
    /\ req \in [Conn -> Inputs \cup {NoRequest}]
    /\ merged \in [Conn -> Slot]
    /\ matched \in [Conn -> SUBSET AddressId]
    /\ answer \in [Conn -> {0, 200, 201, 204, 400, 404, 500}]

\* The type invariant is that of the table and that of the connections.
LEMMA TypeParts == TypeOK <=> TableTypeOK /\ ConnTypeOK
BY DEF TypeOK, ConnTypeOK

\* Answering a request keeps the type of the connections.
LEMMA FinishType ==
    ASSUME ConnTypeOK, NEW c \in Conn, Finish(c)
    PROVE  /\ pc' \in [Conn -> Running \cup {"idle"}]
           /\ req' \in [Conn -> Inputs \cup {NoRequest}]
           /\ merged' \in [Conn -> Slot]
           /\ matched' \in [Conn -> SUBSET AddressId]
BY DEF ConnTypeOK, Finish, Goto, Slot

\* Refusing a request, to be rolled back, keeps the type of the connections.
LEMMA RefuseType ==
    ASSUME TypeOK, NEW c \in Conn, NEW status \in {400, 404, 500}, Refuse(c, status)
    PROVE  TypeOK'
BY DEF TypeOK, TableTypeOK, Refuse, Goto, Running

\* A step moves one connection, between statements of its own operation.
LEMMA RequestsStep ==
    TypeOK /\ RequestsInPlace /\ [Next]_vars => RequestsInPlace'
<1> SUFFICES ASSUME TypeOK, RequestsInPlace, [Next]_vars
             PROVE  RequestsInPlace'
    OBVIOUS
<1> USE DEF Goto, RequestsInPlace
<1>1. CASE UNCHANGED vars
    BY <1>1 DEF vars
<1>2. ASSUME NEW c \in Conn, NEW r \in Inputs, Begin(c, r)
      PROVE  RequestsInPlace'
    BY <1>2, RequestFields DEF Begin, FirstStatement, TypeOK
<1>3. ASSUME NEW c \in Conn, NEW status, Refuse(c, status), pc[c] # "idle"
      PROVE  RequestsInPlace'
    BY <1>3 DEF Refuse, TypeOK
<1>4. ASSUME NEW c \in Conn, Finish(c)
      PROVE  RequestsInPlace'
    BY <1>4 DEF Finish, TypeOK
<1>5. ASSUME NEW c \in Conn, Proceed(c)
      PROVE  RequestsInPlace'
    <2>1. CASE CheckCap(c)
        BY <2>1, <1>3 DEF CheckCap, Reads, TypeOK
    <2>2. CASE ScanDefault(c)
        BY <2>2 DEF ScanDefault, AfterUnset, TypeOK
    <2>3. CASE UnsetRow(c)
        BY <2>3 DEF UnsetRow, AfterUnset, TypeOK
    <2>4. CASE InsertAddress(c)
        BY <2>4 DEF InsertAddress, TypeOK
    <2>5. CASE FetchForUpdate(c)
        BY <2>5, <1>3 DEF FetchForUpdate, Reads, TypeOK
    <2>6. CASE WriteMerged(c)
        BY <2>6, <1>3 DEF WriteMerged, TypeOK
    <2>7. CASE FetchForDelete(c)
        BY <2>7, <1>3 DEF FetchForDelete, Reads, TypeOK
    <2>8. CASE CheckLast(c)
        BY <2>8, <1>3 DEF CheckLast, Reads, TypeOK
    <2>9. CASE DeleteRow(c) \/ EnterIndex(c)
        BY <2>9 DEF DeleteRow, EnterIndex, TypeOK
    <2>10. CASE UniqueViolation(c) \/ BreakDeadlock(c)
        BY <2>10, <1>4 DEF UniqueViolation, BreakDeadlock, Abort
    <2>11. CASE Commit(c) \/ Rollback(c) \/ SettleLost(c)
        BY <2>11, <1>4 DEF Commit, Rollback, SettleLost
    <2> QED
        BY <1>5, <2>1, <2>2, <2>3, <2>4, <2>5, <2>6, <2>7, <2>8, <2>9, <2>10, <2>11
             DEF Proceed
<1>6. ASSUME NEW c \in Conn, Cancel(c)
      PROVE  RequestsInPlace'
    BY <1>6, <1>3 DEF Cancel, Statement
<1>7. ASSUME NEW c \in Conn, LoseCommit(c)
      PROVE  RequestsInPlace'
    BY <1>7 DEF LoseCommit, TypeOK
<1> QED
    BY <1>1, <1>2, <1>5, <1>6, <1>7 DEF Next

\* Every step keeps the type of every variable.
LEMMA TypeStep == TypeOK /\ RequestsInPlace /\ [Next]_vars => TypeOK'
<1> SUFFICES ASSUME TypeOK, RequestsInPlace, [Next]_vars
             PROVE  TypeOK'
    OBVIOUS
<1> USE DEF Running, Statement
<1>1. CASE UNCHANGED vars
    BY <1>1 DEF vars, TypeOK, TableTypeOK
<1>2. ASSUME NEW c \in Conn, NEW r \in Inputs, Begin(c, r)
      PROVE  TypeOK'
    BY <1>2 DEF Begin, Goto, FirstStatement, TypeOK, TableTypeOK
<1>3. ASSUME NEW c \in Conn, Proceed(c)
      PROVE  TypeOK'
    <2> USE DEF Goto
    <2>1. CASE CheckCap(c)
        <3>1. CASE Refuse(c, 400)
            BY <3>1, RefuseType
        <3>2. CASE ~ CapReached(c)
            <4>1. req[c] \in Inputs /\ req[c].op = "create"
                BY <2>1, InputsAssumption DEF CheckCap, RequestsInPlace, TypeOK
            <4>2. NewRow(req[c]) \in Slot
                BY <4>1, RequestFields DEF NewRow, Slot, Row
            <4> QED
                BY <2>1, <3>2, <4>2 DEF CheckCap, Reads, TypeOK, TableTypeOK
        <3> QED  BY <2>1, <3>1, <3>2 DEF CheckCap
    <2>2. CASE ScanDefault(c)
        BY <2>2
        DEF ScanDefault, AfterUnset, DefaultsOf, AddressesOf, TypeOK, TableTypeOK
    <2>3. CASE UnsetRow(c)
        <3>1. PICK i \in matched[c] : UnsetDefaultAddress(c, i)
                                      /\ matched' = [matched EXCEPT ![c] = @ \ {i}]
            BY <2>3 DEF UnsetRow
        <3>2. TableTypeOK'
            <4>1. CASE UNCHANGED tableVars
                BY <4>1, TypeParts DEF TableTypeOK, tableVars
            <4>2. CASE Live(draft[i]) /\ Write(c, i, [draft[i] EXCEPT !.isDefault = FALSE])
                <5>1. draft[i] \in Row
                    BY <3>1, <4>2, LiveIsRow DEF TypeOK, TableTypeOK
                <5>2. [draft[i] EXCEPT !.isDefault = FALSE] \in Slot
                    BY <5>1 DEF Row, Slot
                <5> QED  BY <4>2, <5>2, WriteType, TypeParts
            <4> QED  BY <3>1, <4>1, <4>2 DEF UnsetDefaultAddress, Write
        <3> QED
            BY <2>3, <3>1, <3>2 DEF UnsetRow, AfterUnset, TypeOK
    <2>4. CASE InsertAddress(c)
        <3>1. TableTypeOK'
            BY <2>4, WriteType DEF InsertAddress, CreateCustomerAddress, TypeOK
        <3> QED
            BY <2>4, <3>1 DEF InsertAddress, TypeOK
    <2>5. CASE FetchForUpdate(c)
        <3> DEFINE r == req[c]
        <3>1. CASE ~ GetFinds(c, r.id, r.user)
            BY <2>5, <3>1, RefuseType DEF FetchForUpdate
        <3>2. CASE GetFinds(c, r.id, r.user)
            <4>1. r \in Inputs /\ r.op = "update"
                BY <2>5 DEF FetchForUpdate, RequestsInPlace, TypeOK
            <4>2. Seen(c)[r.id] \in Row
                BY <3>2, SeenType, LiveIsRow DEF GetFinds, AddressesOf, TypeOK
            <4>3. Merge(Seen(c)[r.id], r) \in Slot
                BY <4>1, <4>2, RequestFields DEF Merge, Row, Slot
            <4> QED
                BY <2>5, <3>2, <4>3 DEF FetchForUpdate, Reads, TypeOK, TableTypeOK
        <3> QED  BY <3>1, <3>2
    <2>6. CASE WriteMerged(c)
        <3>1. CASE Refuse(c, 500)
            BY <3>1, RefuseType
        <3>2. CASE Write(c, req[c].id, merged[c])
            <4>1. TableTypeOK'
                BY <3>2, WriteType DEF TypeOK
            <4> QED
                BY <2>6, <3>2, <4>1, RefuseType DEF WriteMerged, NewVersion, TypeOK
        <3> QED  BY <2>6, <3>1, <3>2 DEF WriteMerged, NewVersion
    <2>7. CASE FetchForDelete(c)
        BY <2>7, RefuseType DEF FetchForDelete, Reads, TypeOK, TableTypeOK
    <2>8. CASE CheckLast(c)
        BY <2>8, RefuseType DEF CheckLast, Reads, TypeOK, TableTypeOK
    <2>9. CASE DeleteRow(c)
        <3>1. Gone \in Slot
            BY DEF Slot
        <3>2. TableTypeOK'
            BY <2>9, <3>1, WriteType DEF DeleteRow, TypeOK, TableTypeOK, tableVars
        <3> QED
            BY <2>9, <3>2 DEF DeleteRow, TypeOK
    <2>10. CASE EnterIndex(c)
        BY <2>10 DEF EnterIndex, TypeOK, TableTypeOK
    <2>11. CASE UniqueViolation(c) \/ BreakDeadlock(c)
        <3>1. Abort(c)
            BY <2>11 DEF UniqueViolation, BreakDeadlock
        <3> QED
            BY <3>1, EndType, FinishType, TypeParts DEF Abort, TypeOK, ConnTypeOK
    <2>12. CASE Commit(c)
        <3>1. answer' \in [Conn -> {0, 200, 201, 204, 400, 404, 500}]
            <4>1. req[c] \in Inputs
                BY <2>12 DEF Commit, RequestsInPlace, TypeOK
            <4>2. Success(req[c]) \in {200, 201, 204}
                BY <4>1, RequestFields DEF Success
            <4> QED  BY <2>12, <4>2 DEF Commit, TypeOK
        <3> QED
            BY <2>12, <3>1, EndType, FinishType, TypeParts
            DEF Commit, TypeOK, ConnTypeOK
    <2>13. CASE Rollback(c) \/ SettleLost(c)
        BY <2>13, EndType, FinishType, TypeParts
        DEF Rollback, SettleLost, TypeOK, ConnTypeOK
    <2> QED
        BY <1>3, <2>1, <2>2, <2>3, <2>4, <2>5, <2>6, <2>7, <2>8, <2>9, <2>10, <2>11,
           <2>12, <2>13
             DEF Proceed
<1>4. ASSUME NEW c \in Conn, Cancel(c)
      PROVE  TypeOK'
    BY <1>4, RefuseType DEF Cancel
<1>5. ASSUME NEW c \in Conn, LoseCommit(c)
      PROVE  TypeOK'
    BY <1>5 DEF LoseCommit, Goto, TypeOK, TableTypeOK
<1> QED
    BY <1>1, <1>2, <1>3, <1>4, <1>5 DEF Next

----------------------------------------------------------------------------
(* The kinds of steps, by what they do to the rows and their locks.        *)

\* Connection c moves on before its first write.
EarlyStep(c) ==
    /\ pc[c] \in {"idle", "count", "fetch", "unset", "countOthers"}
    /\ pc' = [pc EXCEPT ![c] = pc'[c]]
    /\ pc'[c] \in Running
    /\ \A d \in Conn \ {c} : req'[d] = req[d]
    /\ UNCHANGED tableVars

\* It is left to a Rollback.
GiveUpStep(c) ==
    /\ pc[c] \in Statement
    /\ pc' = [pc EXCEPT ![c] = "rollback"]
    /\ UNCHANGED <<req, table, draft, lockedBy>>

\* It passes the index, or loses its commit.
ClaimStep(c) ==
    /\ pc' = [pc EXCEPT ![c] = pc'[c]]
    /\ \/ EnterIndex(c) /\ pc'[c] = "commit"
       \/ pc[c] = "commit" /\ pc'[c] = "lost"
    /\ UNCHANGED <<req, table, draft, lockedBy>>

\* It changes a row, or finds nothing to change.
UnsetStep(c) ==
    /\ pc[c] = "unsetRow"
    /\ pc' = [pc EXCEPT ![c] = pc'[c]]
    /\ pc'[c] \in {"unsetRow", "insert", "write"}
    /\ UNCHANGED req
    /\ \/ UNCHANGED tableVars
       \/ \E i \in AddressId : Live(draft[i]) /\ Write(c, i, [draft[i] EXCEPT !.isDefault = FALSE])

InsertStep(c) ==
    /\ pc[c] = "insert"
    /\ pc' = [pc EXCEPT ![c] = pc'[c]]
    /\ pc'[c] = IF merged[c].isDefault THEN "index" ELSE "commit"
    /\ UNCHANGED req
    /\ \E i \in AddressId : table[i] = Unborn /\ lockedBy[i] = NoConn /\ Write(c, i, merged[c])

WriteStep(c) ==
    /\ pc[c] = "write"
    /\ pc' = [pc EXCEPT ![c] = pc'[c]]
    /\ \/ pc'[c] = "index"
       \/ pc'[c] = "commit" /\ (merged[c].isDefault => draft[req[c].id].isDefault)
    /\ UNCHANGED req
    /\ req[c].id \in AddressId
    /\ Live(draft[req[c].id])
    /\ Write(c, req[c].id, merged[c])

DeleteStep(c) ==
    /\ pc[c] = "delete"
    /\ pc' = [pc EXCEPT ![c] = "commit"]
    /\ UNCHANGED req
    /\ req[c].id \in AddressId
    /\ \/ UNCHANGED tableVars
       \/ Live(draft[req[c].id]) /\ Write(c, req[c].id, Gone)

\* Its transaction ends.
CommitStep(c) ==
    /\ pc[c] \in {"commit", "lost"}
    /\ CommitWork(c)
    /\ pc' = [pc EXCEPT ![c] = "idle"]
    /\ req' = [req EXCEPT ![c] = NoRequest]

UndoStep(c) ==
    /\ UndoWork(c)
    /\ pc' = [pc EXCEPT ![c] = "idle"]
    /\ req' = [req EXCEPT ![c] = NoRequest]

RowStep(c) ==
    \/ EarlyStep(c) \/ GiveUpStep(c) \/ ClaimStep(c)
    \/ UnsetStep(c) \/ InsertStep(c) \/ WriteStep(c) \/ DeleteStep(c)
    \/ CommitStep(c) \/ UndoStep(c)

\* Seen from the rows, every step of AddressRepository is a RowStep.
LEMMA StepKinds ==
    ASSUME TypeOK, RequestsInPlace, NEW c \in Conn,
           (\E r \in Inputs : Begin(c, r)) \/ Proceed(c) \/ Cancel(c) \/ LoseCommit(c)
    PROVE  RowStep(c)
<1> USE DEF Goto, RowStep
<1>1. ASSUME NEW status, Refuse(c, status), pc[c] \in Statement
      PROVE  GiveUpStep(c)
    BY <1>1 DEF Refuse, GiveUpStep
<1>3. ASSUME NEW r \in Inputs, Begin(c, r)
      PROVE  EarlyStep(c)
    BY <1>3
    DEF Begin, FirstStatement, EarlyStep, TypeOK, tableVars, Running, Statement
<1>4. ASSUME Proceed(c)
      PROVE  RowStep(c)
    <2>1. CASE CheckCap(c)
        BY <2>1, <1>1
        DEF CheckCap, Reads, EarlyStep, TypeOK, tableVars, Running, Statement
    <2>2. CASE ScanDefault(c)
        BY <2>2
        DEF ScanDefault, AfterUnset, EarlyStep, TypeOK, tableVars, Running,
            Statement
    <2>3. CASE UnsetRow(c)
        <3>1. PICK i \in matched[c] : UnsetDefaultAddress(c, i)
            BY <2>3 DEF UnsetRow
        <3>2. i \in AddressId
            BY DEF TypeOK
        <3>3. \/ UNCHANGED tableVars
              \/ Live(draft[i]) /\ Write(c, i, [draft[i] EXCEPT !.isDefault = FALSE])
            BY <3>1 DEF UnsetDefaultAddress, Write
        <3>4. /\ pc[c] = "unsetRow"
              /\ pc' = [pc EXCEPT ![c] = pc'[c]]
              /\ pc'[c] \in {"unsetRow", "insert", "write"}
              /\ UNCHANGED req
            BY <2>3 DEF UnsetRow, AfterUnset, TypeOK
        <3> QED  BY <3>2, <3>3, <3>4 DEF UnsetStep
    <2>4. CASE InsertAddress(c)
        BY <2>4 DEF InsertAddress, CreateCustomerAddress, InsertStep, TypeOK
    <2>5. CASE FetchForUpdate(c)
        BY <2>5, <1>1
        DEF FetchForUpdate, Reads, EarlyStep, TypeOK, tableVars, Running, Statement
    <2>6. CASE WriteMerged(c)
        <3>1. req[c].id \in AddressId
            BY <2>6, RequestFields DEF WriteMerged, RequestsInPlace, TypeOK
        <3>2. CASE ~ Live(draft[req[c].id])
            BY <2>6, <3>2, <1>1 DEF WriteMerged, Statement
        <3>3. CASE Live(draft[req[c].id])
            BY <2>6, <3>1, <3>3 DEF WriteMerged, NewVersion, WriteStep, TypeOK
        <3> QED  BY <3>2, <3>3
    <2>7. CASE FetchForDelete(c)
        BY <2>7, <1>1
        DEF FetchForDelete, Reads, EarlyStep, TypeOK, tableVars, Running, Statement
    <2>8. CASE CheckLast(c)
        BY <2>8, <1>1
        DEF CheckLast, Reads, EarlyStep, TypeOK, tableVars, Running, Statement
    <2>9. CASE DeleteRow(c)
        <3>1. req[c].id \in AddressId
            BY <2>9, RequestFields DEF DeleteRow, RequestsInPlace, TypeOK
        <3> QED
            BY <2>9, <3>1 DEF DeleteRow, DeleteStep
    <2>10. CASE EnterIndex(c)
        BY <2>10 DEF EnterIndex, ClaimStep, TypeOK
    <2>11. CASE UniqueViolation(c) \/ BreakDeadlock(c) \/ Rollback(c)
        BY <2>11
        DEF UniqueViolation, BreakDeadlock, Rollback, Abort, Finish, UndoStep
    <2>12. CASE Commit(c) \/ SettleLost(c)
        BY <2>12 DEF Commit, SettleLost, Finish, CommitStep, UndoStep
    <2> QED
        BY <1>4, <2>1, <2>2, <2>3, <2>4, <2>5, <2>6, <2>7, <2>8, <2>9, <2>10, <2>11,
           <2>12
             DEF Proceed
<1>5. ASSUME Cancel(c)
      PROVE  GiveUpStep(c)
    BY <1>1, <1>5 DEF Cancel
<1>6. ASSUME LoseCommit(c)
      PROVE  ClaimStep(c)
    BY <1>6 DEF LoseCommit, ClaimStep, TypeOK
<1> QED
    BY <1>3, <1>4, <1>5, <1>6

----------------------------------------------------------------------------
(* Each part of the invariant is kept by every kind of step.               *)

\* Only a row that is there is written again, by a transaction of its owner.
LEMMA OwnersStep ==
    ASSUME TypeOK, RequestsInPlace, MergedInPlace, OwnersKept, [Next]_vars
    PROVE  OwnersKept'
<1> USE DEF TypeOK, TableTypeOK, OwnersKept
<1>1. ASSUME NEW c \in Conn,
             (\E r \in Inputs : Begin(c, r)) \/ Proceed(c) \/ Cancel(c) \/ LoseCommit(c)
      PROVE  OwnersKept'
    <2>1. CASE EarlyStep(c)
        BY <2>1 DEF EarlyStep, tableVars, Live
    <2>2. CASE GiveUpStep(c)
        BY <2>2 DEF GiveUpStep, Live
    <2>3. CASE ClaimStep(c)
        BY <2>3 DEF ClaimStep, EnterIndex, Live
    <2>4. CASE UnsetStep(c)
        <3>1. CASE UNCHANGED tableVars
            BY <2>4, <3>1 DEF UnsetStep, tableVars, Live
        <3>2. ASSUME NEW i \in AddressId, NEW s, s = [draft[i] EXCEPT !.isDefault = FALSE],
                     Live(draft[i]), Write(c, i, s)
              PROVE  OwnersKept'
            <4>1. /\ s \in Row
                  /\ s.owner = draft[i].owner
                  /\ ~ s.isDefault
                BY <3>2, DemotedRow
            <4>2. /\ table' = table
                  /\ \A j \in AddressId : draft'[j] = IF j = i THEN s ELSE draft[j]
                BY <3>2 DEF Write
            <4>3. table[i] # Gone
                BY <3>2 DEF Live
            <4>5. Live(s)
                BY <4>1, SlotAssumption DEF Live
            <4>4. Live(table[i]) => draft[i].owner = table[i].owner
                BY <3>2 DEF Live
            <4> QED
                BY <4>1, <4>2, <4>3, <4>4, <4>5 DEF Live
        <3> QED  BY <2>4, <3>1, <3>2 DEF UnsetStep
    <2>5. CASE InsertStep(c)
        BY <2>5, NoConnAssumption, SlotAssumption
        DEF InsertStep, Write, Lockable, Live
    <2>6. CASE WriteStep(c)
        BY <2>6, LiveIsRow, NoConnAssumption
        DEF WriteStep, Write, Lockable, Live, AddressesOf, MergedInPlace,
            RequestsInPlace
    <2>7. CASE DeleteStep(c)
        BY <2>7, NoConnAssumption DEF DeleteStep, Write, Lockable, tableVars, Live
    <2>8. CASE CommitStep(c)
        BY <2>8, NoConnAssumption DEF CommitStep, CommitWork, Seen
    <2>9. CASE UndoStep(c)
        BY <2>9, NoConnAssumption DEF UndoStep, UndoWork
    <2> QED
        BY <1>1, <2>1, <2>2, <2>3, <2>4, <2>5, <2>6, <2>7, <2>8, <2>9, StepKinds
        DEF RowStep
<1>2. CASE UNCHANGED vars
    BY <1>2 DEF vars
<1> QED
    BY <1>1, <1>2 DEF Next

\* A row is locked from its first write to the end of the transaction.
LEMMA LocksStep ==
    ASSUME TypeOK, RequestsInPlace, LocksInPlace, [Next]_vars
    PROVE  LocksInPlace'
<1> USE DEF TypeOK, TableTypeOK, LocksInPlace
<1>1. ASSUME NEW c \in Conn,
             (\E r \in Inputs : Begin(c, r)) \/ Proceed(c) \/ Cancel(c) \/ LoseCommit(c)
      PROVE  LocksInPlace'
    <2>1. CASE EarlyStep(c)
        BY <2>1 DEF EarlyStep, tableVars, Running, Statement
    <2>2. CASE GiveUpStep(c)
        BY <2>2 DEF GiveUpStep, Running, Statement
    <2>3. CASE ClaimStep(c)
        BY <2>3 DEF ClaimStep, EnterIndex, Running, Statement
    <2>4. CASE UnsetStep(c)
        <3>1. CASE UNCHANGED tableVars
            BY <2>4, <3>1 DEF UnsetStep, tableVars, Running, Statement
        <3>2. ASSUME NEW i \in AddressId, NEW s, s = [draft[i] EXCEPT !.isDefault = FALSE],
                     Live(draft[i]), Write(c, i, s)
              PROVE  LocksInPlace'
            <4>1. /\ s \in Row
                  /\ s.owner = draft[i].owner
                  /\ ~ s.isDefault
                BY <3>2, DemotedRow
            <4> QED
                BY <2>4, <3>2, <4>1, LiveIsRow, NoConnAssumption, SlotAssumption
                DEF UnsetStep, Write, Lockable, Running, Statement
        <3> QED  BY <2>4, <3>1, <3>2 DEF UnsetStep
    <2>5. CASE InsertStep(c)
        BY <2>5, NoConnAssumption, SlotAssumption
        DEF InsertStep, Write, Lockable, Running, Statement
    <2>6. CASE WriteStep(c)
        BY <2>6, LiveIsRow, NoConnAssumption
        DEF WriteStep, Write, Lockable, Running, Statement
    <2>7. CASE DeleteStep(c)
        BY <2>7, NoConnAssumption
        DEF DeleteStep, Write, Lockable, tableVars, Running, Statement
    <2>8. CASE CommitStep(c)
        BY <2>8, NoConnAssumption
        DEF CommitStep, CommitWork, Seen, Running, Statement
    <2>9. CASE UndoStep(c)
        BY <2>9, NoConnAssumption DEF UndoStep, UndoWork, Running, Statement
    <2> QED
        BY <1>1, <2>1, <2>2, <2>3, <2>4, <2>5, <2>6, <2>7, <2>8, <2>9, StepKinds
        DEF RowStep
<1>2. CASE UNCHANGED vars
    BY <1>2 DEF vars, Running, Statement
<1> QED
    BY <1>1, <1>2 DEF Next

\* A new default is the row its transaction wrote last.
LEMMA NewDefaultsStep ==
    ASSUME TypeOK, RequestsInPlace, LocksInPlace, OwnersKept, MergedInPlace,
           RequestsInPlace, NewDefaultsInPlace, [Next]_vars
    PROVE  NewDefaultsInPlace'
<1> USE DEF TypeOK, TableTypeOK, NewDefaultsInPlace
<1>1. ASSUME NEW c \in Conn,
             (\E r \in Inputs : Begin(c, r)) \/ Proceed(c) \/ Cancel(c) \/ LoseCommit(c)
      PROVE  NewDefaultsInPlace'
    <2>1. CASE EarlyStep(c)
        BY <2>1
        DEF EarlyStep, tableVars, LocksInPlace, DefaultsOf, AddressesOf, Live,
            MergedInPlace
    <2>2. CASE GiveUpStep(c)
        BY <2>2
        DEF GiveUpStep, LocksInPlace, DefaultsOf, AddressesOf, Live, MergedInPlace
    <2>3. CASE ClaimStep(c)
        BY <2>3
        DEF ClaimStep, EnterIndex, LocksInPlace, DefaultsOf, AddressesOf, Live,
            MergedInPlace
    <2>4. CASE UnsetStep(c)
        <3>1. CASE UNCHANGED tableVars
            BY <2>4, <3>1
            DEF UnsetStep, tableVars, LocksInPlace, DefaultsOf, AddressesOf, Live,
                MergedInPlace
        <3>2. ASSUME NEW i \in AddressId, NEW s, s = [draft[i] EXCEPT !.isDefault = FALSE],
                     Live(draft[i]), Write(c, i, s)
              PROVE  NewDefaultsInPlace'
            <4>1. /\ s \in Row
                  /\ s.owner = draft[i].owner
                  /\ ~ s.isDefault
                BY <3>2, DemotedRow
            <4> QED
                BY <2>4, <3>2, <4>1, LiveIsRow, NoConnAssumption, SlotAssumption
                DEF UnsetStep, Write, Lockable, LocksInPlace, DefaultsOf,
                    AddressesOf, Live, MergedInPlace
        <3> QED  BY <2>4, <3>1, <3>2 DEF UnsetStep
    <2>5. CASE InsertStep(c)
        BY <2>5, NoConnAssumption, SlotAssumption
        DEF InsertStep, Write, Lockable, LocksInPlace, DefaultsOf, AddressesOf,
            Live, MergedInPlace
    <2>6. CASE WriteStep(c)
        BY <2>6, LiveIsRow, NoConnAssumption
        DEF WriteStep, Write, Lockable, LocksInPlace, DefaultsOf, AddressesOf, Live,
            MergedInPlace
    <2>7. CASE DeleteStep(c)
        BY <2>7, NoConnAssumption
        DEF DeleteStep, Write, Lockable, tableVars, LocksInPlace, DefaultsOf,
            AddressesOf, Live, MergedInPlace
    <2>8. CASE CommitStep(c)
        BY <2>8, NoConnAssumption
        DEF CommitStep, CommitWork, Seen, LocksInPlace, DefaultsOf, AddressesOf,
            Live, MergedInPlace
    <2>9. CASE UndoStep(c)
        BY <2>9, NoConnAssumption
        DEF UndoStep, UndoWork, LocksInPlace, DefaultsOf, AddressesOf, Live,
            MergedInPlace
    <2> QED
        BY <1>1, <2>1, <2>2, <2>3, <2>4, <2>5, <2>6, <2>7, <2>8, <2>9, StepKinds
        DEF RowStep
<1>2. CASE UNCHANGED vars
    BY <1>2 DEF vars, LocksInPlace, DefaultsOf, AddressesOf, Live, MergedInPlace
<1> QED
    BY <1>1, <1>2 DEF Next

\* A transaction that writes a default has none yet.
LEMMA OneNewDefaultStep ==
    ASSUME TypeOK, RequestsInPlace, LocksInPlace, NewDefaultsInPlace, OneNewDefault,
           [Next]_vars
    PROVE  OneNewDefault'
<1> USE DEF TypeOK, TableTypeOK, OneNewDefault
<1>1. ASSUME NEW c \in Conn,
             (\E r \in Inputs : Begin(c, r)) \/ Proceed(c) \/ Cancel(c) \/ LoseCommit(c)
      PROVE  OneNewDefault'
    <2>1. CASE EarlyStep(c)
        BY <2>1
        DEF EarlyStep, tableVars, LocksInPlace, NewDefaultsInPlace, DefaultsOf,
            AddressesOf, Live
    <2>2. CASE GiveUpStep(c)
        BY <2>2
        DEF GiveUpStep, LocksInPlace, NewDefaultsInPlace, DefaultsOf, AddressesOf,
            Live
    <2>3. CASE ClaimStep(c)
        BY <2>3
        DEF ClaimStep, EnterIndex, LocksInPlace, NewDefaultsInPlace, DefaultsOf,
            AddressesOf, Live
    <2>4. CASE UnsetStep(c)
        <3>1. CASE UNCHANGED tableVars
            BY <2>4, <3>1
            DEF UnsetStep, tableVars, LocksInPlace, NewDefaultsInPlace, DefaultsOf,
                AddressesOf, Live
        <3>2. ASSUME NEW i \in AddressId, NEW s, s = [draft[i] EXCEPT !.isDefault = FALSE],
                     Live(draft[i]), Write(c, i, s)
              PROVE  OneNewDefault'
            <4>1. /\ s \in Row
                  /\ s.owner = draft[i].owner
                  /\ ~ s.isDefault
                BY <3>2, DemotedRow
            <4> QED
                BY <2>4, <3>2, <4>1, LiveIsRow, NoConnAssumption, SlotAssumption
                DEF UnsetStep, Write, Lockable, LocksInPlace, NewDefaultsInPlace,
                    DefaultsOf, AddressesOf, Live
        <3> QED  BY <2>4, <3>1, <3>2 DEF UnsetStep
    <2>5. CASE InsertStep(c)
        BY <2>5, NoConnAssumption, SlotAssumption
        DEF InsertStep, Write, Lockable, LocksInPlace, NewDefaultsInPlace,
            DefaultsOf, AddressesOf, Live
    <2>6. CASE WriteStep(c)
        BY <2>6, LiveIsRow, NoConnAssumption
        DEF WriteStep, Write, Lockable, LocksInPlace, NewDefaultsInPlace,
            DefaultsOf, AddressesOf, Live
    <2>7. CASE DeleteStep(c)
        BY <2>7, NoConnAssumption
        DEF DeleteStep, Write, Lockable, tableVars, LocksInPlace,
            NewDefaultsInPlace, DefaultsOf, AddressesOf, Live
    <2>8. CASE CommitStep(c)
        BY <2>8, NoConnAssumption
        DEF CommitStep, CommitWork, Seen, LocksInPlace, NewDefaultsInPlace,
            DefaultsOf, AddressesOf, Live
    <2>9. CASE UndoStep(c)
        BY <2>9, NoConnAssumption
        DEF UndoStep, UndoWork, LocksInPlace, NewDefaultsInPlace, DefaultsOf,
            AddressesOf, Live
    <2> QED
        BY <1>1, <2>1, <2>2, <2>3, <2>4, <2>5, <2>6, <2>7, <2>8, <2>9, StepKinds
        DEF RowStep
<1>2. CASE UNCHANGED vars
    BY <1>2
    DEF vars, LocksInPlace, NewDefaultsInPlace, DefaultsOf, AddressesOf, Live
<1> QED
    BY <1>1, <1>2 DEF Next


----------------------------------------------------------------------------
(* Each part of the invariant is kept by every kind of step.               *)

\* A row that is written is no claim of another transaction, and none of its
\* own: only the default itself, rewritten, stays one.
LEMMA WriteKeepsClaims ==
    ASSUME TypeOK, RequestsInPlace, MergedInPlace, OwnersKept, LocksInPlace,
           NewDefaultsInPlace, NEW c \in Conn, WriteStep(c) \/ DeleteStep(c)
    PROVE  \A u \in User : \A i \in Claims(u)' : i \in Claims(u) /\ lockedBy[i] # c
<1> SUFFICES ASSUME NEW u \in User, NEW i \in Claims(u)'
             PROVE  i \in Claims(u) /\ lockedBy[i] # c
    OBVIOUS
<1> USE DEF TypeOK, TableTypeOK, Claims, DefaultsOf, AddressesOf
<1>1. \A j \in DefaultsOf(draft, u) : lockedBy[j] # c
    BY NoConnAssumption DEF WriteStep, DeleteStep, NewDefaultsInPlace
<1>2. CASE WriteStep(c)
    <2> DEFINE k == req[c].id
    <2>1. CASE i # k
        BY <1>1, <1>2, <2>1 DEF WriteStep, Write
    <2>2. CASE i = k
        <3>1. merged[c].isDefault /\ merged[c].owner = u /\ pc'[c] = "commit"
            BY <1>2, <2>2, NoConnAssumption DEF WriteStep, Write
        <3>2. draft[k].isDefault /\ Live(draft[k])
            BY <1>2, <3>1 DEF WriteStep
        <3>3. draft[k].owner = u
            BY <1>2, <3>1, <3>2, SlotAssumption
            DEF WriteStep, MergedInPlace, RequestsInPlace, OwnersKept, Live
        <3>4. k \in DefaultsOf(draft, u)
            BY <1>2, <3>2, <3>3 DEF WriteStep
        <3> QED
            BY <1>1, <1>2, <2>2, <3>4 DEF WriteStep, Write, Lockable
    <2> QED  BY <2>1, <2>2
<1>3. CASE DeleteStep(c)
    <2>1. ~ Live(Gone)
        BY DEF Live
    <2> QED
        BY <1>1, <1>3, <2>1 DEF DeleteStep, Write, tableVars
<1> QED
    BY <1>2, <1>3

\* When a transaction enters its new default in the index, every default of
\* that user, old or new, is in its hands.
LEMMA EntryTakesOver ==
    ASSUME TypeOK, NewDefaultsInPlace, OneNewDefault, NEW c \in Conn,
           ClaimStep(c), NEW u \in User, NEW i \in Claims(u)', i \notin Claims(u)
    PROVE  /\ lockedBy[i] = c
           /\ i \in DefaultsOf(draft, u)
           /\ Claims(u) = {}
           /\ \A j \in DefaultsOf(table, u) : lockedBy[j] = c
<1> USE DEF TypeOK, TableTypeOK
<1>1. /\ lockedBy[i] = c
      /\ i \in DefaultsOf(draft, u)
      /\ EnterIndex(c)
    BY DEF ClaimStep, Claims, DefaultsOf, AddressesOf
<1>2. req[c].user = u
    BY <1>1, NoConnAssumption DEF NewDefaultsInPlace
<1>3. \A j \in Entries(u, Checking) : lockedBy[j] = c
    BY <1>1, <1>2 DEF EnterIndex, Rivals
<1>4. DefaultsOf(table, u) \subseteq Entries(u, Checking)
    BY DEF Entries
<1>5. ASSUME NEW j \in Claims(u)
      PROVE  FALSE
    <2>1. j \in Entries(u, Checking)
        BY <1>5, NoConnAssumption
        DEF Entries, Claims, Checking, DefaultsOf, AddressesOf
    <2>2. lockedBy[j] = c /\ pc[c] = "index"
        BY <2>1, <1>1, <1>3 DEF EnterIndex
    <2> QED
        BY <2>2, NoConnAssumption DEF Claims
<1> QED
    BY <1>1, <1>3, <1>4, <1>5

\* A user's default is claimed once: no step makes a second claim.
LEMMA OneClaimStep ==
    ASSUME TypeOK, RequestsInPlace, MergedInPlace, OwnersKept, LocksInPlace,
           NewDefaultsInPlace, OneNewDefault, ClaimsLockOldDefault,
           AtMostOneDefault, OneClaim, [Next]_vars
    PROVE  OneClaim'
<1> USE DEF TypeOK, TableTypeOK, OneClaim
<1>1. ASSUME NEW c \in Conn,
             (\E r \in Inputs : Begin(c, r)) \/ Proceed(c) \/ Cancel(c) \/ LoseCommit(c)
      PROVE  OneClaim'
    <2>1. CASE EarlyStep(c)
        BY <2>1
        DEF EarlyStep, tableVars, Claims, DefaultsOf, AddressesOf, LocksInPlace,
            NewDefaultsInPlace, OneNewDefault, ClaimsLockOldDefault,
            AtMostOneDefault
    <2>2. CASE GiveUpStep(c)
        BY <2>2
        DEF GiveUpStep, Claims, DefaultsOf, AddressesOf, LocksInPlace,
            NewDefaultsInPlace, OneNewDefault, ClaimsLockOldDefault,
            AtMostOneDefault
    <2>3. CASE ClaimStep(c)
        <3>1. \A u \in User : \A i, j \in Claims(u)' : i \notin Claims(u) => i = j
            <4> SUFFICES ASSUME NEW u \in User, NEW i \in Claims(u)', NEW j \in Claims(u)',
                                i \notin Claims(u)
                         PROVE  i = j
                OBVIOUS
            <4>1. /\ lockedBy[i] = c /\ i \in DefaultsOf(draft, u)
                  /\ lockedBy[j] = c /\ j \in DefaultsOf(draft, u)
                BY <2>3, EntryTakesOver
            <4> QED
                BY <4>1, NoConnAssumption DEF OneNewDefault
        <3> QED
            BY <3>1
    <2>4. CASE UnsetStep(c)
        <3>1. CASE UNCHANGED tableVars
            BY <2>4, <3>1
            DEF UnsetStep, tableVars, Claims, DefaultsOf, AddressesOf, LocksInPlace,
                NewDefaultsInPlace, OneNewDefault, ClaimsLockOldDefault,
                AtMostOneDefault
        <3>2. ASSUME NEW i \in AddressId, NEW s, s = [draft[i] EXCEPT !.isDefault = FALSE],
                     Live(draft[i]), Write(c, i, s)
              PROVE  OneClaim'
            <4>1. /\ s \in Row
                  /\ s.owner = draft[i].owner
                  /\ ~ s.isDefault
                BY <3>2, DemotedRow
            <4> QED
                BY <2>4, <3>2, <4>1, LiveIsRow, NoConnAssumption, SlotAssumption
                DEF UnsetStep, Write, Lockable, Claims, DefaultsOf, AddressesOf,
                    LocksInPlace, NewDefaultsInPlace, OneNewDefault,
                    ClaimsLockOldDefault, AtMostOneDefault
        <3> QED  BY <2>4, <3>1, <3>2 DEF UnsetStep
    <2>5. CASE InsertStep(c)
        BY <2>5, NoConnAssumption, SlotAssumption
        DEF InsertStep, Write, Lockable, Claims, DefaultsOf, AddressesOf,
            LocksInPlace, NewDefaultsInPlace, OneNewDefault, ClaimsLockOldDefault,
            AtMostOneDefault
    <2>6. CASE WriteStep(c)
        BY <2>6, WriteKeepsClaims
    <2>7. CASE DeleteStep(c)
        BY <2>7, WriteKeepsClaims
    <2>8. CASE CommitStep(c)
        BY <2>8, NoConnAssumption
        DEF CommitStep, CommitWork, Seen, Claims, DefaultsOf, AddressesOf,
            LocksInPlace, NewDefaultsInPlace, OneNewDefault, ClaimsLockOldDefault,
            AtMostOneDefault
    <2>9. CASE UndoStep(c)
        BY <2>9, NoConnAssumption
        DEF UndoStep, UndoWork, Claims, DefaultsOf, AddressesOf, LocksInPlace,
            NewDefaultsInPlace, OneNewDefault, ClaimsLockOldDefault,
            AtMostOneDefault
    <2> QED
        BY <1>1, <2>1, <2>2, <2>3, <2>4, <2>5, <2>6, <2>7, <2>8, <2>9, StepKinds
        DEF RowStep
<1>2. CASE UNCHANGED vars
    BY <1>2
    DEF vars, Claims, DefaultsOf, AddressesOf, LocksInPlace, NewDefaultsInPlace,
        OneNewDefault, ClaimsLockOldDefault, AtMostOneDefault
<1> QED
    BY <1>1, <1>2 DEF Next

\* The one who claims the default holds the lock of the row that has it still.
LEMMA ClaimsLockStep ==
    ASSUME TypeOK, RequestsInPlace, MergedInPlace, OwnersKept, LocksInPlace,
           NewDefaultsInPlace, OneNewDefault, OneClaim, AtMostOneDefault,
           ClaimsLockOldDefault, [Next]_vars
    PROVE  ClaimsLockOldDefault'
<1> USE DEF TypeOK, TableTypeOK, ClaimsLockOldDefault
<1>1. ASSUME NEW c \in Conn,
             (\E r \in Inputs : Begin(c, r)) \/ Proceed(c) \/ Cancel(c) \/ LoseCommit(c)
      PROVE  ClaimsLockOldDefault'
    <2>1. CASE EarlyStep(c)
        BY <2>1
        DEF EarlyStep, tableVars, Claims, DefaultsOf, AddressesOf, LocksInPlace,
            NewDefaultsInPlace, OneNewDefault, OneClaim, AtMostOneDefault
    <2>2. CASE GiveUpStep(c)
        BY <2>2
        DEF GiveUpStep, Claims, DefaultsOf, AddressesOf, LocksInPlace,
            NewDefaultsInPlace, OneNewDefault, OneClaim, AtMostOneDefault
    <2>3. CASE ClaimStep(c)
        <3>1. UNCHANGED <<table, draft, lockedBy>>
            BY <2>3 DEF ClaimStep
        <3> QED
            BY <2>3, <3>1, EntryTakesOver, NoConnAssumption
            DEF DefaultsOf, AddressesOf
    <2>4. CASE UnsetStep(c)
        <3>1. CASE UNCHANGED tableVars
            BY <2>4, <3>1
            DEF UnsetStep, tableVars, Claims, DefaultsOf, AddressesOf, LocksInPlace,
                NewDefaultsInPlace, OneNewDefault, OneClaim, AtMostOneDefault
        <3>2. ASSUME NEW i \in AddressId, NEW s, s = [draft[i] EXCEPT !.isDefault = FALSE],
                     Live(draft[i]), Write(c, i, s)
              PROVE  ClaimsLockOldDefault'
            <4>1. /\ s \in Row
                  /\ s.owner = draft[i].owner
                  /\ ~ s.isDefault
                BY <3>2, DemotedRow
            <4> QED
                BY <2>4, <3>2, <4>1, LiveIsRow, NoConnAssumption, SlotAssumption
                DEF UnsetStep, Write, Lockable, Claims, DefaultsOf, AddressesOf,
                    LocksInPlace, NewDefaultsInPlace, OneNewDefault, OneClaim,
                    AtMostOneDefault
        <3> QED  BY <2>4, <3>1, <3>2 DEF UnsetStep
    <2>5. CASE InsertStep(c)
        BY <2>5, NoConnAssumption, SlotAssumption
        DEF InsertStep, Write, Lockable, Claims, DefaultsOf, AddressesOf,
            LocksInPlace, NewDefaultsInPlace, OneNewDefault, OneClaim,
            AtMostOneDefault
    <2>6. CASE WriteStep(c)
        <3>1. \A u \in User : \A i \in Claims(u)' : i \in Claims(u) /\ lockedBy[i] # c
            BY <2>6, WriteKeepsClaims
        <3>2. \A u \in User : DefaultsOf(table, u)' = DefaultsOf(table, u)
            BY <2>6 DEF WriteStep, Write, tableVars, DefaultsOf, AddressesOf
        <3>3. \A j \in AddressId : lockedBy[j] \notin {NoConn, c} => lockedBy'[j] = lockedBy[j]
            BY <2>6 DEF WriteStep, Write, Lockable, tableVars
        <3> QED
            BY <3>1, <3>2, <3>3 DEF Claims, DefaultsOf, AddressesOf
    <2>7. CASE DeleteStep(c)
        <3>1. \A u \in User : \A i \in Claims(u)' : i \in Claims(u) /\ lockedBy[i] # c
            BY <2>7, WriteKeepsClaims
        <3>2. \A u \in User : DefaultsOf(table, u)' = DefaultsOf(table, u)
            BY <2>7 DEF DeleteStep, Write, tableVars, DefaultsOf, AddressesOf
        <3>3. \A j \in AddressId : lockedBy[j] \notin {NoConn, c} => lockedBy'[j] = lockedBy[j]
            BY <2>7 DEF DeleteStep, Write, Lockable, tableVars
        <3> QED
            BY <3>1, <3>2, <3>3 DEF Claims, DefaultsOf, AddressesOf
    <2>8. CASE CommitStep(c)
        BY <2>8, NoConnAssumption
        DEF CommitStep, CommitWork, Seen, Claims, DefaultsOf, AddressesOf,
            LocksInPlace, NewDefaultsInPlace, OneNewDefault, OneClaim,
            AtMostOneDefault
    <2>9. CASE UndoStep(c)
        BY <2>9, NoConnAssumption
        DEF UndoStep, UndoWork, Claims, DefaultsOf, AddressesOf, LocksInPlace,
            NewDefaultsInPlace, OneNewDefault, OneClaim, AtMostOneDefault
    <2> QED
        BY <1>1, <2>1, <2>2, <2>3, <2>4, <2>5, <2>6, <2>7, <2>8, <2>9, StepKinds
        DEF RowStep
<1>2. CASE UNCHANGED vars
    BY <1>2
    DEF vars, Claims, DefaultsOf, AddressesOf, LocksInPlace, NewDefaultsInPlace,
        OneNewDefault, OneClaim, AtMostOneDefault
<1> QED
    BY <1>1, <1>2 DEF Next

\* The committed rows change with a commit, and what it commits was claimed.
LEMMA AtMostOneStep ==
    ASSUME TypeOK, RequestsInPlace, LocksInPlace, NewDefaultsInPlace, OneNewDefault,
           ClaimsLockOldDefault, AtMostOneDefault, [Next]_vars
    PROVE  AtMostOneDefault'
<1>1. ASSUME NEW c \in Conn, CommitStep(c)
      PROVE  AtMostOneDefault'
    BY <1>1, NoConnAssumption
    DEF CommitStep, CommitWork, Seen, TypeOK, TableTypeOK, Claims, DefaultsOf,
        AddressesOf,
        OneNewDefault, ClaimsLockOldDefault, AtMostOneDefault
<1>2. CASE table' = table
    BY <1>2 DEF AtMostOneDefault, DefaultsOf, AddressesOf
<1>3. ASSUME NEW c \in Conn, RowStep(c), ~ CommitStep(c)
      PROVE  table' = table
    BY <1>3
    DEF RowStep, EarlyStep, GiveUpStep, ClaimStep, UnsetStep, InsertStep, WriteStep,
                DeleteStep, UndoStep, UndoWork, Write, tableVars
<1> QED
    BY <1>1, <1>2, <1>3, StepKinds DEF Next, vars

\* Before its first write a transaction sees the committed rows.
LEMMA SeesCommitted ==
    ASSUME TypeOK, LocksInPlace, NEW c \in Conn,
           pc[c] \in {"count", "fetch", "unset", "countOthers"}
    PROVE  Seen(c) = table
<1>1. \A i \in AddressId : lockedBy[i] # c
    BY NoConnAssumption DEF LocksInPlace
<1> QED
    BY <1>1 DEF Seen, TypeOK, TableTypeOK

\* The row of a fetched address belongs to the caller until it is deleted.
LEMMA FetchedStays ==
    ASSUME TypeOK, RequestsInPlace, OwnersKept, [Next]_vars,
           NEW i \in AddressId, NEW u \in User,
           table[i] = Gone \/ i \in AddressesOf(table, u)
    PROVE  table'[i] = Gone \/ i \in AddressesOf(table', u)
<1>1. CASE table' = table
    BY <1>1
<1>2. ASSUME NEW c \in Conn, CommitStep(c)
      PROVE  table'[i] \in {table[i], draft[i]}
    BY <1>2 DEF CommitStep, CommitWork, Seen
<1>3. ASSUME NEW c \in Conn, RowStep(c), ~ CommitStep(c)
      PROVE  table' = table
    BY <1>3
    DEF RowStep, EarlyStep, GiveUpStep, ClaimStep, UnsetStep, InsertStep, WriteStep,
                DeleteStep, UndoStep, UndoWork, Write, tableVars
<1>4. table'[i] \in {table[i], draft[i]}
    BY <1>2, <1>3, StepKinds DEF Next, vars
<1> QED
    BY <1>4, SlotAssumption DEF AddressesOf, OwnersKept, Live

\* The merged row is made for the caller, from a row of the caller.
LEMMA MergedStep ==
    ASSUME TypeOK, RequestsInPlace, OwnersKept, LocksInPlace, MergedInPlace,
           [Next]_vars
    PROVE  MergedInPlace'
<1> USE DEF TypeOK
<1> DEFINE Written == {"unset", "unsetRow", "insert", "write"}
           Good(d) == pc[d] \in Written =>
                        /\ merged[d] \in Row
                        /\ merged[d].owner = req[d].user
                        /\ req[d].op = "update" =>
                             table[req[d].id] = Gone \/ req[d].id \in AddressesOf(table, req[d].user)
<1>1. ASSUME NEW d \in Conn, pc[d] \in Written, merged'[d] = merged[d], req'[d] = req[d]
      PROVE  Good(d)'
    <2>1. req[d] \in Inputs
        BY <1>1 DEF RequestsInPlace
    <2>2. CASE req[d].op = "update"
        <3>1. req[d].id \in AddressId /\ req[d].user \in User
            BY <2>1, <2>2, RequestFields
        <3>2. table'[req[d].id] = Gone \/ req[d].id \in AddressesOf(table', req[d].user)
            BY <1>1, <2>2, <3>1, FetchedStays DEF MergedInPlace
        <3> QED
            BY <1>1, <3>2 DEF MergedInPlace
    <2>3. CASE req[d].op # "update"
        BY <1>1, <2>3 DEF MergedInPlace
    <2> QED  BY <2>2, <2>3
<1>2. ASSUME NEW c \in Conn, NEW d \in Conn \ {c},
             (\E r \in Inputs : Begin(c, r)) \/ Proceed(c) \/ Cancel(c) \/ LoseCommit(c)
      PROVE  pc'[d] = pc[d] /\ merged'[d] = merged[d] /\ req'[d] = req[d]
    BY <1>2
    DEF Begin, Proceed, CheckCap, ScanDefault, UnsetRow, InsertAddress,
        FetchForUpdate, WriteMerged,
        FetchForDelete, CheckLast, DeleteRow, EnterIndex, UniqueViolation, BreakDeadlock, Commit, Rollback,
        SettleLost, Cancel, LoseCommit, Refuse, Abort, Finish, Reads, Goto
<1>3. ASSUME NEW c \in Conn,
             (\E r \in Inputs : Begin(c, r)) \/ Proceed(c) \/ Cancel(c) \/ LoseCommit(c)
      PROVE  Good(c)'
    <2>1. CASE CheckCap(c)
        <3>1. CASE Refuse(c, 400)
            BY <3>1 DEF Refuse, Goto
        <3>2. CASE ~ CapReached(c)
            <4>1. req[c] \in Inputs /\ req[c].op = "create"
                BY <2>1 DEF CheckCap, RequestsInPlace
            <4>2. NewRow(req[c]) \in Row /\ NewRow(req[c]).owner = req[c].user
                BY <4>1, RequestFields DEF NewRow, Row
            <4> QED
                BY <2>1, <3>2, <4>1, <4>2 DEF CheckCap, Reads
        <3> QED  BY <2>1, <3>1, <3>2 DEF CheckCap
    <2>2. CASE FetchForUpdate(c)
        <3> DEFINE r == req[c]
        <3>1. CASE ~ GetFinds(c, r.id, r.user)
            BY <2>2, <3>1 DEF FetchForUpdate, Refuse, Goto
        <3>2. CASE GetFinds(c, r.id, r.user)
            <4>1. r \in Inputs /\ r.op = "update"
                BY <2>2 DEF FetchForUpdate, RequestsInPlace
            <4>2. Seen(c) = table
                BY <2>2, SeesCommitted DEF FetchForUpdate
            <4>3. table[r.id] \in Row /\ table[r.id].owner = r.user /\ r.id \in AddressesOf(table, r.user)
                BY <3>2, <4>2, LiveIsRow DEF GetFinds, AddressesOf, TableTypeOK
            <4>4. Merge(table[r.id], r) \in Row /\ Merge(table[r.id], r).owner = r.user
                BY <4>1, <4>3, RequestFields DEF Merge, Row
            <4> QED
                BY <2>2, <3>2, <4>2, <4>3, <4>4 DEF FetchForUpdate, Reads
        <3> QED  BY <3>1, <3>2
    <2>3. CASE ScanDefault(c) \/ UnsetRow(c)
        <3>1. pc[c] \in Written /\ merged'[c] = merged[c] /\ req'[c] = req[c]
            BY <2>3 DEF ScanDefault, UnsetRow
        <3> QED
            BY <1>1, <3>1
    <2>4. CASE pc'[c] \notin Written
        BY <2>4
    <2> QED
        BY <1>3, <2>1, <2>2, <2>3, <2>4
        DEF Begin, FirstStatement, Proceed, InsertAddress, WriteMerged,
            FetchForDelete, CheckLast, DeleteRow,
            EnterIndex, UniqueViolation, BreakDeadlock, Commit, Rollback, SettleLost, Cancel,
            LoseCommit, Refuse, Abort, Finish, Reads, Goto
<1>4. \A d \in Conn : Good(d)'
    BY <1>1, <1>2, <1>3 DEF Next, vars
<1> QED
    BY <1>4 DEF MergedInPlace

----------------------------------------------------------------------------
(* The inductive invariant of the default.                                 *)

\* The inductive invariant holds before the first request.
LEMMA DefaultInvInit == Init => DefaultInv
<1> SUFFICES ASSUME Init
             PROVE  DefaultInv
    OBVIOUS
<1> USE DEF Init
<1>1. TypeOK
    BY InitialTablesAssumption DEF TypeOK, TableTypeOK, Running, Slot
<1>2. AtMostOneDefault
    BY InitialTablesAssumption DEF AtMostOneDefault
<1>3. \A u \in User : Claims(u) = DefaultsOf(table, u)
    BY DEF Claims, DefaultsOf, AddressesOf
<1>4. OneClaim /\ ClaimsLockOldDefault
    BY <1>2, <1>3 DEF OneClaim, ClaimsLockOldDefault, AtMostOneDefault
<1>5. OwnersKept
    BY DEF OwnersKept
<1> QED
    BY <1>1, <1>2, <1>4, <1>5
    DEF DefaultInv, RequestsInPlace, MergedInPlace, LocksInPlace,
        NewDefaultsInPlace, OneNewDefault,
        DefaultsOf, AddressesOf

\* Every step keeps the inductive invariant.
LEMMA DefaultInvStep == DefaultInv /\ [Next]_vars => DefaultInv'
BY TypeStep, RequestsStep, MergedStep, OwnersStep, LocksStep, NewDefaultsStep,
   OneNewDefaultStep,
   OneClaimStep, ClaimsLockStep, AtMostOneStep
DEF DefaultInv

\* The inductive invariant of the default: requests, owners, locks and claims
\* stay in place at every statement of every operation.
THEOREM DefaultInvHolds == Spec => []DefaultInv
<1>1. Init => DefaultInv
    BY DefaultInvInit
<1>2. DefaultInv /\ [Next]_vars => DefaultInv'
    BY DefaultInvStep
<1> QED
    BY <1>1, <1>2, PTL DEF Spec

\* Every variable keeps its type, however requests interleave and fail.
THEOREM TypeCorrect == Spec => []TypeOK
<1>1. DefaultInv => TypeOK
    BY DEF DefaultInv
<1> QED
    BY <1>1, DefaultInvHolds, PTL

\* No user ever has two committed defaults, for any number of connections,
\* users, addresses and requests: the unique index and the order of the
\* statements suffice.
THEOREM OneDefaultAtMost == Spec => []AtMostOneDefault
<1>1. DefaultInv => AtMostOneDefault
    BY DEF DefaultInv
<1> QED
    BY <1>1, DefaultInvHolds, PTL

\* A connection that is back in the pool has left no lock and no uncommitted
\* row in the table.
THEOREM NothingIsLeftBehind == Spec => []NothingLeftBehind
<1>1. DefaultInv => NothingLeftBehind
    BY DEF DefaultInv, LocksInPlace, NothingLeftBehind
<1> QED
    BY <1>1, DefaultInvHolds, PTL

----------------------------------------------------------------------------
(* The cap.                                                                *)

\* A transaction inserts one row at most, and only to create an address.
LEMMA OneNewRowStep ==
    ASSUME DefaultInv, OneNewRow, [Next]_vars
    PROVE  OneNewRow'
<1> USE DEF DefaultInv, TypeOK, TableTypeOK, OneNewRow
<1>1. ASSUME NEW c \in Conn, RowStep(c)
      PROVE  OneNewRow'
    <2>1. CASE EarlyStep(c)
        BY <2>1, NoConnAssumption DEF EarlyStep, tableVars, LocksInPlace
    <2>2. CASE GiveUpStep(c)
        BY <2>2 DEF GiveUpStep
    <2>3. CASE ClaimStep(c)
        BY <2>3 DEF ClaimStep, EnterIndex
    <2>4. ASSUME NEW i \in AddressId, NEW s, Write(c, i, s), table[i] # Unborn, UNCHANGED req,
                 pc' = [pc EXCEPT ![c] = pc'[c]],
                 pc[c] \in {"unsetRow", "write", "delete"}
          PROVE  OneNewRow'
        BY <2>4, NoConnAssumption DEF Write
    <2>5. CASE UnsetStep(c)
        <3>1. CASE UNCHANGED tableVars
            BY <2>5, <3>1 DEF UnsetStep, tableVars
        <3>2. CASE ~ UNCHANGED tableVars
            <4>1. PICK i \in AddressId : Live(draft[i]) /\ Write(c, i, [draft[i] EXCEPT !.isDefault = FALSE])
                BY <2>5, <3>2 DEF UnsetStep
            <4>2. table[i] # Unborn
                BY <2>5, <4>1, NoConnAssumption
                DEF UnsetStep, Write, Lockable, Live, LocksInPlace
            <4> QED  BY <2>4, <2>5, <4>1, <4>2 DEF UnsetStep
        <3> QED  BY <3>1, <3>2
    <2>6. CASE InsertStep(c)
        <3>1. req[c].op = "create" /\ merged[c].owner = req[c].user
            BY <2>6 DEF InsertStep, RequestsInPlace, MergedInPlace
        <3> QED
            BY <2>6, <3>1, NoConnAssumption DEF InsertStep, Write, Lockable
    <2>7. CASE WriteStep(c)
        <3>1. table[req[c].id] # Unborn
            BY <2>7, SlotAssumption
            DEF WriteStep, MergedInPlace, RequestsInPlace, AddressesOf, Live
        <3> QED
            BY <2>4, <2>7, <3>1 DEF WriteStep
    <2>8. CASE DeleteStep(c)
        <3>1. CASE UNCHANGED tableVars
            BY <2>8, <3>1, NoConnAssumption DEF DeleteStep, tableVars
        <3>2. CASE Live(draft[req[c].id]) /\ Write(c, req[c].id, Gone)
            <4>1. table[req[c].id] # Unborn
                BY <2>8, <3>2, NoConnAssumption
                DEF DeleteStep, Write, Lockable, Live, LocksInPlace
            <4> QED
                BY <2>4, <2>8, <3>2, <4>1 DEF DeleteStep
        <3> QED  BY <2>8, <3>1, <3>2 DEF DeleteStep
    <2>9. CASE CommitStep(c)
        BY <2>9, NoConnAssumption DEF CommitStep, CommitWork, Seen
    <2>10. CASE UndoStep(c)
        BY <2>10, NoConnAssumption DEF UndoStep, UndoWork
    <2> QED
        BY <1>1, <2>1, <2>2, <2>3, <2>5, <2>6, <2>7, <2>8, <2>9, <2>10
        DEF RowStep
<1>2. CASE UNCHANGED vars
    BY <1>2 DEF vars
<1> QED
    BY <1>1, <1>2, StepKinds DEF Next

\* The only rows a commit adds are the new rows of its connection.
LEMMA CommitAdds ==
    ASSUME DefaultInv, OneNewRow, NEW c \in Conn, CommitStep(c), NEW u \in User,
           NEW i \in AddressesOf(table', u), i \notin AddressesOf(table, u)
    PROVE  /\ lockedBy[i] = c /\ table[i] = Unborn
           /\ req[c].op = "create" /\ req[c].user = u
<1> USE DEF DefaultInv, TypeOK, TableTypeOK, AddressesOf
<1>1. lockedBy[i] = c /\ table'[i] = draft[i] /\ Live(draft[i]) /\ draft[i].owner = u
    BY DEF CommitStep, CommitWork, Seen
<1>2. table[i] # Gone /\ (Live(table[i]) => table[i].owner = u)
    BY <1>1 DEF OwnersKept, Live
<1>3. table[i] = Unborn
    BY <1>2 DEF Live
<1> QED
    BY <1>1, <1>3, NoConnAssumption DEF OneNewRow

\* The addresses and the creations of a user are finite: their number is a
\* natural number.
LEMMA FiniteParts ==
    ASSUME NEW rows, NEW u
    PROVE  /\ IsFiniteSet(AddressesOf(rows, u)) /\ Cardinality(AddressesOf(rows, u)) \in Nat
           /\ IsFiniteSet(Creating(u)) /\ Cardinality(Creating(u)) \in Nat
           /\ Cardinality(Creating(u)) <= Cardinality(Conn)
           /\ Cardinality(Conn) \in Nat
<1>1. AddressesOf(rows, u) \subseteq AddressId /\ Creating(u) \subseteq Conn
    BY DEF AddressesOf, Creating
<1> QED
    BY <1>1, FiniteAssumption, FS_Subset, FS_CardinalityType

\* A creation is counted from the moment it passes the check of the cap.
LEMMA CreatingGrows ==
    ASSUME DefaultInv, NEW c \in Conn, NEW u \in User,
           (\E r \in Inputs : Begin(c, r)) \/ Proceed(c) \/ Cancel(c) \/ LoseCommit(c),
           ~ (Creating(u)' \subseteq Creating(u))
    PROVE  /\ table' = table
           /\ Cardinality(AddressesOf(table, u)) < MaxAddresses
<1> USE DEF DefaultInv, TypeOK, TableTypeOK
<1>1. PICK d \in Conn : d \in Creating(u)' /\ d \notin Creating(u)
    BY DEF Creating
<1>2. CASE CheckCap(c)
    <2>1. ~ CapReached(c) /\ table' = table
        BY <1>1, <1>2 DEF CheckCap, Reads, Refuse, Goto, Creating
    <2>2. req[c].user = u
        BY <1>1, <1>2, <2>1 DEF CheckCap, Reads, Goto, Creating
    <2>3. Seen(c) = table
        BY <1>2, SeesCommitted DEF CheckCap
    <2>4. Cardinality(AddressesOf(table, u)) \in Nat /\ MaxAddresses \in Nat
        BY FiniteParts, CapAssumption
    <2> QED
        BY <2>1, <2>2, <2>3, <2>4 DEF CapReached, CountAddressesByUser
<1>3. CASE ~ CheckCap(c)
    <2>1. ASSUME NEW r \in Inputs, Begin(c, r)
          PROVE  FALSE
        BY <1>1, <2>1 DEF Begin, FirstStatement, Goto, Creating
    <2>2. CASE Cancel(c) \/ LoseCommit(c)
        BY <1>1, <2>2 DEF Cancel, LoseCommit, Refuse, Goto, Creating
    <2>3. CASE Proceed(c)
        <3>1. CASE FetchForUpdate(c) \/ FetchForDelete(c) \/ CheckLast(c)
            BY <1>1, <3>1
            DEF FetchForUpdate, FetchForDelete, CheckLast, Reads, Refuse, Goto,
                Creating, RequestsInPlace
        <3>2. CASE ScanDefault(c) \/ UnsetRow(c) \/ InsertAddress(c) \/ EnterIndex(c)
            BY <1>1, <3>2
            DEF ScanDefault, UnsetRow, InsertAddress, EnterIndex, AfterUnset, Goto,
                Creating
        <3>3. CASE WriteMerged(c) \/ DeleteRow(c)
            BY <1>1, <3>3
            DEF WriteMerged, DeleteRow, Refuse, Goto, Creating, RequestsInPlace
        <3>4. CASE Finish(c)
            BY <1>1, <3>4 DEF Finish, Goto, Creating
        <3> QED
            BY <1>3, <2>3, <3>1, <3>2, <3>3, <3>4
            DEF Proceed, UniqueViolation, BreakDeadlock, Abort, Commit, Rollback,
                SettleLost
    <2> QED  BY <2>1, <2>2, <2>3
<1> QED
    BY <1>2, <1>3

\* Every step keeps the addresses and the counted creations of a user within
\* the cap and the connections that overlap.
LEMMA CreationsStep ==
    ASSUME DefaultInv, OneNewRow, CreationsCounted, [Next]_vars
    PROVE  CreationsCounted'
<1> SUFFICES ASSUME NEW u \in User
             PROVE  Cardinality(AddressesOf(table', u)) + Cardinality(Creating(u)')
                      <= MaxAddresses - 1 + Cardinality(Conn)
    BY DEF CreationsCounted, AddressesOf
<1> DEFINE A == AddressesOf(table, u)
           B == AddressesOf(table', u)
           C == Creating(u)
           D == Creating(u)'
<1> HIDE DEF A, B, C, D
<1>1. /\ IsFiniteSet(A) /\ IsFiniteSet(B) /\ IsFiniteSet(C) /\ IsFiniteSet(D)
      /\ Cardinality(A) \in Nat /\ Cardinality(B) \in Nat
      /\ Cardinality(C) \in Nat /\ Cardinality(D) \in Nat
      /\ Cardinality(D) <= Cardinality(Conn) /\ Cardinality(Conn) \in Nat
    <2>1. D \subseteq Conn
        BY DEF D, Creating
    <2> QED
        BY <2>1, FiniteParts, FiniteAssumption, FS_Subset, FS_CardinalityType
        DEF A, B, C
<1>2. Cardinality(A) + Cardinality(C) <= MaxAddresses - 1 + Cardinality(Conn)
    BY DEF CreationsCounted, A, C
<1>3. MaxAddresses \in Nat
    BY CapAssumption
<1>4. CASE B \subseteq A /\ D \subseteq C
    <2>1. Cardinality(B) <= Cardinality(A) /\ Cardinality(D) <= Cardinality(C)
        BY <1>1, <1>4, FS_Subset
    <2> QED
        BY <1>1, <1>2, <1>3, <2>1 DEF B, D
<1>5. ASSUME NEW c \in Conn,
             (\E r \in Inputs : Begin(c, r)) \/ Proceed(c) \/ Cancel(c) \/ LoseCommit(c)
      PROVE  Cardinality(B) + Cardinality(D) <= MaxAddresses - 1 + Cardinality(Conn)
    <2>1. CASE ~ (D \subseteq C)
        <3>1. Cardinality(B) < MaxAddresses
            BY <1>5, <2>1, CreatingGrows DEF B, C, D
        <3> QED
            BY <1>1, <1>3, <3>1
    <2>2. CASE ~ (B \subseteq A)
        <3>1. CommitStep(c)
            <4>1. table' # table
                BY <2>2 DEF A, B
            <4>2. RowStep(c)
                BY <1>5, StepKinds DEF DefaultInv
            <4> QED
                BY <4>1, <4>2
                DEF RowStep, EarlyStep, GiveUpStep, ClaimStep, UnsetStep,
                    InsertStep, WriteStep,
                    DeleteStep, UndoStep, UndoWork, Write, tableVars
        <3>2. PICK i \in B : i \notin A
            BY <2>2
        <3>3. lockedBy[i] = c /\ table[i] = Unborn /\ req[c].op = "create" /\ req[c].user = u
            BY <3>1, <3>2, CommitAdds DEF A, B
        <3>4. B \subseteq A \cup {i}
            <4>1. ASSUME NEW j \in B, j \notin A
                  PROVE  j = i
                <5>1. lockedBy[j] = c /\ table[j] = Unborn
                    BY <3>1, <4>1, CommitAdds DEF A, B
                <5>2. i \in AddressId /\ j \in AddressId
                    BY <3>2, <4>1 DEF B, AddressesOf
                <5> QED
                    BY <3>3, <5>1, <5>2, NoConnAssumption DEF OneNewRow
            <4> QED  BY <4>1
        <3>5. c \in C
            BY <3>1, <3>3 DEF C, Creating, CommitStep
        <3>6. D \subseteq C \ {c}
            BY <3>1 DEF C, D, Creating, CommitStep, DefaultInv, TypeOK
        <3>7. Cardinality(B) <= Cardinality(A) + 1
            <4>1. IsFiniteSet(A \cup {i}) /\ Cardinality(A \cup {i}) = Cardinality(A) + 1
                BY <1>1, <3>2, FS_AddElement
            <4> QED  BY <3>4, <4>1, FS_Subset
        <3>8. Cardinality(D) <= Cardinality(C) - 1
            <4>1. IsFiniteSet(C \ {c}) /\ Cardinality(C \ {c}) = Cardinality(C) - 1
                BY <1>1, <3>5, FS_RemoveElement
            <4> QED  BY <3>6, <4>1, FS_Subset
        <3> QED
            BY <1>1, <1>2, <1>3, <3>7, <3>8
    <2> QED  BY <1>4, <2>1, <2>2 DEF B, D
<1>6. CASE UNCHANGED vars
    <2>1. B = A /\ D = C
        BY <1>6 DEF A, B, C, D, vars, Creating
    <2> QED
        BY <1>2, <2>1 DEF B, D
<1> QED
    BY <1>5, <1>6 DEF Next, B, D

\* The inductive invariant of the cap: what is counted, what is being created
\* and what is new in each transaction stay in step.
THEOREM CapInvHolds == Spec => []CapInv
<1>1. Init => CapInv
    <2> SUFFICES ASSUME Init
                 PROVE  CapInv
        OBVIOUS
    <2>1. OneNewRow
        BY DEF Init, OneNewRow
    <2>2. CreationsCounted
        <3> SUFFICES ASSUME NEW u \in User
                     PROVE  Cardinality(AddressesOf(table, u)) + Cardinality(Creating(u))
                              <= MaxAddresses - 1 + Cardinality(Conn)
            BY DEF CreationsCounted
        <3>1. Creating(u) = {}
            BY DEF Init, Creating
        <3>2. Cardinality(Creating(u)) = 0
            BY <3>1, FS_EmptySet
        <3>3. Cardinality(AddressesOf(table, u)) <= MaxAddresses - 1 + Cardinality(Conn)
            BY InitialSizeAssumption DEF Init
        <3> QED
            BY <3>2, <3>3, FiniteParts, CapAssumption
    <2> QED
        BY <2>1, <2>2, DefaultInvInit DEF CapInv
<1>2. CapInv /\ [Next]_vars => CapInv'
    BY DefaultInvStep, OneNewRowStep, CreationsStep DEF CapInv
<1> QED
    BY <1>1, <1>2, PTL DEF Spec

\* Overlapping creations pass the cap by fewer addresses than the pool has
\* connections: what the count before the insert guarantees, and all it does.
THEOREM CapBoundedByPool == Spec => []AddressesBoundedByPool
<1>1. CapInv => AddressesBoundedByPool
    <2> SUFFICES ASSUME CapInv, NEW u \in User
                 PROVE  Cardinality(AddressesOf(table, u)) <= MaxAddresses - 1 + Cardinality(Conn)
        BY DEF AddressesBoundedByPool
    <2> QED
        BY FiniteParts, CapAssumption DEF CapInv, CreationsCounted
<1> QED
    BY <1>1, CapInvHolds, PTL

\* With one connection the cap of constants.go holds: the overlap of requests is
\* all that breaks it.
THEOREM CapHoldsSerially == Cardinality(Conn) = 1 => (Spec => []CapRespected)
<1> SUFFICES ASSUME Cardinality(Conn) = 1
             PROVE  Spec => []CapRespected
    OBVIOUS
<1>1. AddressesBoundedByPool => CapRespected
    <2> SUFFICES ASSUME AddressesBoundedByPool, NEW u \in User
                 PROVE  Cardinality(AddressesOf(table, u)) <= MaxAddresses
        BY DEF CapRespected
    <2>1. Cardinality(AddressesOf(table, u)) <= MaxAddresses - 1 + 1
        BY DEF AddressesBoundedByPool
    <2> QED
        BY <2>1, FiniteParts, CapAssumption
<1> QED
    BY <1>1, CapBoundedByPool, PTL

=============================================================================
