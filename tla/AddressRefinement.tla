------------------------- MODULE AddressRefinement -------------------------
(***************************************************************************)
(* AddressRepository implements AddressBook: however requests overlap,     *)
(* every one of them keeps the promise made for overlapping requests.      *)
(*                                                                         *)
(* A request takes effect when its transaction commits, and what it then   *)
(* changes was written one row at a time before.  The argument is about    *)
(* what each transaction has drafted so far: before its own row it has     *)
(* only taken the default away from rows of its caller, and once it may    *)
(* commit its drafts are the whole effect of its request.                  *)
(***************************************************************************)
EXTENDS AddressProofs

----------------------------------------------------------------------------
(* What the transaction of connection c has done so far.                   *)

\* The rows it has written.
Held(c) == {i \in AddressId : lockedBy[i] = c}

Demoted(s) == [s EXCEPT !.isDefault = FALSE]

\* Its draft of row j is the committed row, without the default at most.
Displaces(c, j) ==
    \/ draft[j] = table[j]
    \/ /\ req[c].isDefault
       /\ j \in DefaultsOf(table, req[c].user)
       /\ draft[j] = Demoted(table[j])

\* The row of an update has what the request sent.
HasWhatWasSent(row, r) ==
    /\ r.label # Omitted => row.label = r.label
    /\ r.isDefault => row.isDefault

\* Row i is the caller's, or was until it was deleted.
OfCaller(c, i) == table[i] = Gone \/ i \in AddressesOf(table, req[c].user)

\* Its request is undecided until it is refused, commits or is lost.
AnswerInPlace(c) ==
    /\ pc[c] \in Statement => answer[c] = 0
    /\ pc[c] = "lost" => answer[c] = 500
    /\ pc[c] = "idle" => req[c] = NoRequest

\* The row to write is the one that was asked for.
MergedAsSent(c) ==
    /\ pc[c] \in {"unset", "unsetRow", "insert"} /\ req[c].op = "create"
         => merged[c] = NewRow(req[c])
    /\ pc[c] \in {"unset", "unsetRow", "write"} /\ req[c].op = "update"
         => HasWhatWasSent(merged[c], req[c])

\* The rows it is about to change are the caller's.
TargetsInPlace(c) ==
    /\ pc[c] \in {"unset", "unsetRow"} => req[c].isDefault
    /\ pc[c] = "unsetRow" => \A j \in matched[c] : OfCaller(c, j)
    /\ pc[c] \in {"countOthers", "delete"} => OfCaller(c, req[c].id)

\* Before its own row it has only displaced defaults.
OnlyDisplaces(c) ==
    pc[c] \in {"unsetRow", "insert", "write"} => \A j \in Held(c) : Displaces(c, j)

\* Its drafts are the effect of its request, once it may commit.
CreateDrafted(c) ==
    \E i \in Held(c) :
        /\ table[i] = Unborn
        /\ draft[i] = NewRow(req[c])
        /\ \A j \in Held(c) \ {i} : Displaces(c, j)

UpdateDrafted(c) ==
    LET i == req[c].id IN
        /\ i \in Held(c)
        /\ i \in AddressesOf(table, req[c].user)
        /\ draft[i] \in Row
        /\ draft[i].owner = req[c].user
        /\ HasWhatWasSent(draft[i], req[c])
        /\ \A j \in Held(c) \ {i} : Displaces(c, j)

DeleteDrafted(c) ==
    LET i == req[c].id IN
        \/ Held(c) = {i} /\ draft[i] = Gone /\ i \in AddressesOf(table, req[c].user)
        \/ Held(c) = {} /\ table[i] = Gone

EffectInPlace(c) ==
    pc[c] \in {"index", "commit", "lost"} =>
        /\ req[c].op = "create" => CreateDrafted(c)
        /\ req[c].op = "update" => UpdateDrafted(c)
        /\ req[c].op = "delete" => DeleteDrafted(c)

Underway(c) ==
    /\ AnswerInPlace(c)
    /\ MergedAsSent(c)
    /\ TargetsInPlace(c)
    /\ OnlyDisplaces(c)
    /\ EffectInPlace(c)

PromiseInv == DefaultInv /\ \A c \in Conn : Underway(c)

----------------------------------------------------------------------------
(* A step moves one connection: the others keep what they hold.            *)

StepOf(c) ==
    (\E r \in Inputs : Begin(c, r)) \/ Proceed(c) \/ Cancel(c) \/ LoseCommit(c)

\* The connections a step does not move keep their place.
LEMMA BystanderStays ==
    ASSUME TypeOK, NEW c \in Conn, StepOf(c), NEW d \in Conn \ {c}
    PROVE  /\ pc'[d] = pc[d] /\ req'[d] = req[d] /\ merged'[d] = merged[d]
           /\ matched'[d] = matched[d] /\ answer'[d] = answer[d]
BY DEF TypeOK, StepOf, Begin, Proceed, CheckCap, ScanDefault, UnsetRow, InsertAddress,
       FetchForUpdate, WriteMerged, FetchForDelete, CheckLast, DeleteRow, EnterIndex,
       UniqueViolation, BreakDeadlock, Commit, Rollback, SettleLost, Cancel, LoseCommit,
       Refuse, Abort, Finish, Reads, Goto

\* They keep the rows they have written, and those rows their versions.
LEMMA BystanderRows ==
    ASSUME TypeOK, RequestsInPlace, NEW c \in Conn, StepOf(c), NEW d \in Conn \ {c}
    PROVE  /\ Held(d)' = Held(d)
           /\ \A j \in Held(d) : draft'[j] = draft[j] /\ table'[j] = table[j]
<1>1. RowStep(c)
    BY StepKinds DEF StepOf
<1> SUFFICES ASSUME NEW j \in AddressId
             PROVE  /\ lockedBy'[j] = d <=> lockedBy[j] = d
                    /\ lockedBy[j] = d => draft'[j] = draft[j] /\ table'[j] = table[j]
    BY DEF Held
<1> USE NoConnAssumption DEF TypeOK, TableTypeOK
<1>2. ASSUME NEW i, NEW s, Write(c, i, s)
      PROVE  /\ lockedBy'[j] = d <=> lockedBy[j] = d
             /\ lockedBy[j] = d => draft'[j] = draft[j] /\ table'[j] = table[j]
    BY <1>2 DEF Write, Lockable
<1>3. ASSUME CommitWork(c) \/ UndoWork(c)
      PROVE  /\ lockedBy'[j] = d <=> lockedBy[j] = d
             /\ lockedBy[j] = d => draft'[j] = draft[j] /\ table'[j] = table[j]
    BY <1>3 DEF CommitWork, UndoWork, Seen
<1>4. CASE UNCHANGED <<table, draft, lockedBy>>
    BY <1>4
<1> QED
    BY <1>1, <1>2, <1>3, <1>4
    DEF RowStep, EarlyStep, GiveUpStep, ClaimStep, UnsetStep, InsertStep, WriteStep,
        DeleteStep, CommitStep, UndoStep, tableVars

\* Only a commit changes the committed rows, and only those its connection wrote.
LEMMA OnlyCommitsChange ==
    ASSUME TypeOK, RequestsInPlace, NEW c \in Conn, StepOf(c)
    PROVE  \/ table' = table
           \/ pc[c] \in {"commit", "lost"} /\ CommitWork(c)
<1>1. RowStep(c)
    BY StepKinds DEF StepOf
<1> QED
    BY <1>1
    DEF RowStep, EarlyStep, GiveUpStep, ClaimStep, UnsetStep, InsertStep, WriteStep,
        DeleteStep, CommitStep, UndoStep, UndoWork, Write, tableVars

\* A transaction that has not written yet holds no row.
LEMMA HoldsNothing ==
    ASSUME LocksInPlace, NEW c \in Conn,
           pc[c] \in {"idle", "count", "fetch", "unset", "countOthers", "delete"}
    PROVE  Held(c) = {}
BY NoConnAssumption DEF LocksInPlace, Held, Running, Statement

\* The request that runs is one of Inputs.
LEMMA RunsARequest ==
    ASSUME TypeOK, RequestsInPlace, NEW c \in Conn, pc[c] # "idle"
    PROVE  req[c] \in Inputs
BY DEF TypeOK, RequestsInPlace

\* The caller's row stays the caller's until it is deleted.
LEMMA OfCallerStays ==
    ASSUME DefaultInv, [Next]_vars, NEW c \in Conn, NEW i \in AddressId,
           req[c] \in Inputs, req'[c] = req[c], OfCaller(c, i)
    PROVE  OfCaller(c, i)'
BY FetchedStays, RequestFields DEF OfCaller, DefaultInv

\* What a connection has done so far stays done while another one moves.
LEMMA BystanderUnderway ==
    ASSUME DefaultInv, NEW c \in Conn, StepOf(c), NEW d \in Conn \ {c}, Underway(d)
    PROVE  Underway(d)'
<1> USE DEF DefaultInv
<1>1. /\ pc'[d] = pc[d] /\ req'[d] = req[d] /\ merged'[d] = merged[d]
      /\ matched'[d] = matched[d] /\ answer'[d] = answer[d]
    BY BystanderStays
<1>2. /\ Held(d)' = Held(d)
      /\ \A j \in Held(d) : draft'[j] = draft[j] /\ table'[j] = table[j]
    BY BystanderRows
<1>3. Held(d) \subseteq AddressId
    BY DEF Held
<1>4. \A j \in Held(d) : Displaces(d, j)' <=> Displaces(d, j)
    BY <1>1, <1>2, <1>3 DEF Displaces, DefaultsOf, AddressesOf
<1>5. ASSUME NEW i \in AddressId, pc[d] # "idle", OfCaller(d, i)
      PROVE  OfCaller(d, i)'
    BY <1>1, <1>5, OfCallerStays, RunsARequest DEF Next, StepOf
<1>6. ASSUME NEW i \in Held(d), NEW u
      PROVE  i \in AddressesOf(table', u) <=> i \in AddressesOf(table, u)
    BY <1>2, <1>3, <1>6 DEF AddressesOf
<1>7. AnswerInPlace(d)' /\ MergedAsSent(d)'
    BY <1>1 DEF Underway, AnswerInPlace, MergedAsSent
<1>8. TargetsInPlace(d)'
    <2>1. \A j \in matched[d] : j \in AddressId
        BY DEF TypeOK
    <2>2. pc[d] \in {"countOthers", "delete"} => req[d].id \in AddressId
        BY RunsARequest, RequestFields DEF RequestsInPlace
    <2> QED
        BY <1>1, <1>5, <2>1, <2>2 DEF Underway, TargetsInPlace
<1>9. OnlyDisplaces(d)'
    BY <1>1, <1>2, <1>4 DEF Underway, OnlyDisplaces
<1>10. ASSUME pc[d] \in {"index", "commit", "lost"}
       PROVE  /\ req[d].op = "create" => CreateDrafted(d)'
              /\ req[d].op = "update" => UpdateDrafted(d)'
              /\ req[d].op = "delete" => DeleteDrafted(d)'
    <2>1. CASE req[d].op = "create"
        BY <1>1, <1>2, <1>4, <1>10, <2>1 DEF Underway, EffectInPlace, CreateDrafted
    <2>2. CASE req[d].op = "update"
        BY <1>1, <1>2, <1>4, <1>6, <1>10, <2>2 DEF Underway, EffectInPlace, UpdateDrafted
    <2>3. CASE req[d].op = "delete"
        <3>1. req[d].id \in AddressId /\ req[d].user \in User
            BY <1>10, <2>3, RunsARequest, RequestFields
        <3>2. DeleteDrafted(d)
            BY <1>10, <2>3 DEF Underway, EffectInPlace
        <3> DEFINE k == req[d].id
        <3>3. CASE Held(d) = {k} /\ draft[k] = Gone /\ k \in AddressesOf(table, req[d].user)
            <4>1. k \in Held(d)
                BY <3>3
            <4>2. draft'[k] = Gone /\ k \in AddressesOf(table', req[d].user)
                BY <3>3, <4>1, <1>2, <1>6
            <4>3. Held(d)' = {k}
                BY <3>3, <1>2
            <4>4. req'[d] = req[d]
                BY <1>1
            <4> QED
                BY <2>3, <4>2, <4>3, <4>4 DEF DeleteDrafted
        <3>4. CASE Held(d) = {} /\ table[k] = Gone
            <4>1. draft[k] = Gone
                BY <3>1, <3>4 DEF OwnersKept
            <4>2. table'[k] = Gone
                BY <3>1, <3>4, <4>1, OnlyCommitsChange DEF CommitWork, Seen
            <4>3. Held(d)' = {}
                BY <3>4, <1>2
            <4>4. req'[d] = req[d]
                BY <1>1
            <4> QED
                BY <2>3, <4>2, <4>3, <4>4 DEF DeleteDrafted
        <3> QED  BY <3>2, <3>3, <3>4 DEF DeleteDrafted
    <2> QED  BY <2>1, <2>2, <2>3
<1>11. EffectInPlace(d)'
    BY <1>1, <1>10 DEF EffectInPlace
<1> QED
    BY <1>7, <1>8, <1>9, <1>11 DEF Underway

----------------------------------------------------------------------------
(* The connection that moves: each statement adds to what is drafted.      *)

\* Demoting a row keeps all of it but the default.
LEMMA DemotedRowIs ==
    ASSUME NEW s \in Row
    PROVE  /\ Demoted(s) \in Row
           /\ Demoted(s).owner = s.owner
           /\ Demoted(s).label = s.label
           /\ Demoted(s).isDefault = FALSE
           /\ s.isDefault = FALSE => Demoted(s) = s
           /\ Demoted(Demoted(s)) = Demoted(s)
BY DEF Demoted, Row

\* Beginning a request, or refusing one, drafts nothing.
LEMMA NothingUnderway ==
    ASSUME TypeOK, NEW c \in Conn,
           \/ pc'[c] = "idle" /\ req'[c] = NoRequest
           \/ pc'[c] = "rollback"
           \/ pc'[c] \in {"count", "fetch"} /\ answer'[c] = 0
    PROVE  Underway(c)'
BY DEF Underway, AnswerInPlace, MergedAsSent, TargetsInPlace, OnlyDisplaces, EffectInPlace,
       Statement

\* A statement that finds a default changes it, and no row but this one.
LEMMA UnsetDisplaces ==
    ASSUME DefaultInv, NEW c \in Conn, Underway(c), UnsetRow(c)
    PROVE  Underway(c)'
<1> USE DEF DefaultInv, TypeOK, TableTypeOK
<1>1. PICK i \in matched[c] : /\ UnsetDefaultAddress(c, i)
                              /\ matched' = [matched EXCEPT ![c] = @ \ {i}]
    BY DEF UnsetRow
<1>2. /\ i \in AddressId
      /\ pc[c] = "unsetRow"
      /\ pc'[c] \in {"unsetRow", AfterUnset(c)}
      /\ req' = req /\ merged' = merged /\ answer' = answer
      /\ table' = table
      /\ \A j \in matched'[c] : j \in matched[c]
    BY <1>1 DEF UnsetRow, UnsetDefaultAddress, Write, tableVars, Goto
<1>3. /\ req[c] \in Inputs
      /\ req[c].user \in User
      /\ req[c].op \in {"create", "update"}
      /\ req[c].isDefault
      /\ OfCaller(c, i)
    BY <1>2, RunsARequest, RequestFields DEF Underway, TargetsInPlace, RequestsInPlace
<1>4. AfterUnset(c) \in {"insert", "write"}
      /\ (AfterUnset(c) = "insert" <=> req[c].op = "create")
    BY DEF AfterUnset
<1>5. \A j \in Held(c)' : Displaces(c, j)'
    <2> SUFFICES ASSUME NEW j \in AddressId, lockedBy'[j] = c
                 PROVE  Displaces(c, j)'
        BY DEF Held
    <2>1. \A k \in Held(c) : Displaces(c, k)
        BY <1>2 DEF Underway, OnlyDisplaces
    <2>2. CASE draft' = draft /\ lockedBy'[j] = lockedBy[j]
        <3>1. Displaces(c, j)
            BY <2>1, <2>2 DEF Held
        <3> QED
            BY <1>2, <2>2, <3>1 DEF Displaces
    <2>3. CASE Write(c, i, Demoted(draft[i])) /\ Lockable(c, i) /\ Live(draft[i])
        <3>1. CASE j # i
            <4>1. lockedBy[j] = c /\ draft'[j] = draft[j]
                BY <2>3, <3>1 DEF Write
            <4>2. Displaces(c, j)
                BY <2>1, <4>1 DEF Held
            <4> QED
                BY <1>2, <4>1, <4>2 DEF Displaces
        <3>2. CASE j = i
            <4>1. draft'[i] = Demoted(draft[i])
                BY <1>2, <2>3 DEF Write
            <4>2. draft[i] \in Row
                BY <1>2, <2>3, LiveIsRow
            <4>3. CASE draft[i] = table[i]
                <5>1. i \in AddressesOf(table, req[c].user)
                    BY <1>3, <2>3, <4>3 DEF OfCaller, Live
                <5>2. \/ Demoted(table[i]) = table[i]
                      \/ i \in DefaultsOf(table, req[c].user)
                    BY <4>2, <4>3, <5>1, DemotedRowIs DEF DefaultsOf, Row
                <5> QED
                    BY <1>2, <1>3, <3>2, <4>1, <4>3, <5>2 DEF Displaces
            <4>4. CASE draft[i] # table[i]
                <5>1. lockedBy[i] = c
                    BY <1>2, <2>3, <4>4 DEF Lockable, LocksInPlace
                <5>2. Displaces(c, i)
                    BY <1>2, <2>1, <5>1 DEF Held
                <5>3. /\ i \in DefaultsOf(table, req[c].user)
                      /\ draft[i] = Demoted(table[i])
                    BY <4>4, <5>2 DEF Displaces
                <5>4. table[i] \in Row
                    BY <1>2, <5>3, LiveIsRow DEF DefaultsOf, AddressesOf
                <5>5. draft'[i] = Demoted(table[i])
                    BY <4>1, <5>3, <5>4, DemotedRowIs
                <5> QED
                    BY <1>2, <1>3, <3>2, <5>3, <5>5 DEF Displaces
            <4> QED  BY <4>3, <4>4
        <3> QED  BY <3>1, <3>2
    <2> QED
        BY <1>1, <2>2, <2>3 DEF UnsetDefaultAddress, Write, tableVars, Demoted
<1>6. AnswerInPlace(c)'
    BY <1>2, <1>4 DEF Underway, AnswerInPlace, Statement
<1>7. MergedAsSent(c)'
    BY <1>2, <1>3, <1>4 DEF Underway, MergedAsSent
<1>8. TargetsInPlace(c)'
    BY <1>2, <1>3, <1>4 DEF Underway, TargetsInPlace, OfCaller
<1> QED
    BY <1>2, <1>4, <1>5, <1>6, <1>7, <1>8 DEF Underway, OnlyDisplaces, EffectInPlace

\* The row of a creation is the last one it drafts.
LEMMA InsertDrafts ==
    ASSUME DefaultInv, NEW c \in Conn, Underway(c), InsertAddress(c)
    PROVE  Underway(c)'
<1> USE DEF DefaultInv, TypeOK, TableTypeOK
<1>1. PICK i \in AddressId : /\ table[i] = Unborn
                             /\ lockedBy[i] = NoConn
                             /\ Write(c, i, merged[c])
    BY DEF InsertAddress, CreateCustomerAddress
<1>2. /\ pc[c] = "insert"
      /\ pc'[c] \in {"index", "commit"}
      /\ req' = req /\ answer' = answer
      /\ table' = table
      /\ req[c].op = "create"
      /\ merged[c] = NewRow(req[c])
    BY <1>1 DEF InsertAddress, Write, Goto, Underway, MergedAsSent, RequestsInPlace
<1>3. /\ i \in Held(c)'
      /\ draft'[i] = NewRow(req[c])
      /\ \A j \in Held(c)' \ {i} : j \in Held(c) /\ draft'[j] = draft[j]
    BY <1>1, <1>2 DEF Write, Held
<1>4. \A j \in Held(c) : Displaces(c, j)
    BY <1>2 DEF Underway, OnlyDisplaces
<1>5. \A j \in Held(c)' \ {i} : Displaces(c, j)'
    BY <1>2, <1>3, <1>4 DEF Displaces
<1>6. CreateDrafted(c)'
    BY <1>1, <1>2, <1>3, <1>5 DEF CreateDrafted
<1> QED
    BY <1>2, <1>6
    DEF Underway, AnswerInPlace, MergedAsSent, TargetsInPlace, OnlyDisplaces,
        EffectInPlace, Statement

\* So is the row of an update.
LEMMA WriteDrafts ==
    ASSUME DefaultInv, NEW c \in Conn, Underway(c), WriteMerged(c)
    PROVE  Underway(c)'
<1> USE DEF DefaultInv, TypeOK, TableTypeOK
<1> DEFINE i == req[c].id
<1>1. CASE ~ Live(draft[i])
    BY <1>1, NothingUnderway DEF WriteMerged, Refuse, Goto
<1>2. CASE Live(draft[i])
    <2>1. /\ pc[c] = "write" /\ req[c].op = "update"
          /\ i \in AddressId /\ req[c].user \in User
        BY RunsARequest, RequestFields DEF WriteMerged, RequestsInPlace
    <2>2. /\ Write(c, i, merged[c])
          /\ pc'[c] \in {"index", "commit"}
          /\ req' = req /\ answer' = answer
        BY <1>2 DEF WriteMerged, NewVersion, Goto
    <2>3. /\ table' = table
          /\ i \in Held(c)'
          /\ draft'[i] = merged[c]
          /\ \A j \in Held(c)' \ {i} : j \in Held(c) /\ draft'[j] = draft[j]
        BY <2>1, <2>2 DEF Write, Held
    <2>4. i \in AddressesOf(table, req[c].user)
        BY <1>2, <2>1 DEF MergedInPlace, OwnersKept, Live
    <2>5. /\ merged[c] \in Row /\ merged[c].owner = req[c].user
          /\ HasWhatWasSent(merged[c], req[c])
        BY <2>1 DEF MergedInPlace, Underway, MergedAsSent
    <2>6. \A j \in Held(c) : Displaces(c, j)
        BY <2>1 DEF Underway, OnlyDisplaces
    <2>7. \A j \in Held(c)' \ {i} : Displaces(c, j)'
        BY <2>2, <2>3, <2>6 DEF Displaces
    <2>8. UpdateDrafted(c)'
        BY <2>2, <2>3, <2>4, <2>5, <2>7 DEF UpdateDrafted
    <2> QED
        BY <2>1, <2>2, <2>8
        DEF Underway, AnswerInPlace, MergedAsSent, TargetsInPlace, OnlyDisplaces,
            EffectInPlace, Statement
<1> QED  BY <1>1, <1>2

\* A deletion drafts one row, or finds it deleted already.
LEMMA DeleteDrafts ==
    ASSUME DefaultInv, NEW c \in Conn, Underway(c), DeleteRow(c)
    PROVE  Underway(c)'
<1> USE DEF DefaultInv, TypeOK, TableTypeOK
<1> DEFINE i == req[c].id
<1>1. /\ pc[c] = "delete" /\ pc'[c] = "commit"
      /\ req' = req /\ answer' = answer
      /\ req[c].op = "delete" /\ i \in AddressId /\ req[c].user \in User
      /\ lockedBy[i] \in {NoConn, c}
    BY RunsARequest, RequestFields DEF DeleteRow, RequestsInPlace, Goto, Lockable
<1>2. Held(c) = {}
    BY <1>1, HoldsNothing
<1>3. draft[i] = table[i]
    BY <1>1, <1>2 DEF Held, LocksInPlace
<1>4. OfCaller(c, i)
    BY <1>1 DEF Underway, TargetsInPlace
<1>5. CASE Live(draft[i]) /\ Write(c, i, Gone)
    <2>1. table' = table /\ draft'[i] = Gone /\ Held(c)' = {i}
        BY <1>1, <1>2, <1>5 DEF Write, Held
    <2>2. i \in AddressesOf(table, req[c].user)
        BY <1>3, <1>4, <1>5 DEF OfCaller, Live
    <2> QED
        BY <1>1, <2>1, <2>2 DEF DeleteDrafted, Underway, AnswerInPlace, MergedAsSent,
            TargetsInPlace, OnlyDisplaces, EffectInPlace, Statement
<1>6. CASE ~ Live(draft[i]) /\ UNCHANGED tableVars
    <2>1. table[i] = Gone
        BY <1>3, <1>4, <1>6 DEF OfCaller, AddressesOf
    <2>2. table' = table /\ Held(c)' = {}
        BY <1>2, <1>6 DEF Held, tableVars
    <2> QED
        BY <1>1, <2>1, <2>2 DEF DeleteDrafted, Underway, AnswerInPlace, MergedAsSent,
            TargetsInPlace, OnlyDisplaces, EffectInPlace, Statement
<1> QED
    BY <1>5, <1>6 DEF DeleteRow

\* Every statement of a connection keeps its drafts in place.
LEMMA OwnUnderway ==
    ASSUME DefaultInv, NEW c \in Conn, StepOf(c), Underway(c)
    PROVE  Underway(c)'
<1> USE DEF DefaultInv, TypeOK
<1>1. ASSUME NEW status, Refuse(c, status)
      PROVE  Underway(c)'
    BY <1>1, NothingUnderway DEF Refuse, Goto
<1>2. ASSUME Finish(c)
      PROVE  Underway(c)'
    BY <1>2, NothingUnderway DEF Finish, Goto
<1>3. ASSUME NEW r \in Inputs, Begin(c, r)
      PROVE  Underway(c)'
    BY <1>3, NothingUnderway DEF Begin, Goto, FirstStatement
<1>4. CASE CheckCap(c)
    <2>1. CASE ~ CapReached(c)
        <3>1. /\ pc[c] = "count" /\ req[c].op = "create"
              /\ pc'[c] = IF req[c].isDefault THEN "unset" ELSE "insert"
              /\ req' = req /\ answer' = answer /\ lockedBy' = lockedBy
              /\ merged'[c] = NewRow(req[c])
            BY <1>4, <2>1 DEF CheckCap, Reads, Goto, RequestsInPlace
        <3>2. Held(c)' = {}
            BY <3>1, HoldsNothing DEF Held
        <3>3. answer[c] = 0
            BY <3>1 DEF Underway, AnswerInPlace, Statement
        <3> QED
            BY <3>1, <3>2, <3>3 DEF Underway, AnswerInPlace, MergedAsSent, TargetsInPlace,
                OnlyDisplaces, EffectInPlace, Statement
    <2> QED  BY <1>1, <1>4, <2>1 DEF CheckCap
<1>5. CASE ScanDefault(c)
    <2>1. /\ pc[c] = "unset" /\ pc'[c] \in {"unsetRow", AfterUnset(c)}
          /\ req' = req /\ merged' = merged /\ answer' = answer /\ UNCHANGED <<table, lockedBy>>
          /\ matched'[c] = DefaultsOf(table, req[c].user)
        BY <1>5, SeesCommitted DEF ScanDefault, Goto
    <2>2. AfterUnset(c) \in {"insert", "write"}
          /\ (AfterUnset(c) = "insert" <=> req[c].op = "create")
        BY DEF AfterUnset
    <2>3. Held(c)' = {}
        BY <2>1, HoldsNothing DEF Held
    <2>4. \A j \in matched'[c] : OfCaller(c, j)'
        BY <2>1 DEF OfCaller, DefaultsOf
    <2>5. answer[c] = 0 /\ req[c].isDefault /\ req[c].op \in {"create", "update"}
        BY <2>1 DEF Underway, AnswerInPlace, TargetsInPlace, Statement, RequestsInPlace
    <2>6. MergedAsSent(c)'
        BY <2>1, <2>2 DEF Underway, MergedAsSent
    <2> QED
        BY <2>1, <2>2, <2>3, <2>4, <2>5, <2>6 DEF Underway, AnswerInPlace,
            TargetsInPlace, OnlyDisplaces, EffectInPlace, Statement
<1>6. CASE FetchForUpdate(c)
    <2>1. CASE GetFinds(c, req[c].id, req[c].user)
        <3> DEFINE r == req[c]
        <3>1. /\ r \in Inputs /\ r.op = "update"
              /\ Seen(c) = table
              /\ r.id \in AddressesOf(table, r.user)
            BY <1>6, <2>1, RunsARequest, SeesCommitted DEF FetchForUpdate, GetFinds
        <3>2. table[r.id] \in Row
            BY <3>1, LiveIsRow DEF AddressesOf, TableTypeOK
        <3>3. HasWhatWasSent(Merge(table[r.id], r), r)
            BY <3>1, <3>2, RequestFields, InputsAssumption DEF HasWhatWasSent, Merge, Row
        <3>4. /\ pc[c] = "fetch" /\ pc'[c] \in {"unset", "write"}
              /\ pc'[c] = "unset" => r.isDefault
              /\ req' = req /\ answer' = answer /\ lockedBy' = lockedBy
              /\ merged'[c] = Merge(table[r.id], r)
            BY <1>6, <2>1, <3>1, <3>2 DEF FetchForUpdate, Merge, Row, Reads, Goto
        <3>5. Held(c)' = {}
            BY <3>4, HoldsNothing DEF Held
        <3>6. answer[c] = 0
            BY <3>4 DEF Underway, AnswerInPlace, Statement
        <3> QED
            BY <3>1, <3>3, <3>4, <3>5, <3>6 DEF Underway, AnswerInPlace, MergedAsSent,
                TargetsInPlace, OnlyDisplaces, EffectInPlace, Statement
    <2> QED  BY <1>1, <1>6, <2>1 DEF FetchForUpdate
<1>7. CASE FetchForDelete(c)
    <2>1. CASE GetFinds(c, req[c].id, req[c].user)
        <3>1. /\ pc[c] = "fetch" /\ pc'[c] \in {"countOthers", "delete"}
              /\ req' = req /\ answer' = answer /\ UNCHANGED <<table, lockedBy>>
            BY <1>7, <2>1 DEF FetchForDelete, Reads, Goto
        <3>2. OfCaller(c, req[c].id)'
            BY <2>1, <3>1, SeesCommitted DEF OfCaller, GetFinds
        <3>3. answer[c] = 0
            BY <3>1 DEF Underway, AnswerInPlace, Statement
        <3> QED
            BY <3>1, <3>2, <3>3 DEF Underway, AnswerInPlace, MergedAsSent,
                TargetsInPlace, OnlyDisplaces, EffectInPlace, Statement
    <2> QED  BY <1>1, <1>7, <2>1 DEF FetchForDelete
<1>8. CASE CheckLast(c)
    <2>1. CASE Reads(c, "delete")
        <3>1. /\ pc[c] = "countOthers" /\ pc'[c] = "delete"
              /\ req' = req /\ answer' = answer /\ UNCHANGED <<table, lockedBy>>
            BY <1>8, <2>1 DEF CheckLast, Reads, Goto
        <3>2. OfCaller(c, req[c].id)'
            BY <3>1 DEF OfCaller, Underway, TargetsInPlace
        <3>3. answer[c] = 0
            BY <3>1 DEF Underway, AnswerInPlace, Statement
        <3> QED
            BY <3>1, <3>2, <3>3 DEF Underway, AnswerInPlace, MergedAsSent,
                TargetsInPlace, OnlyDisplaces, EffectInPlace, Statement
    <2> QED  BY <1>1, <1>8, <2>1 DEF CheckLast
<1>9. CASE EnterIndex(c) \/ LoseCommit(c)
    <2>1. /\ pc[c] \in {"index", "commit"} /\ pc'[c] \in {"commit", "lost"}
          /\ pc'[c] = "commit" => answer'[c] = answer[c]
          /\ pc'[c] = "lost" => answer'[c] = 500
          /\ UNCHANGED <<req, table, draft, lockedBy>>
        BY <1>9 DEF EnterIndex, LoseCommit, Goto
    <2>2. /\ CreateDrafted(c)' <=> CreateDrafted(c)
          /\ UpdateDrafted(c)' <=> UpdateDrafted(c)
          /\ DeleteDrafted(c)' <=> DeleteDrafted(c)
        BY <2>1 DEF CreateDrafted, UpdateDrafted, DeleteDrafted, Held, Displaces
    <2>3. answer[c] = 0
        BY <2>1 DEF Underway, AnswerInPlace, Statement
    <2> QED
        BY <2>1, <2>2, <2>3 DEF Underway, AnswerInPlace, MergedAsSent,
            TargetsInPlace, OnlyDisplaces, EffectInPlace, Statement
<1> QED
    BY <1>1, <1>2, <1>3, <1>4, <1>5, <1>6, <1>7, <1>8, <1>9,
       UnsetDisplaces, InsertDrafts, WriteDrafts, DeleteDrafts
    DEF StepOf, Proceed, UniqueViolation, BreakDeadlock, Abort, Commit, Rollback,
        SettleLost, Cancel

\* The drafts are in place at every statement of every request.
THEOREM PromiseInvHolds == Spec => []PromiseInv
<1>1. Init => PromiseInv
    <2>1. ASSUME Init, NEW c \in Conn
          PROVE  Underway(c)
        BY <2>1 DEF Init, Underway, AnswerInPlace, MergedAsSent, TargetsInPlace,
            OnlyDisplaces, EffectInPlace, Statement
    <2> QED
        BY <2>1, DefaultInvInit DEF PromiseInv
<1>2. PromiseInv /\ [Next]_vars => PromiseInv'
    <2> SUFFICES ASSUME PromiseInv, [Next]_vars
                 PROVE  PromiseInv'
        OBVIOUS
    <2>1. DefaultInv'
        BY DefaultInvStep DEF PromiseInv
    <2>2. ASSUME NEW c \in Conn, StepOf(c), NEW d \in Conn
          PROVE  Underway(d)'
        BY <2>2, OwnUnderway, BystanderUnderway DEF PromiseInv
    <2>3. ASSUME UNCHANGED vars, NEW d \in Conn
          PROVE  Underway(d)'
        BY <2>3
        DEF vars, PromiseInv, Underway, AnswerInPlace, MergedAsSent, TargetsInPlace,
            OnlyDisplaces, EffectInPlace, CreateDrafted, UpdateDrafted, DeleteDrafted,
            Displaces, OfCaller, Held, DefaultsOf, AddressesOf
    <2> QED
        BY <2>1, <2>2, <2>3 DEF Next, StepOf, PromiseInv
<1> QED
    BY <1>1, <1>2, PTL DEF Spec

----------------------------------------------------------------------------
(* What a client sees of each step.                                        *)

\* Its request is not decided yet.
Waits(c) ==
    /\ pc[c] \in Statement
    /\ req[c] \in Inputs
    /\ Asked[c] = req[c]
    /\ answer[c] = 0

Closes(c) == Asked' = [Asked EXCEPT ![c] = NoRequest]

Tells(c, status) == answer' = [answer EXCEPT ![c] = status]

Asks(c) ==
    /\ Asked[c] = NoRequest
    /\ \E r \in Inputs : Asked' = [Asked EXCEPT ![c] = r]
    /\ Tells(c, 0)
    /\ UNCHANGED table

Fails(c) ==
    /\ Waits(c)
    /\ Closes(c)
    /\ UNCHANGED table
    /\ \/ Tells(c, 500)
       \/ /\ Tells(c, 404)
          /\ req[c].op # "create" /\ req[c].id \notin AddressesOf(table, req[c].user)
       \/ /\ Tells(c, 400)
          /\ pc[c] = "count" /\ req[c].op = "create"
          /\ Cardinality(AddressesOf(table, req[c].user)) >= MaxAddresses
       \/ /\ Tells(c, 400)
          /\ pc[c] = "countOthers" /\ req[c].op = "delete"
          /\ Cardinality(AddressesOf(table, req[c].user)) > 1

Succeeds(c) ==
    /\ Waits(c)
    /\ Closes(c)
    /\ pc[c] = "commit" /\ CommitWork(c)
    /\ Tells(c, Success(req[c]))

Loses(c) ==
    /\ Waits(c)
    /\ Tells(c, 500)
    /\ UNCHANGED <<table, Asked>>

Settles(c) ==
    /\ pc[c] = "lost"
    /\ req[c] \in Inputs /\ Asked[c] = req[c] /\ answer[c] = 500
    /\ CommitWork(c) \/ UNCHANGED table
    /\ Closes(c)
    /\ UNCHANGED answer

\* Only the connection that moves changes what is asked.
LEMMA AskedMoves ==
    ASSUME TypeOK, NEW c \in Conn, StepOf(c)
    PROVE  Asked' = [Asked EXCEPT ![c] = IF pc'[c] = "rollback" THEN NoRequest ELSE req'[c]]
BY BystanderStays DEF Asked

\* Every step of a connection is one of these, or is seen by nobody.
LEMMA VisibleSteps ==
    ASSUME PromiseInv, NEW c \in Conn, StepOf(c)
    PROVE  \/ UNCHANGED <<table, Asked, answer>>
           \/ Asks(c) \/ Fails(c) \/ Succeeds(c) \/ Loses(c) \/ Settles(c)
<1> USE DEF PromiseInv, DefaultInv, TypeOK, Tells
<1> DEFINE Now == IF pc'[c] = "rollback" THEN NoRequest ELSE req'[c]
<1>1. Asked' = [Asked EXCEPT ![c] = Now]
    BY AskedMoves
<1>2. Asked \in [Conn -> Inputs \cup {NoRequest}]
    BY DEF Asked
<1>3. Asked[c] = IF pc[c] = "rollback" THEN NoRequest ELSE req[c]
    BY DEF Asked
<1>4. Underway(c)
    OBVIOUS
<1>5. ASSUME pc[c] \in Statement
      PROVE  Waits(c)
    BY <1>3, <1>4, <1>5, RunsARequest DEF Waits, Underway, AnswerInPlace, Statement
<1>6. ASSUME pc[c] # "rollback", pc'[c] # "rollback", req' = req
      PROVE  Asked' = Asked
    BY <1>1, <1>2, <1>3, <1>6
<1>7. ASSUME pc'[c] = "rollback" \/ req'[c] = NoRequest
      PROVE  Closes(c)
    BY <1>1, <1>7 DEF Closes
<1>8. ASSUME pc[c] \in Statement, Refuse(c, 500)
      PROVE  Fails(c)
    BY <1>5, <1>7, <1>8 DEF Refuse, Goto, Fails
<1>9. ASSUME pc[c] \in Statement, Abort(c)
      PROVE  Fails(c)
    BY <1>5, <1>7, <1>9 DEF Abort, Finish, Goto, UndoWork, Fails
<1>10. ASSUME NEW r \in Inputs, Begin(c, r)
       PROVE  Asks(c)
    <2>1. Asked[c] = NoRequest /\ Now = r
        BY <1>3, <1>4, <1>10
        DEF Begin, Goto, FirstStatement, Underway, AnswerInPlace
    <2> QED
        BY <1>1, <1>10, <2>1 DEF Begin, Asks
<1>11. CASE CheckCap(c)
    <2>1. CASE CapReached(c)
        BY <1>5, <1>7, <1>11, <2>1, SeesCommitted
        DEF CheckCap, CapReached, CountAddressesByUser, Refuse, Goto, Fails,
            RequestsInPlace, Statement
    <2>2. CASE ~ CapReached(c)
        BY <1>6, <1>11, <2>2 DEF CheckCap, Reads, Goto
    <2> QED  BY <2>1, <2>2
<1>12. CASE ScanDefault(c) \/ UnsetRow(c) \/ InsertAddress(c)
    BY <1>6, <1>12
    DEF ScanDefault, UnsetRow, UnsetDefaultAddress, InsertAddress, CreateCustomerAddress,
        Write, AfterUnset, Goto, tableVars
<1>13. CASE FetchForUpdate(c) \/ FetchForDelete(c)
    <2>1. CASE Refuse(c, 404) /\ ~ GetFinds(c, req[c].id, req[c].user)
        BY <1>5, <1>7, <1>13, <2>1, SeesCommitted
        DEF FetchForUpdate, FetchForDelete, GetFinds, Refuse, Goto, Fails, Statement
    <2>2. CASE \E next \in Statement : Reads(c, next)
        BY <1>6, <1>13, <2>2 DEF FetchForUpdate, FetchForDelete, Reads, Goto, Statement
    <2> QED
        BY <1>13, <2>1, <2>2 DEF FetchForUpdate, FetchForDelete, Statement
<1>14. CASE WriteMerged(c)
    <2>1. CASE ~ Live(draft[req[c].id])
        BY <1>8, <1>14, <2>1 DEF WriteMerged, Statement
    <2>2. CASE Live(draft[req[c].id])
        BY <1>6, <1>14, <2>2 DEF WriteMerged, Write, Goto
    <2> QED  BY <2>1, <2>2
<1>15. CASE CheckLast(c)
    <2>1. CASE CountAddressesByUser(c, req[c].user) > 1
        BY <1>5, <1>7, <1>15, <2>1, SeesCommitted
        DEF CheckLast, CountAddressesByUser, Refuse, Goto, Fails, RequestsInPlace, Statement
    <2>2. CASE ~ (CountAddressesByUser(c, req[c].user) > 1)
        BY <1>6, <1>15, <2>2 DEF CheckLast, Reads, Goto
    <2> QED  BY <2>1, <2>2
<1>16. CASE DeleteRow(c) \/ EnterIndex(c)
    BY <1>6, <1>16 DEF DeleteRow, EnterIndex, Write, Goto, tableVars
<1>17. CASE UniqueViolation(c)
    BY <1>9, <1>17 DEF UniqueViolation, Statement
<1>18. CASE BreakDeadlock(c)
    <2>1. Blockers(c) # {}
        BY <1>18 DEF BreakDeadlock, WaitsForItself
    <2>2. pc[c] \in {"unsetRow", "write", "delete", "index"}
        BY <2>1 DEF Blockers
    <2> QED
        BY <1>9, <1>18, <2>2 DEF BreakDeadlock, Statement
<1>19. CASE Commit(c)
    BY <1>5, <1>7, <1>19 DEF Commit, Finish, Goto, Succeeds, Statement
<1>20. CASE Rollback(c)
    <2>1. Asked[c] = NoRequest /\ Now = NoRequest
        BY <1>3, <1>20 DEF Rollback, Finish, Goto
    <2> QED
        BY <1>1, <1>2, <1>20, <2>1 DEF Rollback, UndoWork
<1>21. CASE SettleLost(c)
    BY <1>3, <1>4, <1>7, <1>21, RunsARequest
    DEF SettleLost, Finish, Goto, UndoWork, Settles, Underway, AnswerInPlace
<1>22. CASE LoseCommit(c)
    BY <1>5, <1>6, <1>22 DEF LoseCommit, Goto, Loses, Statement
<1> QED
    BY <1>8, <1>10, <1>11, <1>12, <1>13, <1>14, <1>15, <1>16, <1>17, <1>18, <1>19,
       <1>20, <1>21, <1>22
    DEF StepOf, Proceed, Cancel

----------------------------------------------------------------------------
(* The overlapping promise.                                                *)

\* The book of the promise is the table.
LEMMA BookIsTable ==
    ASSUME NEW u
    PROVE  /\ Overlapping!AddressesOf(u) = AddressesOf(table, u)
           /\ Overlapping!DefaultsOf(u) = DefaultsOf(table, u)
           /\ Overlapping!Cardinality(Overlapping!AddressesOf(u))
                = Cardinality(AddressesOf(table, u))
BY DEF Overlapping!AddressesOf, Overlapping!DefaultsOf, Overlapping!Live, AddressesOf,
       DefaultsOf, Live, Overlapping!Cardinality, Cardinality

\* A commit changes the rows of its transaction to their drafts.
LEMMA CommitPublishes ==
    ASSUME TypeOK, NEW c \in Conn, CommitWork(c)
    PROVE  /\ table' \in [AddressId -> Slot]
           /\ \A j \in Held(c) : table'[j] = draft[j]
           /\ \A j \in AddressId \ Held(c) : table'[j] = table[j]
BY DEF CommitWork, Seen, Held, TypeOK, TableTypeOK

\* The other rows it changes are defaults it takes the place of.
LEMMA OthersAreKept ==
    ASSUME TypeOK, NEW c \in Conn, CommitWork(c), NEW i,
           \A j \in Held(c) \ {i} : Displaces(c, j)
    PROVE  Overlapping!OthersKept(req[c], i)
<1> SUFFICES ASSUME NEW j \in AddressId \ {i}
             PROVE  \/ table'[j] = table[j]
                    \/ /\ req[c].isDefault
                       /\ j \in DefaultsOf(table, req[c].user)
                       /\ table'[j] = Demoted(table[j])
    BY BookIsTable DEF Overlapping!OthersKept, Overlapping!Demoted, Demoted
<1> QED
    BY CommitPublishes DEF Displaces

\* A commit is the whole effect of its request.
LEMMA CommitTakesEffect ==
    ASSUME PromiseInv, NEW c \in Conn, pc[c] \in {"commit", "lost"}, CommitWork(c)
    PROVE  Overlapping!Effect(req[c])
<1> DEFINE r == req[c]
<1> USE DEF PromiseInv, DefaultInv
<1>1. r \in Inputs
    BY RunsARequest
<1>2. CASE r.op = "create"
    <2>1. PICK i \in Held(c) : /\ table[i] = Unborn
                               /\ draft[i] = NewRow(r)
                               /\ \A j \in Held(c) \ {i} : Displaces(c, j)
        BY <1>2 DEF Underway, EffectInPlace, CreateDrafted
    <2>2. i \in AddressId /\ table'[i] = NewRow(r)
        BY <2>1, CommitPublishes DEF Held
    <2>3. Overlapping!OthersKept(r, i)
        BY <2>1, OthersAreKept
    <2>4. Overlapping!Created(r)
        BY <2>1, <2>2, <2>3 DEF Overlapping!Created, NewRow
    <2> QED
        BY <1>2, <2>4 DEF Overlapping!Effect
<1>3. CASE r.op = "update"
    <2>1. UpdateDrafted(c)
        BY <1>3 DEF Underway, EffectInPlace
    <2>2. r.id \in Held(c) /\ r.id \in AddressesOf(table, r.user) /\ table'[r.id] = draft[r.id]
        BY <2>1, CommitPublishes DEF UpdateDrafted
    <2>3. draft[r.id] \in [owner : {r.user}, label : Label, isDefault : BOOLEAN]
        BY <2>1 DEF UpdateDrafted, Row
    <2>4. Overlapping!OthersKept(r, r.id)
        BY <2>1, OthersAreKept DEF UpdateDrafted
    <2>5. Overlapping!Updated(r)
        BY <2>1, <2>2, <2>3, <2>4, BookIsTable
        DEF Overlapping!Updated, UpdateDrafted, HasWhatWasSent
    <2> QED
        BY <1>3, <2>5 DEF Overlapping!Effect
<1>4. CASE r.op = "delete"
    <2>1. DeleteDrafted(c)
        BY <1>4 DEF Underway, EffectInPlace
    <2>2. table \in [AddressId -> Slot] /\ r.id \in AddressId
        BY <1>1, <1>4, RequestFields DEF TypeOK, TableTypeOK
    <2>3. r.id \in AddressesOf(table, r.user) \/ table[r.id] = Gone
        BY <2>1 DEF DeleteDrafted
    <2>4. \A j \in AddressId : table'[j] = IF j = r.id THEN Gone ELSE table[j]
        BY <2>1, <2>2, CommitPublishes DEF DeleteDrafted
    <2>5. table' = [table EXCEPT ![r.id] = Gone]
        BY <2>2, <2>4, CommitPublishes
    <2>6. Overlapping!Deleted(r)
        BY <2>3, <2>5, BookIsTable DEF Overlapping!Deleted
    <2> QED
        BY <1>4, <2>6 DEF Overlapping!Effect
<1> QED
    BY <1>1, <1>2, <1>3, <1>4, RequestFields

\* Every step keeps the overlapping promise, or is seen by nobody.
LEMMA PromiseStep ==
    PromiseInv /\ [Next]_vars => [Overlapping!Next]_(Overlapping!vars)
<1> SUFFICES ASSUME PromiseInv, [Next]_vars
             PROVE  Overlapping!Next \/ UNCHANGED <<table, Asked, answer>>
    BY DEF Overlapping!vars
<1>1. CASE UNCHANGED vars
    BY <1>1 DEF vars, Asked
<1>2. ASSUME NEW c \in Conn, Asks(c)
      PROVE  \E r \in Inputs : Overlapping!Ask(c, r)
    BY <1>2 DEF Asks, Tells, Overlapping!Ask, Overlapping!Answered
<1>3. ASSUME NEW c \in Conn, Fails(c)
      PROVE  Overlapping!Fail(c)
    <2>1. Overlapping!Waiting(c) /\ Overlapping!Over(c)
        BY <1>3, RequestFields DEF Fails, Waits, Closes, Overlapping!Waiting, Overlapping!Over
    <2>2. Asked[c] = req[c] /\ UNCHANGED table
        BY <1>3 DEF Fails, Waits
    <2>3. CASE Tells(c, 500)
        BY <2>1, <2>2, <2>3 DEF Tells, Overlapping!Fail, Overlapping!Answered
    <2>4. CASE Tells(c, 404) /\ req[c].op # "create"
               /\ req[c].id \notin AddressesOf(table, req[c].user)
        BY <2>1, <2>2, <2>4, BookIsTable
        DEF Tells, Overlapping!Fail, Overlapping!Answered, Overlapping!NotFound
    <2>5. CASE Tells(c, 400) /\ Overlapping!Invalid(req[c])
        BY <2>1, <2>2, <2>5 DEF Tells, Overlapping!Fail, Overlapping!Answered
    <2>6. ASSUME req[c].op = "create",
                 Cardinality(AddressesOf(table, req[c].user)) >= MaxAddresses
          PROVE  Overlapping!Invalid(req[c])
        BY <2>6, BookIsTable DEF Overlapping!Invalid
    <2>7. ASSUME req[c].op = "delete", Cardinality(AddressesOf(table, req[c].user)) > 1
          PROVE  Overlapping!Invalid(req[c])
        BY <2>7, BookIsTable DEF Overlapping!Invalid
    <2> QED
        BY <1>3, <2>3, <2>4, <2>5, <2>6, <2>7 DEF Fails
<1>4. ASSUME NEW c \in Conn, Succeeds(c)
      PROVE  Overlapping!Succeed(c)
    <2>1. Overlapping!Waiting(c) /\ Overlapping!Over(c)
        BY <1>4, RequestFields DEF Succeeds, Waits, Closes, Overlapping!Waiting, Overlapping!Over
    <2>2. Overlapping!Effect(req[c])
        BY <1>4, CommitTakesEffect DEF Succeeds
    <2> QED
        BY <1>4, <2>1, <2>2
        DEF Succeeds, Waits, Tells, Success, Overlapping!Succeed, Overlapping!Answered
<1>5. ASSUME NEW c \in Conn, Loses(c)
      PROVE  Overlapping!LoseAnswer(c)
    BY <1>5, RequestFields
    DEF Loses, Waits, Tells, Overlapping!LoseAnswer, Overlapping!Waiting, Overlapping!Answered
<1>6. ASSUME NEW c \in Conn, Settles(c)
      PROVE  Overlapping!Settle(c)
    <2>1. Overlapping!Effect(req[c]) \/ UNCHANGED table
        BY <1>6, CommitTakesEffect DEF Settles
    <2> QED
        BY <1>6, <2>1, RequestFields
        DEF Settles, Closes, Overlapping!Settle, Overlapping!Open, Overlapping!Over
<1>7. ASSUME NEW c \in Conn, StepOf(c)
      PROVE  Overlapping!Next \/ UNCHANGED <<table, Asked, answer>>
    BY <1>2, <1>3, <1>4, <1>5, <1>6, <1>7, VisibleSteps DEF Overlapping!Next
<1> QED
    BY <1>1, <1>7 DEF Next, StepOf

\* However requests overlap, fail and lose their answers, on any number of
\* connections, the three operations of repository.go keep the promise of
\* AddressBook for overlapping requests.
THEOREM RequestsKeepPromise == Spec => KeepsPromise
<1>1. Init => Overlapping!Init
    BY DEF Init, Overlapping!Init, Asked
<1>2. PromiseInv /\ [Next]_vars => [Overlapping!Next]_(Overlapping!vars)
    BY PromiseStep
<1> QED
    BY <1>1, <1>2, PromiseInvHolds, PTL DEF Spec, KeepsPromise, Overlapping!Spec

\* A commit takes a caller's last default only with the row of its own request,
\* which it deletes, or updates without a word about the default.
LEMMA CommitKeepsDefault ==
    ASSUME PromiseInv, NEW c \in Conn, pc[c] \in {"commit", "lost"}, CommitWork(c),
           NEW u \in User, DefaultsOf(table, u) # {}, DefaultsOf(table', u) = {}
    PROVE  /\ req[c].user = u
           /\ req[c].op = "delete" \/ (req[c].op = "update" /\ ~ req[c].isDefault)
           /\ DefaultsOf(table, u) = {req[c].id}
<1> DEFINE r == req[c]
<1> USE DEF PromiseInv, DefaultInv
<1>1. r \in Inputs
    BY RunsARequest
<1>2. PICK j \in DefaultsOf(table, u) : TRUE
    OBVIOUS
<1>3. j \in AddressId /\ Live(table[j]) /\ table[j].owner = u /\ table[j].isDefault
    BY DEF DefaultsOf, AddressesOf
<1>4. table'[j] # table[j]
    BY <1>3 DEF DefaultsOf, AddressesOf
<1>5. j \in Held(c) /\ table'[j] = draft[j]
    BY <1>3, <1>4, CommitPublishes
<1>6. Displaces(c, j) => r.isDefault /\ r.user = u
    BY <1>3, <1>4, <1>5 DEF Displaces, DefaultsOf, AddressesOf
<1>7. ASSUME NEW i \in Held(c), draft[i] \in Row, draft[i].owner = u
      PROVE  ~ draft[i].isDefault
    <2>1. i \in AddressId /\ table'[i] = draft[i] /\ Live(table'[i])
        BY <1>7, CommitPublishes, SlotAssumption DEF Held, Live
    <2> QED
        BY <1>7, <2>1 DEF DefaultsOf, AddressesOf
<1>11. DefaultsOf(table, u) = {j}
    BY <1>2 DEF AtMostOneDefault
<1>8. CASE r.op = "create"
    <2>1. PICK i \in Held(c) : /\ table[i] = Unborn
                               /\ draft[i] = NewRow(r)
                               /\ \A k \in Held(c) \ {i} : Displaces(c, k)
        BY <1>8 DEF Underway, EffectInPlace, CreateDrafted
    <2>2. r.isDefault /\ r.user = u
        BY <1>3, <1>5, <1>6, <2>1 DEF Live
    <2>3. draft[i] \in Row /\ draft[i].owner = u /\ draft[i].isDefault
        BY <1>1, <1>8, <2>1, <2>2, RequestFields DEF NewRow, Row
    <2> QED
        BY <1>7, <2>3
<1>9. CASE r.op = "update"
    <2>1. UpdateDrafted(c)
        BY <1>9 DEF Underway, EffectInPlace
    <2>2. r.user = u
        BY <1>3, <1>5, <1>6, <2>1 DEF UpdateDrafted, AddressesOf
    <2>3. ~ r.isDefault
        BY <1>7, <2>1, <2>2 DEF UpdateDrafted, HasWhatWasSent
    <2>4. j = r.id
        BY <1>5, <1>6, <2>1, <2>3 DEF UpdateDrafted
    <2> QED
        BY <1>9, <1>11, <2>2, <2>3, <2>4
<1>10. CASE r.op = "delete"
    <2>1. DeleteDrafted(c)
        BY <1>10 DEF Underway, EffectInPlace
    <2>2. j = r.id /\ r.user = u
        BY <1>3, <1>5, <2>1 DEF DeleteDrafted, AddressesOf
    <2> QED
        BY <1>10, <1>11, <2>2
<1> QED
    BY <1>1, <1>8, <1>9, <1>10, RequestFields

\* However requests overlap, a user loses their last default only with its own
\* row, to its deletion or to an update of it that leaves is_default out.
THEOREM MovesKeepTheDefault == Spec => DefaultSurvivesMoves
<1>1. PromiseInv /\ [Next]_vars
        => [ \A u \in User :
               DefaultsOf(table, u) # {} /\ DefaultsOf(table', u) = {}
                 => \E c \in Conn :
                      /\ pc[c] \in {"commit", "lost"} /\ pc'[c] = "idle"
                      /\ req[c].user = u
                      /\ \/ req[c].op = "delete"
                         \/ req[c].op = "update" /\ ~ req[c].isDefault
                      /\ DefaultsOf(table, u) = {req[c].id} ]_table
    <2> SUFFICES ASSUME PromiseInv, [Next]_vars, table' # table, NEW u \in User,
                        DefaultsOf(table, u) # {}, DefaultsOf(table', u) = {}
                 PROVE  \E c \in Conn :
                          /\ pc[c] \in {"commit", "lost"} /\ pc'[c] = "idle"
                          /\ req[c].user = u
                          /\ \/ req[c].op = "delete"
                             \/ req[c].op = "update" /\ ~ req[c].isDefault
                          /\ DefaultsOf(table, u) = {req[c].id}
        OBVIOUS
    <2>1. PICK c \in Conn : StepOf(c)
        BY DEF Next, StepOf, vars
    <2>2. /\ pc[c] \in {"commit", "lost"} /\ pc'[c] = "idle"
          /\ CommitWork(c)
        <3>1. RowStep(c)
            BY <2>1, StepKinds DEF StepOf, PromiseInv, DefaultInv
        <3> QED
            BY <3>1
            DEF RowStep, EarlyStep, GiveUpStep, ClaimStep, UnsetStep, InsertStep, WriteStep,
                DeleteStep, CommitStep, UndoStep, UndoWork, Write, tableVars, PromiseInv,
                DefaultInv, TypeOK
    <2> QED
        BY <2>2, CommitKeepsDefault
<1> QED
    BY <1>1, PromiseInvHolds, PTL DEF Spec, DefaultSurvivesMoves

=============================================================================
