------------------------- MODULE AddressRepository -------------------------
(***************************************************************************)
(* CreateAddress, UpdateAddress and DeleteAddress of                       *)
(* internal/users/repository.go, one action per SQL statement, run by      *)
(* concurrent requests over the table of CustomerAddresses.                *)
(*                                                                         *)
(* A request holds one pooled connection from Begin to the end of its      *)
(* transaction, so a request in progress is named by its connection, and   *)
(* a connection is used again once its transaction is over.                *)
(***************************************************************************)
EXTENDS CustomerAddresses

CONSTANTS
    Inputs,         \* the requests that pass the handlers' validation
    Omitted,        \* a field an update leaves out
    NoRequest,      \* what an unused connection serves
    InitialTables,  \* the tables a behaviour may start from
    MaxAddresses    \* constants.MaxAddressesPerCustomer

(***************************************************************************)
(* is_default of an update is TRUE when sent and FALSE when left out: the  *)
(* validator (omitempty,eq=true) answers 400 to one that sends false.      *)
(***************************************************************************)
CreateRequest == [op : {"create"}, user : User, label : Label, isDefault : BOOLEAN]
UpdateRequest == [op : {"update"}, user : User, id : AddressId,
                  label : Label \cup {Omitted}, isDefault : BOOLEAN]
DeleteRequest == [op : {"delete"}, user : User, id : AddressId]

ASSUME InputsAssumption ==
    /\ Inputs \subseteq CreateRequest \cup UpdateRequest \cup DeleteRequest
    /\ NoRequest \notin CreateRequest \cup UpdateRequest \cup DeleteRequest
    /\ Omitted \notin Label

ASSUME InitialTablesAssumption ==
    \A rows \in InitialTables :
        /\ rows \in [AddressId -> Slot]
        /\ \A u \in User : \A i, j \in DefaultsOf(rows, u) : i = j

ASSUME CapAssumption == MaxAddresses \in Nat \ {0}

ASSUME FiniteAssumption == IsFiniteSet(AddressId) /\ IsFiniteSet(Conn)

\* A user starts with no more addresses than overlapping requests can leave.
ASSUME InitialSizeAssumption ==
    \A rows \in InitialTables : \A u \in User :
        Cardinality(AddressesOf(rows, u)) <= MaxAddresses - 1 + Cardinality(Conn)

VARIABLES
    pc,       \* the statement each connection executes next
    req,      \* the request it serves
    merged,   \* the row that request computed, to insert or to write
    matched,  \* the rows its UnsetDefaultAddressForUser has still to change
    answer    \* the status of its latest request, 0 while undecided

vars == <<table, draft, lockedBy, pc, req, merged, matched, answer>>

Statement == {"count", "unset", "unsetRow", "insert", "fetch", "write", "index",
              "countOthers", "delete", "commit"}
Running == Statement \cup {"rollback", "lost"}

TypeOK ==
    /\ TableTypeOK
    /\ pc \in [Conn -> Running \cup {"idle"}]
    /\ req \in [Conn -> Inputs \cup {NoRequest}]
    /\ merged \in [Conn -> Slot]
    /\ matched \in [Conn -> SUBSET AddressId]
    /\ answer \in [Conn -> {0, 200, 201, 204, 400, 404, 500}]

Init ==
    /\ table \in InitialTables
    /\ draft = table
    /\ lockedBy = [i \in AddressId |-> NoConn]
    /\ pc = [c \in Conn |-> "idle"]
    /\ req = [c \in Conn |-> NoRequest]
    /\ merged = [c \in Conn |-> Unborn]
    /\ matched = [c \in Conn |-> {}]
    /\ answer = [c \in Conn |-> 0]

----------------------------------------------------------------------------
(* The steps every operation is made of.                                   *)

Goto(c, next) == pc' = [pc EXCEPT ![c] = next]

\* The request is over: its connection is back in the pool.
Finish(c) ==
    /\ Goto(c, "idle")
    /\ req' = [req EXCEPT ![c] = NoRequest]
    /\ merged' = [merged EXCEPT ![c] = Unborn]
    /\ matched' = [matched EXCEPT ![c] = {}]

\* fn returns an error: the status is decided, the deferred Rollback is next.
Refuse(c, status) ==
    /\ Goto(c, "rollback")
    /\ answer' = [answer EXCEPT ![c] = status]
    /\ UNCHANGED <<table, draft, lockedBy, req, merged, matched>>

\* The server aborts the transaction and undoes it at once.  The Rollback that
\* follows finds nothing to undo.
Abort(c) ==
    /\ UndoWork(c)
    /\ Finish(c)
    /\ answer' = [answer EXCEPT ![c] = 500]

\* A statement of connection c that touches no row.
Reads(c, next) ==
    /\ Goto(c, next)
    /\ UNCHANGED <<table, draft, lockedBy, req, matched, answer>>

----------------------------------------------------------------------------
(* Begin.  The bound on creations: each one accepted has a uuid of its own *)
(* left to take.                                                           *)

Creators == {c \in Conn : req[c] # NoRequest /\ req[c].op = "create"}
UnusedIds == {i \in AddressId : table[i] = Unborn}

FirstStatement(r) == IF r.op = "create" THEN "count" ELSE "fetch"

Begin(c, r) ==
    /\ pc[c] = "idle"
    /\ r.op = "create" => Cardinality(Creators) < Cardinality(UnusedIds)
    /\ Goto(c, FirstStatement(r))
    /\ req' = [req EXCEPT ![c] = r]
    /\ answer' = [answer EXCEPT ![c] = 0]
    /\ UNCHANGED <<table, draft, lockedBy, merged, matched>>

----------------------------------------------------------------------------
(* CreateAddress.                                                          *)

NewRow(r) == [owner |-> r.user, label |-> r.label, isDefault |-> r.isDefault]

\* Mutant: the comparison with the cap is off by one.
CapReachedTooLate(c) == CountAddressesByUser(c, req[c].user) > MaxAddresses

CapReached(c) == CountAddressesByUser(c, req[c].user) >= MaxAddresses

CheckCap(c) ==
    /\ pc[c] = "count"
    /\ IF CapReached(c)
         THEN Refuse(c, 400)
         ELSE /\ Reads(c, IF req[c].isDefault THEN "unset" ELSE "insert")
              /\ merged' = [merged EXCEPT ![c] = NewRow(req[c])]

\* A new default row has the unique index still to enter.
InsertAddress(c) ==
    /\ pc[c] = "insert"
    /\ CreateCustomerAddress(c, merged[c])
    /\ Goto(c, IF merged[c].isDefault THEN "index" ELSE "commit")
    /\ UNCHANGED <<req, merged, matched, answer>>

----------------------------------------------------------------------------
(* UnsetDefaultAddressForUser: the rows to change are those its snapshot   *)
(* shows, each is changed when its lock is granted.                        *)

AfterUnset(c) == IF req[c].op = "create" THEN "insert" ELSE "write"

ScanDefault(c) ==
    /\ pc[c] = "unset"
    /\ matched' = [matched EXCEPT ![c] = DefaultsOf(Seen(c), req[c].user)]
    /\ Goto(c, IF matched'[c] = {} THEN AfterUnset(c) ELSE "unsetRow")
    /\ UNCHANGED <<table, draft, lockedBy, req, merged, answer>>

UnsetRow(c) ==
    /\ pc[c] = "unsetRow"
    /\ \E i \in matched[c] :
        /\ UnsetDefaultAddress(c, i)
        /\ matched' = [matched EXCEPT ![c] = @ \ {i}]
    /\ Goto(c, IF matched'[c] = {} THEN AfterUnset(c) ELSE "unsetRow")
    /\ UNCHANGED <<req, merged, answer>>

----------------------------------------------------------------------------
(* UpdateAddress.                                                          *)

\* Mutant: the label of an update is written without looking whether it was sent.
MergeUnsentLabel(row, r) ==
    [row EXCEPT !.label = r.label, !.isDefault = @ \/ r.isDefault]

\* Mutant: a label that was not sent is taken for an empty one.
MergeZeroLabel(row, r) ==
    [row EXCEPT !.label = IF r.label = Omitted THEN CHOOSE l \in Label : TRUE ELSE r.label,
                !.isDefault = @ \/ r.isDefault]

\* Mutant: is_default is a plain bool, an update that leaves it out clears it.
MergeResetsDefault(row, r) ==
    [row EXCEPT !.label = IF r.label = Omitted THEN @ ELSE r.label,
                !.isDefault = r.isDefault]

\* mergeAddress: the fields sent replace those fetched.
Merge(row, r) ==
    [row EXCEPT !.label = IF r.label = Omitted THEN @ ELSE r.label,
                !.isDefault = @ \/ r.isDefault]

FetchForUpdate(c) ==
    /\ pc[c] = "fetch"
    /\ req[c].op = "update"
    /\ LET r == req[c]
           existing == Seen(c)[r.id]
           new == Merge(existing, r)
       IN  IF ~ GetFinds(c, r.id, r.user)
             THEN Refuse(c, 404)
             ELSE /\ Reads(c, IF new.isDefault /\ ~ existing.isDefault THEN "unset" ELSE "write")
                  /\ merged' = [merged EXCEPT ![c] = new]

\* Mutant: the UPDATE leaves is_default out of its SET.
WithoutFlag(c) == [merged[c] EXCEPT !.isDefault = draft[req[c].id].isDefault]

\* The SET of UpdateCustomerAddress: every column is the merged row's.
NewVersion(c) == merged[c]

(***************************************************************************)
(* A row that is gone by the time of UpdateCustomerAddress is ErrNoRows,   *)
(* which nothing here maps: 500.                                           *)
(* The new version of a row that is the default already may be kept on the *)
(* old one's page (a heap-only update), which leaves the index alone; any  *)
(* other default version has to enter the index.                           *)
(***************************************************************************)
WriteMerged(c) ==
    /\ pc[c] = "write"
    /\ LET i == req[c].id IN
         /\ Lockable(c, i)
         /\ IF ~ Live(draft[i])
              THEN Refuse(c, 500)
              ELSE /\ Write(c, i, NewVersion(c))
                   /\ \/ /\ NewVersion(c).isDefault
                         /\ Goto(c, "index")
                      \/ /\ NewVersion(c).isDefault => draft[i].isDefault
                         /\ Goto(c, "commit")
                   /\ UNCHANGED <<req, merged, matched, answer>>

----------------------------------------------------------------------------
(* The check of the unique index, when a default row was written.          *)

Checking == {c \in Conn : pc[c] = "index"}

EnterIndex(c) ==
    /\ pc[c] = "index"
    /\ Rivals(c, req[c].user, Checking) = {}
    /\ Goto(c, "commit")
    /\ UNCHANGED <<table, draft, lockedBy, req, merged, matched, answer>>

\* unique_violation is no error the repository knows: 500.
UniqueViolation(c) ==
    /\ pc[c] = "index"
    /\ IndexConflict(c, req[c].user, Checking)
    /\ Abort(c)

----------------------------------------------------------------------------
(* DeleteAddress.                                                          *)

FetchForDelete(c) ==
    /\ pc[c] = "fetch"
    /\ req[c].op = "delete"
    /\ LET r == req[c] IN
         IF ~ GetFinds(c, r.id, r.user)
           THEN Refuse(c, 404)
           ELSE /\ Reads(c, IF Seen(c)[r.id].isDefault THEN "countOthers" ELSE "delete")
                /\ UNCHANGED merged

\* Mutant: the count of the addresses is off by one.
CheckLastTooLate(c) ==
    /\ pc[c] = "countOthers"
    /\ IF CountAddressesByUser(c, req[c].user) > 2
         THEN Refuse(c, 400)
         ELSE Reads(c, "delete") /\ UNCHANGED merged

CheckLast(c) ==
    /\ pc[c] = "countOthers"
    /\ IF CountAddressesByUser(c, req[c].user) > 1
         THEN Refuse(c, 400)
         ELSE Reads(c, "delete") /\ UNCHANGED merged

\* DELETE of a row that is gone by then deletes nothing, which is no error.
DeleteRow(c) ==
    /\ pc[c] = "delete"
    /\ LET i == req[c].id IN
         /\ Lockable(c, i)
         /\ IF Live(draft[i]) THEN Write(c, i, Gone) ELSE UNCHANGED tableVars
    /\ Goto(c, "commit")
    /\ UNCHANGED <<req, merged, matched, answer>>

----------------------------------------------------------------------------
(* The end of withTx.                                                      *)

Success(r) ==
    CASE r.op = "create" -> 201
      [] r.op = "update" -> 200
      [] r.op = "delete" -> 204

Commit(c) ==
    /\ pc[c] = "commit"
    /\ CommitWork(c)
    /\ answer' = [answer EXCEPT ![c] = Success(req[c])]
    /\ Finish(c)

\* Mutant: withTx without its deferred Rollback.
ReturnWithoutRollback(c) ==
    /\ pc[c] = "rollback"
    /\ Finish(c)
    /\ UNCHANGED <<table, draft, lockedBy, answer>>

Rollback(c) ==
    /\ pc[c] = "rollback"
    /\ UndoWork(c)
    /\ Finish(c)
    /\ UNCHANGED answer

----------------------------------------------------------------------------
(* What goes wrong around the statements.                                  *)

\* The transactions whose end the statement of connection c waits for.
Blockers(c) ==
    { lockedBy[i] : i \in CASE pc[c] = "unsetRow" -> matched[c]
                            [] pc[c] \in {"write", "delete"} -> {req[c].id}
                            [] pc[c] = "index" -> Rivals(c, req[c].user, Checking)
                            [] OTHER -> {} } \ {c, NoConn}

\* Mutant: a statement that waits for a lock does not heed its context.
CancelUnlessWaiting(c) ==
    /\ pc[c] \in Statement
    /\ Blockers(c) = {}
    /\ Refuse(c, 500)

(***************************************************************************)
(* The request's context ends (its 30 s Timeout, or the client leaves), or *)
(* the connection fails.  The statement returns an error, the deferred     *)
(* Rollback has the same dead context, and pgx closes the connection: the  *)
(* transaction keeps its locks until the server rolls it back.             *)
(***************************************************************************)
Cancel(c) ==
    /\ pc[c] \in Statement
    /\ Refuse(c, 500)

\* COMMIT was sent and its answer never came.
LoseCommit(c) ==
    /\ pc[c] = "commit"
    /\ Goto(c, "lost")
    /\ answer' = [answer EXCEPT ![c] = 500]
    /\ UNCHANGED <<table, draft, lockedBy, req, merged, matched>>

SettleLost(c) ==
    /\ pc[c] = "lost"
    /\ CommitWork(c) \/ UndoWork(c)
    /\ Finish(c)
    /\ UNCHANGED answer

WaitsForItself(c) ==
    \A S \in SUBSET Conn :
        Blockers(c) \subseteq S /\ (\A d \in S : Blockers(d) \subseteq S) => c \in S

\* The server breaks a deadlock by aborting one of its transactions.
BreakDeadlock(c) ==
    /\ WaitsForItself(c)
    /\ Abort(c)

----------------------------------------------------------------------------
Proceed(c) ==
    \/ CheckCap(c) \/ ScanDefault(c) \/ UnsetRow(c) \/ InsertAddress(c)
    \/ FetchForUpdate(c) \/ WriteMerged(c)
    \/ FetchForDelete(c) \/ CheckLast(c) \/ DeleteRow(c)
    \/ EnterIndex(c) \/ UniqueViolation(c) \/ BreakDeadlock(c)
    \/ Commit(c) \/ Rollback(c) \/ SettleLost(c)

Next ==
    \E c \in Conn :
        \/ \E r \in Inputs : Begin(c, r)
        \/ Proceed(c)
        \/ Cancel(c)
        \/ LoseCommit(c)

Spec == Init /\ [][Next]_vars

(***************************************************************************)
(* Fairness.  A statement that can run runs, and the server settles every  *)
(* transaction it was left with.  The router gives every request a context *)
(* that ends after 30 s (api.go, middleware.Timeout), so a request that    *)
(* stays in its transaction is cancelled.  Nothing else is fair: neither   *)
(* the clients, nor the order in which a lock is granted.                  *)
(***************************************************************************)
Fairness == \A c \in Conn : WF_vars(Proceed(c)) /\ WF_vars(Cancel(c))

FairSpec == Spec /\ Fairness

(***************************************************************************)
(* Clients that take turns: a user sends a request when the transaction of *)
(* the one before has ended, as one app that waits for its answers does,   *)
(* and after a 500 waits until the server has settled what it left.  The   *)
(* requests of different users overlap as they like.                       *)
(***************************************************************************)
OneRequestPerUser ==
    \A c, d \in Conn :
        c # d /\ pc[c] # "idle" /\ pc[d] # "idle" => req[c].user # req[d].user

TakingTurns == Init /\ [][Next /\ OneRequestPerUser']_vars

----------------------------------------------------------------------------
(* Safety.                                                                 *)

\* However requests interleave, no user ever has two committed defaults: a
\* client of ListAddresses sees one at most (README, "exactly one default").
AtMostOneDefault ==
    \A u \in User : \A i, j \in DefaultsOf(table, u) : i = j

\* The cap of constants.go: no user saves more than MaxAddresses addresses.
CapRespected ==
    \A u \in User : Cardinality(AddressesOf(table, u)) <= MaxAddresses

\* What is left of the cap when creations overlap between their count and
\* their commit: each connection but one can add one address beyond it.
AddressesBoundedByPool ==
    \A u \in User :
        Cardinality(AddressesOf(table, u)) <= MaxAddresses - 1 + Cardinality(Conn)

\* The rule the README states of every user: saved addresses have a default.
SomeDefault ==
    \A u \in User : AddressesOf(table, u) # {} => DefaultsOf(table, u) # {}

\* A row has an uncommitted version exactly while a transaction in progress
\* holds its lock: an answered request leaves nothing behind in the table.
NothingLeftBehind ==
    \A i \in AddressId :
        /\ lockedBy[i] = NoConn => draft[i] = table[i]
        /\ lockedBy[i] # NoConn => pc[lockedBy[i]] \in Running

----------------------------------------------------------------------------
(* Why AtMostOneDefault and AddressesBoundedByPool hold: their inductive   *)
(* invariants, whose parts are proved in AddressProofs.                    *)

\* The statements of an operation belong to requests of that operation.
RequestsInPlace ==
    \A c \in Conn :
        /\ pc[c] # "idle" => req[c] # NoRequest
        /\ pc[c] \in {"count", "insert"} => req[c].op = "create"
        /\ pc[c] \in {"unset", "unsetRow", "index"} => req[c].op \in {"create", "update"}
        /\ pc[c] = "write" => req[c].op = "update"
        /\ pc[c] \in {"countOthers", "delete"} => req[c].op = "delete"

\* The row to write is the caller's, and so is the one it replaces, unless it
\* was deleted since it was fetched.
MergedInPlace ==
    \A c \in Conn : pc[c] \in {"unset", "unsetRow", "insert", "write"} =>
        /\ merged[c] \in Row
        /\ merged[c].owner = req[c].user
        /\ req[c].op = "update" =>
             table[req[c].id] = Gone \/ req[c].id \in AddressesOf(table, req[c].user)

\* A deleted row stays deleted and a row never changes hands.
OwnersKept ==
    \A i \in AddressId :
        /\ table[i] = Gone => draft[i] = Gone
        /\ Live(table[i]) => \/ draft[i] = Gone
                             \/ Live(draft[i]) /\ draft[i].owner = table[i].owner

\* A transaction holds no lock before its first write, and no new default
\* before it has written its own row.
LocksInPlace ==
    \A i \in AddressId :
        /\ lockedBy[i] = NoConn => draft[i] = table[i]
        /\ lockedBy[i] # NoConn => pc[lockedBy[i]] \in Running \ {"count", "fetch", "unset", "countOthers", "delete"}

NewDefaultsInPlace ==
    \A u \in User : \A i \in DefaultsOf(draft, u) :
        lockedBy[i] # NoConn => /\ pc[lockedBy[i]] \in {"index", "commit", "lost", "rollback"}
                               /\ req[lockedBy[i]].user = u

OneNewDefault ==
    \A u \in User : \A i, j \in DefaultsOf(draft, u) :
        lockedBy[i] # NoConn /\ lockedBy[i] = lockedBy[j] => i = j

\* A default is claimed by a row that has it for good, or by one whose
\* transaction has entered it in the index and may commit.
Claims(u) ==
    {i \in DefaultsOf(draft, u) :
        lockedBy[i] # NoConn => pc[lockedBy[i]] \in {"commit", "lost"}}

OneClaim == \A u \in User : \A i, j \in Claims(u) : i = j

\* The one who claims the default has the lock of the row that loses it.
ClaimsLockOldDefault ==
    \A u \in User : \A i \in Claims(u) : \A j \in DefaultsOf(table, u) :
        i # j => lockedBy[i] # NoConn /\ lockedBy[j] = lockedBy[i]

DefaultInv ==
    /\ TypeOK
    /\ RequestsInPlace
    /\ MergedInPlace
    /\ OwnersKept
    /\ LocksInPlace
    /\ NewDefaultsInPlace
    /\ OneNewDefault
    /\ OneClaim
    /\ ClaimsLockOldDefault
    /\ AtMostOneDefault

\* A transaction adds one row at most, and only a creation adds one, for its
\* caller.
OneNewRow ==
    \A i \in AddressId : lockedBy[i] # NoConn /\ table[i] = Unborn =>
        /\ pc[lockedBy[i]] \in {"index", "commit", "lost", "rollback"}
        /\ req[lockedBy[i]].op = "create"
        /\ Live(draft[i]) => draft[i].owner = req[lockedBy[i]].user
        /\ \A j \in AddressId : lockedBy[j] = lockedBy[i] /\ table[j] = Unborn => i = j

\* The connections whose creation for user u has passed the count.
Creating(u) ==
    {c \in Conn : /\ pc[c] \in {"unset", "unsetRow", "insert", "index", "commit", "lost"}
                  /\ req[c].op = "create"
                  /\ req[c].user = u}

\* The addresses saved and those on their way fill the cap and the pool.
CreationsCounted ==
    \A u \in User :
        Cardinality(AddressesOf(table, u)) + Cardinality(Creating(u))
            <= MaxAddresses - 1 + Cardinality(Conn)

CapInv == DefaultInv /\ OneNewRow /\ CreationsCounted

----------------------------------------------------------------------------
(* Steps.                                                                  *)

\* A user who has a default keeps one for as long as they have an address: no
\* request, and no pair of requests, leaves zero defaults where there was one
\* (README, "the API rejects requests that would leave zero defaults").
KeepsSomeDefault ==
    [][ \A u \in User :
          DefaultsOf(table, u) # {} /\ AddressesOf(table', u) # {}
            => DefaultsOf(table', u) # {} ]_table

\* However requests overlap, a user loses their last default only with its own
\* row: to the commit of its deletion, or of an update of that row that leaves
\* is_default out and writes back the flag it fetched before the row became the
\* default.  Never to a creation, to a request that moves the default, or to one
\* for another address (README, "exactly one default").
DefaultSurvivesMoves ==
    [][ \A u \in User :
          DefaultsOf(table, u) # {} /\ DefaultsOf(table', u) = {}
            => \E c \in Conn :
                 /\ pc[c] \in {"commit", "lost"} /\ pc'[c] = "idle"
                 /\ req[c].user = u
                 /\ \/ req[c].op = "delete"
                    \/ req[c].op = "update" /\ ~ req[c].isDefault
                 /\ DefaultsOf(table, u) = {req[c].id} ]_table

\* The read-merge-write of UpdateAddress is atomic: the label of a saved row
\* changes only to the label the committing request sent for that row.
EditsOnlyWhatWasSent ==
    [][ \A i \in AddressId :
          Live(table[i]) /\ Live(table'[i]) /\ table'[i].label # table[i].label
            => /\ lockedBy[i] \in Conn
               /\ req[lockedBy[i]].op = "update"
               /\ req[lockedBy[i]].id = i
               /\ req[lockedBy[i]].label = table'[i].label ]_table

----------------------------------------------------------------------------
(* Liveness.                                                               *)

\* Every request that got a connection gives it back: no lock wait, deadlock,
\* lost connection or lost commit keeps it from the pool for ever.
EveryRequestEnds == \A c \in Conn : pc[c] # "idle" ~> pc[c] = "idle"

\* No row stays locked for ever behind a request that failed.
EveryLockReleased ==
    \A i \in AddressId : lockedBy[i] # NoConn ~> lockedBy[i] = NoConn

----------------------------------------------------------------------------
(* The promise.                                                            *)

Asked == [c \in Conn |-> IF pc[c] = "rollback" THEN NoRequest ELSE req[c]]

Overlapping == INSTANCE AddressBook WITH
    book <- table, asked <- Asked, Client <- Conn,
    InitialBooks <- InitialTables, Serial <- FALSE

OneAtATime == INSTANCE AddressBook WITH
    book <- table, asked <- Asked, Client <- Conn,
    InitialBooks <- InitialTables, Serial <- TRUE

\* Concurrent requests implement the promise of AddressBook for overlapping
\* requests: effects are atomic, at most once, the caller's own and announced.
KeepsPromise == Overlapping!Spec

\* The requests of users who take turns implement the exact promise of AddressBook.
KeepsExactPromise == OneAtATime!Spec

=============================================================================
