------------------------------- MODULE Accounts -------------------------------
(***************************************************************************)
(* Accounts: the users table, the copy the sign-up trigger makes of        *)
(* auth.users, the rows that hang on a user (profile, role, addresses) and *)
(* GetMe and UpsertUserProfile of internal/users/repository.go.            *)
(*                                                                         *)
(* Supabase Auth owns auth.users: it signs users up, changes their e-mail  *)
(* and removes them, each in a transaction of its own.  The removal        *)
(* cascades, row by row, while the API's statements go on.  A write of a   *)
(* dependent row is one statement and several steps: the row, the check of *)
(* its foreign key, the commit.  status, phone and timestamps ride along:  *)
(* no statement of the API asks for them.                                  *)
(***************************************************************************)
EXTENDS FiniteSets

CONSTANTS
    User,       \* the ids of auth.users and of users
    Email,
    Field,      \* the nullable columns of a profile
    Role,       \* app_role
    Conn,       \* connections: each serves one request at a time
    Requests,   \* the requests that come in
    NoRow,      \* a row that does not exist
    Unborn,     \* the e-mail of an id that is not signed up yet
    Gone,       \* the e-mail of an id whose user was removed
    NoRequest   \* what an idle connection serves

\* Dependent tables whose key is the user: a second write updates the row.
Upserted == {"profile", "role"}

Table == Upserted \cup {"addresses"}

\* A profile is the set of the fields that are not NULL.
Value == [t \in Table |-> CASE t = "profile" -> SUBSET Field
                            [] t = "role" -> Role
                            [] OTHER -> {"row"}]

Writes == UNION {[op : {t}, user : User, value : Value[t]] : t \in Table}

Reads == [op : {"me"}, user : User, value : {"none"}]

ASSUME RequestsAssumption == Requests \subseteq Writes \cup Reads
ASSUME NoRequestAssumption == NoRequest \notin Writes \cup Reads
ASSUME NoRowAssumption == \A t \in Table : \A v \in Value[t] : v # NoRow
ASSUME NoEmailAssumption == Email \cap {Unborn, Gone} = {} /\ Unborn # Gone

Account == [email : Email, deleted : BOOLEAN]

ASSUME NoAccountAssumption == NoRow \notin Account

VARIABLES
    auth,     \* the committed e-mail of every user of auth.users
    users,    \* the committed row of users: e-mail, and whether deleted_at is set
    child,    \* the committed dependent row of every table and user
    removal,  \* how far the transaction that removes the user has come
    doomed,   \* the dependent rows that transaction has deleted
    stage,    \* what each connection does next
    req,      \* the request each connection serves
    got,      \* the statements of GetMe that have returned a row or none
    shown,    \* the role GetMe has read
    answer    \* the status of the latest request, 0 while undecided

rows == <<auth, users, child, removal, doomed>>
conns == <<stage, req, got, shown, answer>>
vars == <<rows, conns>>

Removal == {"none", "begun", "usersDeleted", "cascaded"}

Stage == {"idle", "write", "check", "inserted", "updated", "reading"}

TypeOK ==
    /\ auth \in [User -> Email \cup {Unborn, Gone}]
    /\ users \in [User -> Account \cup {NoRow}]
    /\ DOMAIN child = Table
    /\ \A t \in Table : child[t] \in [User -> {NoRow} \cup Value[t]]
    /\ removal \in [User -> Removal]
    /\ doomed \in [User -> SUBSET Table]
    /\ stage \in [Conn -> Stage]
    /\ req \in [Conn -> Writes \cup Reads \cup {NoRequest}]
    /\ got \in [Conn -> SUBSET {"user", "role"}]
    /\ shown \in [Conn -> Role \cup {NoRow}]
    /\ answer \in [Conn -> {0, 200, 201, 404, 500}]

Init ==
    /\ auth = [u \in User |-> Unborn]
    /\ users = [u \in User |-> NoRow]
    /\ child = [t \in Table |-> [u \in User |-> NoRow]]
    /\ removal = [u \in User |-> "none"]
    /\ doomed = [u \in User |-> {}]
    /\ stage = [c \in Conn |-> "idle"]
    /\ req = [c \in Conn |-> NoRequest]
    /\ got = [c \in Conn |-> {}]
    /\ shown = [c \in Conn |-> NoRow]
    /\ answer = [c \in Conn |-> 0]

----------------------------------------------------------------------------
(* Supabase Auth.                                                          *)

\* Mutant: ON CONFLICT DO NOTHING without its target, so that a taken e-mail
\* is no error either.
SkipTakenEmail(u, e) ==
    users' = IF \E v \in User : users[v] # NoRow /\ users[v].email = e
               THEN users
               ELSE [users EXCEPT ![u] = [email |-> e, deleted |-> FALSE]]

\* handle_new_auth_user.  The id is new; an e-mail that another row holds is an
\* error, and so is one that is missing (Email holds no NULL).
CopyUser(u, e) ==
    /\ \A v \in User : users[v] # NoRow => users[v].email # e
    /\ users' = [users EXCEPT ![u] = [email |-> e, deleted |-> FALSE]]

\* The trigger runs inside the sign-up: if it fails, nothing has happened.
SignUp(u, e) ==
    /\ auth[u] = Unborn
    /\ \A v \in User : auth[v] # e
    /\ CopyUser(u, e)
    /\ auth' = [auth EXCEPT ![u] = e]
    /\ UNCHANGED <<child, removal, doomed, conns>>

Exists(u) == auth[u] \in Email

\* No trigger follows an e-mail that changes.
ChangeEmail(u, e) ==
    /\ Exists(u)
    /\ removal[u] = "none"
    /\ \A v \in User : auth[v] # e
    /\ auth' = [auth EXCEPT ![u] = e]
    /\ UNCHANGED <<users, child, removal, doomed, conns>>

BeginRemoval(u) ==
    /\ Exists(u)
    /\ removal[u] = "none"
    /\ removal' = [removal EXCEPT ![u] = "begun"]
    /\ UNCHANGED <<auth, users, child, doomed, conns>>

\* Mutant: the check of a foreign key reads the row without locking it.
NobodyRefers(u) == TRUE

\* A statement that has checked its foreign key holds a key share lock on the
\* users row until it ends.
Unreferenced(u) == \A c \in Conn : stage[c] = "inserted" => req[c].user # u

\* ON DELETE CASCADE from auth.users to users.
DeleteUsersRow(u) ==
    /\ removal[u] = "begun"
    /\ Unreferenced(u)
    /\ removal' = [removal EXCEPT ![u] = "usersDeleted"]
    /\ UNCHANGED <<auth, users, child, doomed, conns>>

\* ON DELETE CASCADE from users to the dependent tables: the rows that are
\* committed by now, once their writers have ended.
DeleteDependents(u) ==
    /\ removal[u] = "usersDeleted"
    /\ \A c \in Conn : stage[c] = "updated" => req[c].user # u
    /\ doomed' = [doomed EXCEPT ![u] = {t \in Table : child[t][u] # NoRow}]
    /\ removal' = [removal EXCEPT ![u] = "cascaded"]
    /\ UNCHANGED <<auth, users, child, conns>>

CommitRemoval(u) ==
    /\ removal[u] = "cascaded"
    /\ auth' = [auth EXCEPT ![u] = Gone]
    /\ users' = [users EXCEPT ![u] = NoRow]
    /\ child' = [t \in Table |-> [child[t] EXCEPT ![u] = IF t \in doomed[u] THEN NoRow ELSE @]]
    /\ removal' = [removal EXCEPT ![u] = "none"]
    /\ doomed' = [doomed EXCEPT ![u] = {}]
    /\ UNCHANGED conns

AbortRemoval(u) ==
    /\ removal[u] # "none"
    /\ removal' = [removal EXCEPT ![u] = "none"]
    /\ doomed' = [doomed EXCEPT ![u] = {}]
    /\ UNCHANGED <<auth, users, child, conns>>

\* SoftDeleteUser, a query for the back office: nothing in the API calls it.
SoftDeleteUser(u) ==
    /\ users[u] # NoRow
    /\ removal[u] \in {"none", "begun"}
    /\ users' = [users EXCEPT ![u].deleted = TRUE]
    /\ UNCHANGED <<auth, child, removal, doomed, conns>>

AuthStep(u) ==
    \/ \E e \in Email : SignUp(u, e) \/ ChangeEmail(u, e)
    \/ BeginRemoval(u) \/ DeleteUsersRow(u) \/ DeleteDependents(u)
    \/ CommitRemoval(u) \/ AbortRemoval(u)
    \/ SoftDeleteUser(u)

----------------------------------------------------------------------------
(* The API's requests.                                                     *)

Goto(c, next) == stage' = [stage EXCEPT ![c] = next]

Forget(c) ==
    /\ req' = [req EXCEPT ![c] = NoRequest]
    /\ got' = [got EXCEPT ![c] = {}]
    /\ shown' = [shown EXCEPT ![c] = NoRow]

Finish(c, status) ==
    /\ Goto(c, "idle")
    /\ Forget(c)
    /\ answer' = [answer EXCEPT ![c] = status]

\* A token is verified without asking whether its user still exists.
Begin(c, r) ==
    /\ stage[c] = "idle"
    /\ Goto(c, IF r.op = "me" THEN "reading" ELSE "write")
    /\ req' = [req EXCEPT ![c] = r]
    /\ answer' = [answer EXCEPT ![c] = 0]
    /\ UNCHANGED <<rows, got, shown>>

\* What may still be completed on the server when nobody waits for it: an upsert,
\* which commits by itself, and the COMMIT of a new address.
OutlivesRequest(c) == req[c].op \in Upserted \/ stage[c] = "inserted"

\* The request's context ends, or its connection fails: the client gets 500.
Abandon(c) ==
    /\ stage[c] # "idle"
    /\ answer[c] = 0
    /\ \/ ~ OutlivesRequest(c) /\ Finish(c, 500)
       \/ /\ OutlivesRequest(c)
          /\ answer' = [answer EXCEPT ![c] = 500]
          /\ UNCHANGED <<stage, req, got, shown>>
    /\ UNCHANGED rows

\* The server gives up an abandoned write.
Undo(c) ==
    /\ stage[c] # "idle"
    /\ answer[c] = 500
    /\ Finish(c, 500)
    /\ UNCHANGED rows

\* The other statements that have written the row connection c is to write.
RivalWriters(c) ==
    {d \in Conn \ {c} : /\ stage[d] \in {"check", "inserted", "updated"}
                        /\ req[d].op = req[c].op
                        /\ req[d].user = req[c].user}

Continue(c, next) == Goto(c, next) /\ UNCHANGED <<req, got, shown, answer>>

\* Mutant: UPDATE where the code has INSERT ... ON CONFLICT.
UpdateOnly(c, t, u) ==
    IF child[t][u] = NoRow THEN Finish(c, 500) ELSE Continue(c, "updated")

\* An upsert does not touch the key of a row it updates, so no foreign key is
\* checked then.
PutRow(c, t, u) == Continue(c, IF child[t][u] = NoRow THEN "check" ELSE "updated")

\* UpsertUserProfile, SetUserRole and the insert of an address.  An upsert
\* waits for whoever is writing or deleting its row.
WriteRow(c) ==
    /\ stage[c] = "write"
    /\ LET t == req[c].op
           u == req[c].user IN
         IF t \in Upserted
           THEN RivalWriters(c) = {} /\ t \notin doomed[u] /\ PutRow(c, t, u)
           ELSE Continue(c, "check")
    /\ UNCHANGED rows

\* The foreign key of an inserted row: the users row must be there and not be
\* deleted by a transaction that is still running, which is waited for.
CheckUser(c) ==
    /\ stage[c] = "check"
    /\ LET u == req[c].user IN
         /\ removal[u] \in {"none", "begun"}
         /\ IF users[u] = NoRow
              THEN Finish(c, 500)
              ELSE Continue(c, "inserted")
    /\ UNCHANGED rows

\* Mutant: COALESCE(EXCLUDED.x, x), which keeps what is not sent.
KeepUnsent(c) ==
    LET old == child[req[c].op][req[c].user] IN
    IF req[c].op = "profile" /\ old # NoRow THEN old \cup req[c].value ELSE req[c].value

\* Every column is set from EXCLUDED.
NewValue(c) == req[c].value

\* Mutant: the handlers of PUT write no body.
NoContent(c) == IF req[c].op = "addresses" THEN 201 ELSE 204

Success(c) == IF req[c].op = "addresses" THEN 201 ELSE 200

CommitRow(c) ==
    /\ stage[c] \in {"inserted", "updated"}
    /\ child' = [child EXCEPT ![req[c].op][req[c].user] = NewValue(c)]
    /\ Finish(c, IF answer[c] = 0 THEN Success(c) ELSE answer[c])
    /\ UNCHANGED <<auth, users, removal, doomed>>

\* Mutant: a missing role row is taken for a missing user.
MissingRole(c) ==
    IF child["role"][req[c].user] = NoRow
      THEN Finish(c, 404)
      ELSE /\ got' = [got EXCEPT ![c] = @ \cup {"role"}]
           /\ shown' = [shown EXCEPT ![c] = child["role"][req[c].user]]
           /\ UNCHANGED <<stage, req, answer>>

\* The row of user_roles, or none, which is no error.
TakeRole(c) ==
    /\ got' = [got EXCEPT ![c] = @ \cup {"role"}]
    /\ shown' = [shown EXCEPT ![c] = child["role"][req[c].user]]
    /\ UNCHANGED <<stage, req, answer>>

\* GetUserRole.  Neither statement of GetMe knows the snapshot of the other.
ReadRole(c) ==
    /\ stage[c] = "reading" /\ "role" \notin got[c]
    /\ TakeRole(c)
    /\ UNCHANGED rows

Visible(u) == users[u] # NoRow /\ ~ users[u].deleted

\* GetUserWithProfile.  The first error of the two cancels the other statement
\* and is the answer.
ReadUser(c) ==
    /\ stage[c] = "reading" /\ "user" \notin got[c]
    /\ IF Visible(req[c].user)
         THEN got' = [got EXCEPT ![c] = @ \cup {"user"}] /\ UNCHANGED <<stage, req, shown, answer>>
         ELSE Finish(c, 404)
    /\ UNCHANGED rows

\* g.Wait returns nil.
Join(c) ==
    /\ stage[c] = "reading" /\ got[c] = {"user", "role"}
    /\ Finish(c, 200)
    /\ UNCHANGED rows

Statement(c) ==
    \/ WriteRow(c) \/ CheckUser(c) \/ CommitRow(c)
    \/ ReadRole(c) \/ ReadUser(c) \/ Join(c)

----------------------------------------------------------------------------
Next ==
    \/ \E u \in User : AuthStep(u)
    \/ \E c \in Conn :
         \/ \E r \in Requests : Begin(c, r)
         \/ Statement(c)
         \/ Abandon(c)
         \/ Undo(c)

Spec == Init /\ [][Next]_vars

----------------------------------------------------------------------------
(* Properties, and the inductive invariant they follow from.               *)

\* Nobody is signed up without an account, and no account outlives its user,
\* although the trigger may fail and a removal comes in steps.
AccountsMirrorAuth == \A u \in User : users[u] # NoRow <=> Exists(u)

\* A profile, a role or an address belongs to an account that exists, whatever
\* overlaps the removal of the account.
NoOrphans == \A t \in Table, u \in User : child[t][u] # NoRow => users[u] # NoRow

\* A removal in progress is one of an existing user; whoever has checked its
\* foreign key keeps the users row, whoever updates keeps the row it updates,
\* and a cascade has found every dependent row there is.
RemovalsInPlace ==
    /\ \A u \in User : removal[u] # "none" => Exists(u)
    /\ \A u \in User : removal[u] # "cascaded" => doomed[u] = {}
    /\ \A u \in User : removal[u] = "cascaded" =>
         doomed[u] = {t \in Table : child[t][u] # NoRow}

WritersInPlace ==
    \A c \in Conn :
        /\ stage[c] # "idle" => answer[c] \in {0, 500} /\ req[c] \in Writes \cup Reads
        /\ stage[c] \in {"write", "check", "inserted", "updated"} => req[c] \in Writes
        /\ stage[c] = "reading" => req[c] \in Reads
        /\ stage[c] # "reading" => got[c] = {}
        /\ stage[c] = "inserted" =>
             /\ users[req[c].user] # NoRow
             /\ removal[req[c].user] \in {"none", "begun"}
        /\ stage[c] = "updated" =>
             /\ child[req[c].op][req[c].user] # NoRow
             /\ removal[req[c].user] # "cascaded"

AccountInv == TypeOK /\ AccountsMirrorAuth /\ NoOrphans /\ RemovalsInPlace /\ WritersInPlace

\* The write of connection c ends, and its client is told 2xx now or was told
\* 500 when the request was given up.
WriteEnds(c) ==
    /\ stage[c] \in {"inserted", "updated"} /\ stage'[c] = "idle"
    /\ IF answer[c] = 0 THEN answer'[c] \in {200, 201} ELSE answer[c] = 500

\* A dependent row is as a whole what one request sent, or goes with its
\* account: a PUT of a profile mixes with no other, one that is answered 200 is
\* in force then, and one whose client was told 500 comes late, but complete and
\* at most once (it ends with it).
RowsAreWhatWasSent ==
    [][ /\ \A t \in Table, u \in User : child'[t][u] # child[t][u] =>
             \/ users'[u] = NoRow /\ child'[t][u] = NoRow
             \/ \E c \in Conn : /\ WriteEnds(c)
                                /\ req[c].op = t /\ req[c].user = u
                                /\ child'[t][u] = req[c].value
        /\ \A c \in Conn : answer[c] = 0 /\ answer'[c] \in {200, 201} /\ req[c].op \in Table =>
             child'[req[c].op][req[c].user] = req[c].value ]_vars

=============================================================================
