---------------------------- MODULE AccountProofs -----------------------------
(***************************************************************************)
(* What holds of Accounts for every number of users, e-mails, roles and    *)
(* connections.                                                            *)
(***************************************************************************)
EXTENDS AccountAnswers, TLAPS

----------------------------------------------------------------------------
(* Requests.                                                               *)

\* The fields of a write.
LEMMA WriteFields ==
    ASSUME NEW r \in Writes
    PROVE  r.op \in Table /\ r.user \in User /\ r.value \in Value[r.op] /\ r.op # "me"
<1>1. PICK t \in Table : r \in [op : {t}, user : User, value : Value[t]]
    BY DEF Writes
<1> QED
    BY <1>1 DEF Table, Upserted

\* The fields of a read.
LEMMA ReadFields ==
    ASSUME NEW r \in Reads
    PROVE  r.op = "me" /\ r.user \in User /\ r.op \notin Table
BY DEF Reads, Table, Upserted

\* What is written is a row.
LEMMA ValuesAreRows ==
    ASSUME NEW t \in Table, NEW v \in Value[t]
    PROVE  v # NoRow
BY NoRowAssumption

\* What the trigger inserts is an account, and no missing row.
LEMMA CopiesAreAccounts ==
    ASSUME NEW e \in Email
    PROVE  /\ [email |-> e, deleted |-> FALSE] \in Account
           /\ [email |-> e, deleted |-> FALSE] # NoRow
<1>1. [email |-> e, deleted |-> FALSE] \in Account
    BY DEF Account
<1> QED
    BY <1>1, NoAccountAssumption

\* A soft deletion replaces one account by another.
LEMMA SoftDeletionKeepsAccounts ==
    ASSUME TypeOK, NEW u \in User, SoftDeleteUser(u)
    PROVE  /\ users' \in [User -> Account \cup {NoRow}]
           /\ users'[u] # NoRow
           /\ \A v \in User \ {u} : users'[v] = users[v]
<1> DEFINE new == [users[u] EXCEPT !.deleted = TRUE]
<1>1. users[u] \in Account
    BY DEF TypeOK, SoftDeleteUser
<1>2. new \in Account
    BY <1>1 DEF Account
<1>3. new # NoRow
    BY <1>2, NoAccountAssumption
<1>4. users' = [users EXCEPT ![u] = new]
    BY DEF SoftDeleteUser
<1> QED
    BY <1>2, <1>3, <1>4 DEF TypeOK

\* The values of a role column are the roles.
LEMMA RoleColumn == "role" \in Table /\ Value["role"] = Role
BY DEF Table, Upserted, Value

\* Every step is one of Supabase Auth or of one connection.
LEMMA StepKinds ==
    ASSUME [Next]_vars
    PROVE  \/ UNCHANGED vars
           \/ \E u \in User : AuthStep(u)
           \/ \E c \in Conn : \/ \E r \in Requests : Begin(c, r)
                            \/ Statement(c) \/ Abandon(c) \/ Undo(c)
BY DEF Next

----------------------------------------------------------------------------
(* The invariant.                                                          *)

\* The invariant holds of the empty tables.
LEMMA AccountInvInit == Init => AccountInv
<1> SUFFICES ASSUME Init PROVE AccountInv
    OBVIOUS
<1>1. TypeOK
    BY DEF Init, TypeOK, Removal, Stage
<1>2. AccountsMirrorAuth
    BY NoEmailAssumption DEF Init, AccountsMirrorAuth, Exists
<1>3. NoOrphans /\ RemovalsInPlace /\ WritersInPlace
    BY DEF Init, NoOrphans, RemovalsInPlace, WritersInPlace
<1> QED
    BY <1>1, <1>2, <1>3 DEF AccountInv

\* Requests in progress are typed.
LEMMA InProgress ==
    ASSUME AccountInv, NEW c \in Conn, stage[c] # "idle"
    PROVE  /\ req[c].user \in User
           /\ stage[c] \in {"write", "check", "inserted", "updated"} =>
                req[c] \in Writes /\ req[c].op \in Table /\ req[c].value \in Value[req[c].op]
BY WriteFields, ReadFields DEF AccountInv, WritersInPlace

\* Every step keeps the type of every variable.
LEMMA TypeStep ==
    ASSUME AccountInv, [Next]_vars
    PROVE  TypeOK'
<1> USE DEF AccountInv, TypeOK
<1>1. CASE UNCHANGED vars
    BY <1>1 DEF vars, rows, conns
<1>2. ASSUME NEW u \in User, AuthStep(u) PROVE TypeOK'
  <2>1. ASSUME NEW e \in Email, SignUp(u, e) PROVE TypeOK'
      BY <2>1, CopiesAreAccounts DEF SignUp, CopyUser, conns
  <2>2. ASSUME NEW e \in Email, ChangeEmail(u, e) PROVE TypeOK'
      BY <2>2 DEF ChangeEmail, conns
  <2>3. CASE BeginRemoval(u)
      BY <2>3 DEF BeginRemoval, Removal, conns
  <2>4. CASE DeleteUsersRow(u)
      BY <2>4 DEF DeleteUsersRow, Removal, conns
  <2>5. CASE DeleteDependents(u)
      BY <2>5 DEF DeleteDependents, Removal, conns
  <2>6. CASE CommitRemoval(u)
      BY <2>6 DEF CommitRemoval, Removal, conns
  <2>7. CASE AbortRemoval(u)
      BY <2>7 DEF AbortRemoval, Removal, conns
  <2>8. CASE SoftDeleteUser(u)
      BY <2>8, SoftDeletionKeepsAccounts DEF SoftDeleteUser, conns
  <2> QED
      BY <1>2, <2>1, <2>2, <2>3, <2>4, <2>5, <2>6, <2>7, <2>8 DEF AuthStep
<1>3. ASSUME NEW c \in Conn, NEW r \in Requests, Begin(c, r) PROVE TypeOK'
    BY <1>3, RequestsAssumption DEF Begin, Goto, Stage, rows
<1>4. ASSUME NEW c \in Conn, Abandon(c) \/ Undo(c) PROVE TypeOK'
    BY <1>4 DEF Abandon, Undo, Finish, Goto, Forget, Stage, rows
<1>5. ASSUME NEW c \in Conn, Statement(c) PROVE TypeOK'
  <2>1. CASE WriteRow(c)
      BY <2>1 DEF WriteRow, PutRow, Continue, Goto, Stage, rows
  <2>2. CASE CheckUser(c)
      BY <2>2 DEF CheckUser, Finish, Forget, Continue, Goto, Stage, rows
  <2>3. CASE CommitRow(c)
    <3>1. /\ req[c].op \in Table /\ req[c].user \in User
          /\ req[c].value \in Value[req[c].op]
        BY <2>3, InProgress DEF CommitRow
    <3>2. DOMAIN child' = Table /\ \A t \in Table : child'[t] \in [User -> {NoRow} \cup Value[t]]
        BY <2>3, <3>1 DEF CommitRow, NewValue
    <3> QED
        BY <2>3, <3>2 DEF CommitRow, Finish, Forget, Success, Goto, Stage, WritersInPlace
  <2>4. CASE ReadRole(c)
    <3>1. child["role"][req[c].user] \in Role \cup {NoRow}
        BY <2>4, InProgress, RoleColumn DEF ReadRole
    <3> QED
        BY <2>4, <3>1 DEF ReadRole, TakeRole, rows
  <2>5. CASE ReadUser(c)
      BY <2>5 DEF ReadUser, Finish, Forget, Goto, Stage, rows
  <2>6. CASE Join(c)
      BY <2>6 DEF Join, Finish, Forget, Goto, Stage, rows
  <2> QED
      BY <1>5, <2>1, <2>2, <2>3, <2>4, <2>5, <2>6 DEF Statement
<1> QED
    BY <1>1, <1>2, <1>3, <1>4, <1>5, StepKinds

\* A statement that has not come to its commit leaves all rows alone.
LEMMA QuietSteps ==
    ASSUME NEW c \in Conn,
           (\E r \in Requests : Begin(c, r)) \/ Abandon(c) \/ Undo(c) \/ WriteRow(c)
             \/ CheckUser(c) \/ ReadRole(c) \/ ReadUser(c) \/ Join(c)
    PROVE  UNCHANGED rows
BY DEF Begin, Abandon, Undo, WriteRow, CheckUser, ReadRole, ReadUser, Join

\* Users and accounts come and go together; a commit needs the account.
LEMMA RowsStep ==
    ASSUME AccountInv, [Next]_vars
    PROVE  AccountsMirrorAuth' /\ NoOrphans' /\ RemovalsInPlace'
<1> USE DEF AccountInv, TypeOK, AccountsMirrorAuth, NoOrphans, RemovalsInPlace, Exists
<1>1. CASE UNCHANGED rows
    BY <1>1 DEF rows
<1>2. ASSUME NEW u \in User, AuthStep(u)
      PROVE  AccountsMirrorAuth' /\ NoOrphans' /\ RemovalsInPlace'
  <2>1. ASSUME NEW e \in Email, SignUp(u, e)
        PROVE  AccountsMirrorAuth' /\ NoOrphans' /\ RemovalsInPlace'
    <3>1. [email |-> e, deleted |-> FALSE] # NoRow
        BY CopiesAreAccounts
    <3> QED
        BY <2>1, <3>1, NoEmailAssumption DEF SignUp, CopyUser
  <2>2. ASSUME NEW e \in Email, ChangeEmail(u, e)
        PROVE  AccountsMirrorAuth' /\ NoOrphans' /\ RemovalsInPlace'
      BY <2>2 DEF ChangeEmail
  <2>3. CASE BeginRemoval(u)
      BY <2>3 DEF BeginRemoval
  <2>4. CASE DeleteUsersRow(u)
      BY <2>4 DEF DeleteUsersRow
  <2>5. CASE DeleteDependents(u)
      BY <2>5 DEF DeleteDependents
  <2>6. CASE CommitRemoval(u)
    <3>1. \A t \in Table : child'[t][u] = NoRow
        BY <2>6 DEF CommitRemoval
    <3>2. \A t \in Table, v \in User \ {u} : child'[t][v] = child[t][v]
        BY <2>6 DEF CommitRemoval
    <3> QED
        BY <2>6, <3>1, <3>2, NoEmailAssumption DEF CommitRemoval
  <2>7. CASE AbortRemoval(u)
      BY <2>7 DEF AbortRemoval
  <2>8. CASE SoftDeleteUser(u)
    <3>1. users'[u] # NoRow /\ \A v \in User \ {u} : users'[v] = users[v]
        BY <2>8, SoftDeletionKeepsAccounts
    <3> QED
        BY <2>8, <3>1 DEF SoftDeleteUser
  <2> QED
      BY <1>2, <2>1, <2>2, <2>3, <2>4, <2>5, <2>6, <2>7, <2>8 DEF AuthStep
<1>3. ASSUME NEW c \in Conn, CommitRow(c)
      PROVE  AccountsMirrorAuth' /\ NoOrphans' /\ RemovalsInPlace'
  <2> DEFINE t == req[c].op
             u == req[c].user
  <2>1. /\ stage[c] \in {"inserted", "updated"}
        /\ t \in Table /\ u \in User /\ req[c].value # NoRow
      BY <1>3, InProgress, ValuesAreRows DEF CommitRow
  <2>2. users[u] # NoRow
      BY <2>1 DEF WritersInPlace
  <2>3. removal[u] # "cascaded"
      BY <2>1 DEF WritersInPlace
  <2>4. \A s \in Table, v \in User : s # t \/ v # u => child'[s][v] = child[s][v]
      BY <1>3, <2>1 DEF CommitRow
  <2> QED
      BY <1>3, <2>1, <2>2, <2>3, <2>4 DEF CommitRow
<1> QED
    BY <1>1, <1>2, <1>3, StepKinds, QuietSteps DEF Statement, vars

\* A statement keeps what it has locked until it ends.
LEMMA WritersStep ==
    ASSUME AccountInv, [Next]_vars
    PROVE  WritersInPlace'
<1> USE DEF AccountInv, TypeOK, WritersInPlace
<1>1. CASE UNCHANGED vars
    BY <1>1 DEF vars, rows, conns
<1>2. ASSUME NEW u \in User, AuthStep(u) PROVE WritersInPlace'
  <2>1. ASSUME NEW e \in Email, SignUp(u, e) PROVE WritersInPlace'
    <3>1. [email |-> e, deleted |-> FALSE] # NoRow
        BY CopiesAreAccounts
    <3> QED
        BY <2>1, <3>1, InProgress DEF SignUp, CopyUser, conns
  <2>2. ASSUME NEW e \in Email, ChangeEmail(u, e) PROVE WritersInPlace'
      BY <2>2 DEF ChangeEmail, conns
  <2>3. CASE BeginRemoval(u)
      BY <2>3, InProgress DEF BeginRemoval, conns
  <2>4. CASE DeleteUsersRow(u)
      BY <2>4, InProgress DEF DeleteUsersRow, Unreferenced, conns
  <2>5. CASE DeleteDependents(u)
      BY <2>5, InProgress DEF DeleteDependents, conns
  <2>6. CASE CommitRemoval(u)
    <3>1. \A c \in Conn : stage[c] \in {"inserted", "updated"} =>
            /\ req[c].user \in User \ {u}
            /\ stage[c] = "updated" => req[c].op \in Table
      <4> SUFFICES ASSUME NEW c \in Conn, stage[c] \in {"inserted", "updated"}
                   PROVE  req[c].user \in User \ {u} /\ req[c].op \in Table
          OBVIOUS
      <4>1. req[c].user \in User /\ req[c].op \in Table
          BY InProgress
      <4>2. removal[req[c].user] # "cascaded" /\ removal[u] = "cascaded"
          BY <2>6 DEF CommitRemoval
      <4> QED
          BY <4>1, <4>2
    <3>2. \A t \in Table, v \in User \ {u} :
            child'[t][v] = child[t][v] /\ users'[v] = users[v] /\ removal'[v] = removal[v]
        BY <2>6 DEF CommitRemoval
    <3> QED
        BY <2>6, <3>1, <3>2 DEF CommitRemoval, conns
  <2>7. CASE AbortRemoval(u)
      BY <2>7, InProgress DEF AbortRemoval, conns
  <2>8. CASE SoftDeleteUser(u)
    <3>1. \A v \in User : users[v] # NoRow => users'[v] # NoRow
        BY <2>8, SoftDeletionKeepsAccounts
    <3> QED
        BY <2>8, <3>1, InProgress DEF SoftDeleteUser, conns
  <2> QED
      BY <1>2, <2>1, <2>2, <2>3, <2>4, <2>5, <2>6, <2>7, <2>8 DEF AuthStep
<1>3. ASSUME NEW c \in Conn, NEW r \in Requests, Begin(c, r) PROVE WritersInPlace'
  <2>1. /\ r \in Writes \cup Reads
        /\ IF r.op = "me" THEN r \in Reads ELSE r \in Writes
      BY <1>3, RequestsAssumption, ReadFields, WriteFields
  <2> QED
      BY <1>3, <2>1 DEF Begin, Goto, rows
<1>4. ASSUME NEW c \in Conn, Abandon(c) \/ Undo(c) PROVE WritersInPlace'
    BY <1>4 DEF Abandon, Undo, Finish, Goto, Forget, rows
<1>5. ASSUME NEW c \in Conn, Statement(c) PROVE WritersInPlace'
  <2>1. CASE WriteRow(c)
    <3>1. req[c] \in Writes /\ req[c].op \in Table /\ req[c].user \in User
        BY <2>1, InProgress DEF WriteRow
    <3>2. removal[req[c].user] = "cascaded" /\ req[c].op \notin doomed[req[c].user] =>
            child[req[c].op][req[c].user] = NoRow
        BY <3>1 DEF RemovalsInPlace
    <3> QED
        BY <2>1, <3>1, <3>2 DEF WriteRow, PutRow, Continue, Goto, rows
  <2>2. CASE CheckUser(c)
      BY <2>2 DEF CheckUser, Finish, Forget, Continue, Goto, rows
  <2>3. CASE CommitRow(c)
    <3>1. /\ req[c].op \in Table /\ req[c].user \in User
          /\ req[c].value # NoRow
        BY <2>3, InProgress, ValuesAreRows DEF CommitRow
    <3>2. \A t \in Table, v \in User : child[t][v] # NoRow => child'[t][v] # NoRow
        BY <2>3, <3>1 DEF CommitRow, NewValue
    <3> QED
        BY <2>3, <3>2, InProgress DEF CommitRow, Finish, Forget, Goto
  <2>4. CASE ReadRole(c)
      BY <2>4 DEF ReadRole, TakeRole, rows
  <2>5. CASE ReadUser(c)
      BY <2>5 DEF ReadUser, Finish, Forget, Goto, rows
  <2>6. CASE Join(c)
      BY <2>6 DEF Join, Finish, Forget, Goto, rows
  <2> QED
      BY <1>5, <2>1, <2>2, <2>3, <2>4, <2>5, <2>6 DEF Statement
<1> QED
    BY <1>1, <1>2, <1>3, <1>4, <1>5, StepKinds

\* Every step keeps the invariant.
LEMMA AccountInvStep == AccountInv /\ [Next]_vars => AccountInv'
BY TypeStep, RowsStep, WritersStep DEF AccountInv

\* AccountInv is an invariant, for every number of users and connections.
THEOREM AccountInvHolds == Spec => []AccountInv
<1>1. Init => AccountInv
    BY AccountInvInit
<1>2. AccountInv /\ [Next]_vars => AccountInv'
    BY AccountInvStep
<1> QED
    BY <1>1, <1>2, PTL DEF Spec

----------------------------------------------------------------------------
(* What follows for users and rows.                                        *)

\* Type correctness of Accounts.
THEOREM TypeCorrect == Spec => []TypeOK
<1>1. AccountInv => TypeOK
    BY DEF AccountInv
<1> QED
    BY <1>1, AccountInvHolds, PTL

\* Every signed-up user has an account and no account outlives its user.
THEOREM AccountsMirror == Spec => []AccountsMirrorAuth
<1>1. AccountInv => AccountsMirrorAuth
    BY DEF AccountInv
<1> QED
    BY <1>1, AccountInvHolds, PTL

\* No dependent row outlives its account.
THEOREM RowsHaveAccounts == Spec => []NoOrphans
<1>1. AccountInv => NoOrphans
    BY DEF AccountInv
<1> QED
    BY <1>1, AccountInvHolds, PTL

\* What a step that answers a request has done.
LEMMA AnsweringSteps ==
    ASSUME AccountInv, [Next]_vars, NEW c \in Conn, stage[c] # "idle", stage'[c] = "idle"
    PROVE  \/ CommitRow(c)
           \/ Abandon(c) \/ (Undo(c) /\ answer[c] = 500)
           \/ Join(c) /\ answer'[c] = 200
           \/ ReadUser(c) /\ answer'[c] = 404 /\ ~ Visible(req[c].user)
           \/ CheckUser(c) /\ answer'[c] = 500 /\ users[req[c].user] = NoRow
<1> USE DEF AccountInv, TypeOK
<1>1. CASE UNCHANGED vars
    BY <1>1 DEF vars, conns
<1>2. ASSUME NEW u \in User, AuthStep(u) PROVE UNCHANGED conns
    BY <1>2 DEF AuthStep, SignUp, ChangeEmail, BeginRemoval, DeleteUsersRow,
                DeleteDependents, CommitRemoval, AbortRemoval, SoftDeleteUser
<1>3. ASSUME NEW d \in Conn, NEW r \in Requests, Begin(d, r) PROVE stage'[c] # "idle"
    BY <1>3 DEF Begin, Goto
<1>4. ASSUME NEW d \in Conn, Abandon(d) \/ Undo(d), d # c PROVE stage'[c] = stage[c]
    BY <1>4 DEF Abandon, Undo, Finish, Goto
<1>5. ASSUME NEW d \in Conn, Statement(d), d # c PROVE stage'[c] = stage[c]
    BY <1>5 DEF Statement, WriteRow, PutRow, CheckUser, CommitRow, ReadRole, TakeRole, ReadUser,
                Join, Continue, Finish, Goto
<1>6. CASE Statement(c)
    BY <1>6 DEF Statement, WriteRow, PutRow, CheckUser, CommitRow, ReadRole, TakeRole, ReadUser,
                Join, Continue, Finish, Goto
<1>7. CASE Undo(c)
    BY <1>7 DEF Undo
<1> QED
    BY <1>1, <1>2, <1>3, <1>4, <1>5, <1>6, <1>7, StepKinds DEF conns

\* Dependent rows change by a removal or by a commit.
LEMMA RowChanges ==
    ASSUME AccountInv, [Next]_vars, NEW t \in Table, NEW u \in User, child'[t][u] # child[t][u]
    PROVE  \/ users'[u] = NoRow /\ child'[t][u] = NoRow
           \/ \E c \in Conn : CommitRow(c) /\ req[c].op = t /\ req[c].user = u
<1> USE DEF AccountInv, TypeOK
<1>1. CASE UNCHANGED rows
    BY <1>1 DEF rows
<1>2. ASSUME NEW v \in User, AuthStep(v)
      PROVE  users'[u] = NoRow /\ child'[t][u] = NoRow
    BY <1>2 DEF AuthStep, SignUp, ChangeEmail, BeginRemoval, DeleteUsersRow,
                DeleteDependents, CommitRemoval, AbortRemoval, SoftDeleteUser
<1>3. ASSUME NEW c \in Conn, CommitRow(c)
      PROVE  req[c].op = t /\ req[c].user = u
    BY <1>3, InProgress DEF CommitRow
<1> QED
    BY <1>1, <1>2, <1>3, StepKinds, QuietSteps DEF Statement, vars

\* A commit puts the whole value of its request in force and ends it.
LEMMA CommitsEndWrites ==
    ASSUME AccountInv, NEW c \in Conn, CommitRow(c)
    PROVE  WriteEnds(c) /\ child'[req[c].op][req[c].user] = req[c].value
<1>1. /\ stage[c] \in {"inserted", "updated"}
      /\ req[c].op \in Table /\ req[c].user \in User
      /\ answer[c] \in {0, 500}
    BY InProgress DEF CommitRow, AccountInv, WritersInPlace
<1> QED
    BY <1>1 DEF CommitRow, NewValue, Finish, Success, Goto, WriteEnds, AccountInv, TypeOK

\* Only a commit answers a write with 2xx.
LEMMA OnlyCommitsConfirm ==
    ASSUME AccountInv, [Next]_vars, NEW c \in Conn,
           answer[c] = 0, answer'[c] \in {200, 201}, req[c].op \in Table
    PROVE  CommitRow(c)
<1>1. stage[c] # "idle" /\ stage'[c] = "idle" /\ ~ Abandon(c) /\ ~ Undo(c)
  <2>1. ~ UNCHANGED conns
      BY DEF conns
  <2>2. ASSUME NEW u \in User, AuthStep(u) PROVE UNCHANGED conns
      BY <2>2 DEF AuthStep, SignUp, ChangeEmail, BeginRemoval, DeleteUsersRow,
                  DeleteDependents, CommitRemoval, AbortRemoval, SoftDeleteUser
  <2>3. ASSUME NEW d \in Conn, NEW r \in Requests, Begin(d, r) PROVE FALSE
      BY <2>3 DEF Begin, AccountInv, TypeOK
  <2>4. ASSUME NEW d \in Conn, Abandon(d) \/ Undo(d) PROVE FALSE
      BY <2>4 DEF Abandon, Undo, Finish, AccountInv, TypeOK
  <2>5. ASSUME NEW d \in Conn, Statement(d) PROVE d = c /\ stage'[c] = "idle"
      BY <2>5 DEF Statement, WriteRow, PutRow, CheckUser, CommitRow, ReadRole, TakeRole,
                  ReadUser, Join, Continue, Finish, Goto, AccountInv, TypeOK
  <2>6. ASSUME Statement(c) PROVE stage[c] # "idle"
      BY <2>6 DEF Statement, WriteRow, CheckUser, CommitRow, ReadRole, ReadUser, Join
  <2> QED
      BY <2>1, <2>2, <2>3, <2>4, <2>5, <2>6, StepKinds DEF vars
<1>2. ~ Join(c)
    BY ReadFields DEF Join, AccountInv, WritersInPlace
<1> QED
    BY <1>1, <1>2, AnsweringSteps

\* A row is what one request sent as a whole, whether that was confirmed or given
\* up before, or goes with its account: the theorem behind the upsert of the
\* profile, for every interleaving.
THEOREM RowsAreSent == Spec => RowsAreWhatWasSent
<1> DEFINE A == /\ \A t \in Table, u \in User : child'[t][u] # child[t][u] =>
                     \/ users'[u] = NoRow /\ child'[t][u] = NoRow
                     \/ \E c \in Conn : /\ WriteEnds(c)
                                        /\ req[c].op = t /\ req[c].user = u
                                        /\ child'[t][u] = req[c].value
                /\ \A c \in Conn : answer[c] = 0 /\ answer'[c] \in {200, 201} /\ req[c].op \in Table =>
                     child'[req[c].op][req[c].user] = req[c].value
<1>1. AccountInv /\ [Next]_vars => [A]_vars
    BY RowChanges, CommitsEndWrites, OnlyCommitsConfirm
<1> QED
    BY <1>1, AccountInvHolds, PTL DEF Spec, RowsAreWhatWasSent

----------------------------------------------------------------------------
(* What the observer adds.                                                 *)

\* The observer restricts nothing.
LEMMA ObserverAddsNothing == ObservedSpec => Spec
<1>1. ObservedInit => Init
    BY DEF ObservedInit
<1>2. [ObservedNext]_observedVars => [Next]_vars
    BY DEF ObservedNext, observedVars
<1> QED
    BY <1>1, <1>2, PTL DEF ObservedSpec, Spec

\* The statements of GetMe are those of its connection.
LEMMA ReadsOfOthers ==
    ASSUME AccountInv, Next, NEW c \in Conn, stage'[c] # "idle", stage[c] # "idle"
    PROVE  /\ req'[c] = req[c]
           /\ \/ got'[c] = got[c] /\ shown'[c] = shown[c]
              \/ /\ got'[c] = got[c] \cup {"user"} /\ shown'[c] = shown[c]
                 /\ Visible(req[c].user) /\ UNCHANGED rows
              \/ /\ got'[c] = got[c] \cup {"role"} /\ "role" \notin got[c]
                 /\ shown'[c] = child["role"][req[c].user]
                 /\ req[c].op = "me" /\ UNCHANGED rows
<1> USE DEF AccountInv, TypeOK
<1>1. ASSUME NEW u \in User, AuthStep(u) PROVE UNCHANGED conns
    BY <1>1 DEF AuthStep, SignUp, ChangeEmail, BeginRemoval, DeleteUsersRow,
                DeleteDependents, CommitRemoval, AbortRemoval, SoftDeleteUser
<1>2. ASSUME NEW d \in Conn, NEW r \in Requests, Begin(d, r)
      PROVE  req'[c] = req[c] /\ got'[c] = got[c] /\ shown'[c] = shown[c]
    BY <1>2 DEF Begin
<1>3. ASSUME NEW d \in Conn, Abandon(d) \/ Undo(d) \/ WriteRow(d) \/ CheckUser(d)
                              \/ CommitRow(d) \/ Join(d)
      PROVE  req'[c] = req[c] /\ got'[c] = got[c] /\ shown'[c] = shown[c]
    BY <1>3 DEF Abandon, Undo, WriteRow, PutRow, CheckUser, CommitRow, Join,
                Continue, Finish, Forget, Goto
<1>4. ASSUME NEW d \in Conn, ReadRole(d), d # c
      PROVE  req'[c] = req[c] /\ got'[c] = got[c] /\ shown'[c] = shown[c]
    BY <1>4 DEF ReadRole, TakeRole
<1>5. ASSUME ReadRole(c)
      PROVE  /\ req'[c] = req[c] /\ got'[c] = got[c] \cup {"role"} /\ "role" \notin got[c]
             /\ shown'[c] = child["role"][req[c].user]
             /\ req[c].op = "me" /\ UNCHANGED rows
    BY <1>5, ReadFields DEF ReadRole, TakeRole, WritersInPlace
<1>6. ASSUME NEW d \in Conn, ReadUser(d), d # c
      PROVE  req'[c] = req[c] /\ got'[c] = got[c] /\ shown'[c] = shown[c]
    BY <1>6 DEF ReadUser, Finish, Forget, Goto
<1>7. ASSUME ReadUser(c)
      PROVE  /\ req'[c] = req[c] /\ got'[c] = got[c] \cup {"user"} /\ shown'[c] = shown[c]
             /\ Visible(req[c].user) /\ UNCHANGED rows
    BY <1>7 DEF ReadUser, Finish, Forget, Goto
<1> QED
    BY <1>1, <1>2, <1>3, <1>4, <1>5, <1>6, <1>7 DEF Next, Statement, conns

\* A connection that was idle has read nothing when its request begins.
LEMMA FreshRequests ==
    ASSUME AccountInv, Next, NEW c \in Conn, stage'[c] # "idle", stage[c] = "idle"
    PROVE  got'[c] = {}
<1> USE DEF AccountInv, TypeOK
<1>1. got[c] = {}
    BY DEF WritersInPlace
<1>2. ASSUME NEW u \in User, AuthStep(u) PROVE UNCHANGED conns
    BY <1>2 DEF AuthStep, SignUp, ChangeEmail, BeginRemoval, DeleteUsersRow,
                DeleteDependents, CommitRemoval, AbortRemoval, SoftDeleteUser
<1>3. ASSUME NEW d \in Conn, NEW r \in Requests, Begin(d, r) PROVE got' = got
    BY <1>3 DEF Begin
<1>4. ASSUME NEW d \in Conn, Statement(d) \/ Abandon(d) \/ Undo(d)
      PROVE  stage'[c] = stage[c] \/ stage'[c] = "idle"
    BY <1>4 DEF Statement, WriteRow, PutRow, CheckUser, CommitRow, ReadRole, TakeRole, ReadUser,
                Join, Abandon, Undo, Continue, Finish, Goto
<1> QED
    BY <1>1, <1>2, <1>3, <1>4 DEF Next, conns

\* What a request has lived through is kept up to date.
LEMMA DuringStep ==
    ASSUME ObservedInv, [ObservedNext]_observedVars
    PROVE  DuringInPlace'
<1> USE DEF ObservedInv
<1>1. CASE UNCHANGED observedVars
    BY <1>1 DEF observedVars, vars, rows, conns, DuringInPlace, Now
<1>2. CASE ObservedNext
  <2>1. Next /\ AccountInv'
      BY <1>2, AccountInvStep DEF ObservedNext
  <2>2. DOMAIN during' = Conn
      BY <1>2 DEF ObservedNext, Watch
  <2>3. ASSUME NEW c \in Conn, stage'[c] # "idle"
        PROVE  /\ Now(req[c])' \subseteq during'[c]
               /\ "user" \in got'[c] => "live" \in during'[c]
               /\ "role" \in got'[c] =>
                    (IF shown'[c] = NoRow THEN "roleless" ELSE "roled") \in during'[c]
    <3>1. during'[c] = during[c] \cup Now(req[c])'
        BY <1>2, <2>3 DEF ObservedNext, Watch
    <3>2. CASE stage[c] = "idle"
        BY <2>1, <2>3, <3>1, <3>2, FreshRequests
    <3>3. CASE stage[c] # "idle"
      <4>1. /\ Now(req[c]) \subseteq during[c]
            /\ "user" \in got[c] => "live" \in during[c]
            /\ "role" \in got[c] =>
                 (IF shown[c] = NoRow THEN "roleless" ELSE "roled") \in during[c]
          BY <3>3 DEF DuringInPlace
      <4>2. CASE got'[c] = got[c] /\ shown'[c] = shown[c]
          BY <3>1, <4>1, <4>2
      <4>3. CASE /\ got'[c] = got[c] \cup {"user"} /\ shown'[c] = shown[c]
                 /\ Visible(req[c].user)
        <5>1. "live" \in Now(req[c])
            BY <4>3 DEF Now, Visible
        <5> QED
            BY <3>1, <4>1, <4>3, <5>1
      <4>4. CASE /\ got'[c] = got[c] \cup {"role"}
                 /\ shown'[c] = child["role"][req[c].user]
                 /\ req[c].op = "me"
        <5>1. (IF shown'[c] = NoRow THEN "roleless" ELSE "roled") \in Now(req[c])
            BY <4>4 DEF Now
        <5> QED
            BY <3>1, <4>1, <4>4, <5>1
      <4> QED
          BY <2>1, <2>3, <3>3, <4>2, <4>3, <4>4, ReadsOfOthers
    <3> QED
        BY <3>2, <3>3
  <2> QED
      BY <2>2, <2>3 DEF DuringInPlace
<1> QED
    BY <1>1, <1>2

\* The observed invariant, for every number of users and connections.
THEOREM ObservedInvHolds == ObservedSpec => []ObservedInv
<1>1. ObservedInit => DuringInPlace
    BY DEF ObservedInit, Init, DuringInPlace
<1>2. ObservedInit => ObservedInv
    BY <1>1, AccountInvInit DEF ObservedInit, ObservedInv
<1>3. ObservedInv /\ [ObservedNext]_observedVars => ObservedInv'
  <2> SUFFICES ASSUME ObservedInv, [ObservedNext]_observedVars PROVE ObservedInv'
      OBVIOUS
  <2>1. [Next]_vars
      BY DEF ObservedNext, observedVars
  <2> QED
      BY <2>1, AccountInvStep, DuringStep DEF ObservedInv
<1> QED
    BY <1>2, <1>3, PTL DEF ObservedSpec

\* A step of an observed behaviour that answers a request is a statement of it,
\* and the request has lived through what is true now.
LEMMA AnswersAreStatements ==
    ASSUME ObservedInv, [ObservedNext]_observedVars, NEW c \in Conn,
           stage[c] # "idle", stage'[c] = "idle", answer[c] = 0, ~ Abandon(c)
    PROVE  /\ Now(req[c]) \subseteq during[c]
           /\ \/ CommitRow(c) /\ req[c] \in Writes /\ users[req[c].user] # NoRow
                  /\ answer'[c] \in {200, 201}
              \/ Join(c) /\ answer'[c] = 200 /\ req[c] \in Reads
              \/ /\ ReadUser(c) /\ answer'[c] = 404 /\ req[c] \in Reads
                 /\ ~ Visible(req[c].user)
              \/ /\ CheckUser(c) /\ answer'[c] = 500 /\ req[c] \in Writes
                 /\ users[req[c].user] = NoRow
<1> USE DEF ObservedInv
<1>1. [Next]_vars
    BY DEF ObservedNext, observedVars
<1>2. Now(req[c]) \subseteq during[c]
    BY DEF DuringInPlace
<1>3. ASSUME CommitRow(c)
      PROVE  req[c] \in Writes /\ users[req[c].user] # NoRow /\ answer'[c] \in {200, 201}
    BY <1>3, InProgress
    DEF CommitRow, Finish, Success, AccountInv, TypeOK, WritersInPlace, NoOrphans
<1>4. ASSUME Join(c) \/ ReadUser(c) PROVE req[c] \in Reads
    BY <1>4 DEF Join, ReadUser, AccountInv, WritersInPlace
<1>5. ASSUME CheckUser(c) PROVE req[c] \in Writes
    BY <1>5 DEF CheckUser, AccountInv, WritersInPlace
<1> QED
    BY <1>1, <1>2, <1>3, <1>4, <1>5, AnsweringSteps

\* Each half of GetMe's answer was true while it ran.
THEOREM MeIsTrueHolds == ObservedSpec => MeIsTrue
<1> DEFINE A == \A c \in Conn :
          /\ Answers(c, {"me"}, {200}) =>
               /\ "live" \in during[c]
               /\ (IF shown[c] = NoRow THEN "roleless" ELSE "roled") \in during[c]
          /\ Answers(c, {"me"}, {404}) => during[c] \cap {"gone", "deleted"} # {}
          /\ ~ Answers(c, {"me"}, {500})
<1>1. ObservedInv /\ [ObservedNext]_observedVars => [A]_observedVars
  <2> SUFFICES ASSUME ObservedInv, [ObservedNext]_observedVars, NEW c \in Conn,
                      NEW status \in {200, 404, 500}, Answers(c, {"me"}, {status})
               PROVE  /\ status = 200 =>
                           /\ "live" \in during[c]
                           /\ (IF shown[c] = NoRow THEN "roleless" ELSE "roled") \in during[c]
                      /\ status = 404 => during[c] \cap {"gone", "deleted"} # {}
                      /\ status # 500
      OBVIOUS
  <2>1. /\ stage[c] # "idle" /\ stage'[c] = "idle"
        /\ answer[c] = 0 /\ answer'[c] = status /\ ~ Abandon(c) /\ req[c] \notin Writes
      BY WriteFields DEF Answers
  <2>2. CASE Join(c) /\ answer'[c] = 200
      BY <2>1, <2>2 DEF Join, ObservedInv, DuringInPlace
  <2>3. CASE answer'[c] = 404 /\ ~ Visible(req[c].user) /\ Now(req[c]) \subseteq during[c]
      BY <2>1, <2>3 DEF Visible, Now
  <2> QED
      BY <2>1, <2>2, <2>3, AnswersAreStatements
<1> QED
    BY <1>1, ObservedInvHolds, PTL DEF ObservedSpec, MeIsTrue

\* A write that does not fail is refused only if its account was gone, and is
\* confirmed only if it was there.
THEOREM WritesAreTrueHolds == ObservedSpec => WritesAreTrue
<1> DEFINE A == \A c \in Conn :
          /\ Answers(c, Table, {500}) => "gone" \in during[c]
          /\ Answers(c, Table, {200, 201}) => during[c] \cap {"live", "deleted"} # {}
<1>1. ObservedInv /\ [ObservedNext]_observedVars => [A]_observedVars
  <2> SUFFICES ASSUME ObservedInv, [ObservedNext]_observedVars, NEW c \in Conn,
                      NEW status \in {200, 201, 500}, Answers(c, Table, {status})
               PROVE  IF status = 500 THEN "gone" \in during[c]
                                      ELSE during[c] \cap {"live", "deleted"} # {}
      BY DEF Answers
  <2>1. /\ stage[c] # "idle" /\ stage'[c] = "idle"
        /\ answer[c] = 0 /\ answer'[c] = status /\ ~ Abandon(c) /\ req[c] \notin Reads
      BY ReadFields DEF Answers
  <2>2. Now(req[c]) \subseteq during[c]
      BY <2>1, AnswersAreStatements
  <2>3. CASE users[req[c].user] # NoRow /\ answer'[c] \in {200, 201}
      BY <2>1, <2>2, <2>3 DEF Now
  <2>4. CASE users[req[c].user] = NoRow /\ answer'[c] = 500
      BY <2>1, <2>2, <2>4 DEF Now
  <2> QED
      BY <2>1, <2>3, <2>4, AnswersAreStatements
<1> QED
    BY <1>1, ObservedInvHolds, PTL DEF ObservedSpec, WritesAreTrue

=============================================================================
