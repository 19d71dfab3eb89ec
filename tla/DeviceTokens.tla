---------------------------- MODULE DeviceTokens ----------------------------
(***************************************************************************)
(* Registration and removal of FCM device tokens: UpsertDeviceToken and    *)
(* DeleteDeviceToken of internal/users/repository.go.                      *)
(*                                                                         *)
(* Each is one statement and its own transaction, but no single step: it   *)
(* finds the row of the token, waits for the lock of that row, and looks   *)
(* at the row again before it writes.  Requests for one token interleave   *)
(* between those steps.  A token has one row at most (token is UNIQUE), so *)
(* a row is known by its token; platform, id and created_at ride along.    *)
(***************************************************************************)
EXTENDS Naturals, FiniteSets

CONSTANTS
    User,       \* users.id
    Token,      \* what the devices send as their FCM token
    Conn,       \* the pool's connections: each runs one statement at a time
    NoConn,     \* the holder of a row nobody has locked
    Nobody,     \* the owner of a token without row
    NoRequest,  \* what a connection that was never used serves
    InitialOwners,  \* the registrations a behaviour may start from
    MaxDeviceTokensPerUser

ASSUME NobodyAssumption == Nobody \notin User
ASSUME NoConnAssumption == NoConn \notin Conn
ASSUME InitialOwnersAssumption == InitialOwners \subseteq [Token -> User \cup {Nobody}]
ASSUME BoundAssumption == MaxDeviceTokensPerUser \in Nat \ {0}

Request == [op : {"register", "remove"}, user : User, token : Token]

ASSUME NoRequestAssumption == NoRequest \notin Request

VARIABLES
    owner,     \* the committed user_id of every token
    draft,     \* the newest user_id of every token, committed or not
    lockedBy,  \* the connection whose statement wrote it, while it runs
    stage,     \* what the statement of each connection does next
    found,     \* what has become of the row version that statement found
    req,       \* the request each connection serves, or served last
    answer     \* the status of that request, 0 while undecided

tableVars == <<owner, draft, lockedBy>>
vars == <<owner, draft, lockedBy, stage, found, req, answer>>

TypeOK ==
    /\ owner \in [Token -> User \cup {Nobody}]
    /\ draft \in [Token -> User \cup {Nobody}]
    /\ lockedBy \in [Token -> Conn \cup {NoConn}]
    /\ stage \in [Conn -> {"idle", "probe", "takeOver", "scan", "delete", "commit"}]
    /\ found \in [Conn -> {"nothing", "same", "newer", "gone"}]
    /\ req \in [Conn -> Request \cup {NoRequest}]
    /\ answer \in [Conn -> {0, 201, 204, 500}]

Init ==
    /\ owner \in InitialOwners
    /\ draft = owner
    /\ lockedBy = [t \in Token |-> NoConn]
    /\ stage = [c \in Conn |-> "idle"]
    /\ found = [c \in Conn |-> "nothing"]
    /\ req = [c \in Conn |-> NoRequest]
    /\ answer = [c \in Conn |-> 0]

----------------------------------------------------------------------------
(* The steps both statements are made of.                                  *)

InProgress(c) == stage[c] # "idle"

Goto(c, next) == stage' = [stage EXCEPT ![c] = next]

\* Mutant: the handler of a removal writes no header.
SuccessByDefault(r) == IF r.op = "register" THEN 201 ELSE 200

\* What a request that is still waited for is answered when it succeeds.
Success(r) == IF r.op = "register" THEN 201 ELSE 204

Finish(c) ==
    /\ Goto(c, "idle")
    /\ answer' = [answer EXCEPT ![c] = IF @ = 0 THEN Success(req[c]) ELSE @]

\* The newest version of a row is written by one statement at a time.
Lockable(c, t) == lockedBy[t] \in {NoConn, c}

Write(c, t, u) ==
    /\ draft' = [draft EXCEPT ![t] = u]
    /\ lockedBy' = [lockedBy EXCEPT ![t] = c]
    /\ Goto(c, "commit")
    /\ UNCHANGED <<owner, found, req, answer>>

\* The statement found a row, and needs its lock next.
Finds(c, next) ==
    /\ found' = [found EXCEPT ![c] = "same"]
    /\ Goto(c, next)
    /\ UNCHANGED <<owner, draft, lockedBy, req, answer>>

Begin(c, r) ==
    /\ ~ InProgress(c)
    /\ Goto(c, IF r.op = "register" THEN "probe" ELSE "scan")
    /\ req' = [req EXCEPT ![c] = r]
    /\ found' = [found EXCEPT ![c] = "nothing"]
    /\ answer' = [answer EXCEPT ![c] = 0]
    /\ UNCHANGED tableVars

----------------------------------------------------------------------------
(* INSERT ... ON CONFLICT (token) DO UPDATE.                               *)

\* The unique index is probed for a conflicting row.  A row whose writer is
\* still running may come or go: the statement waits.  No row: it inserts.
ProbeIndex(c) ==
    /\ stage[c] = "probe"
    /\ LET t == req[c].token IN
         /\ Lockable(c, t)
         /\ IF owner[t] = Nobody THEN Write(c, t, req[c].user)
                                 ELSE Finds(c, "takeOver")

\* The conflicting row is updated if it is still the version that was found;
\* otherwise the statement starts over.
TakeOver(c) ==
    /\ stage[c] = "takeOver"
    /\ LET t == req[c].token IN
         /\ Lockable(c, t)
         /\ IF found[c] = "same"
              THEN Write(c, t, req[c].user)
              ELSE Goto(c, "probe") /\ UNCHANGED <<owner, draft, lockedBy, found, req, answer>>

----------------------------------------------------------------------------
(* DELETE ... WHERE token = $1 AND user_id = $2.                           *)

\* Mutant: the two parameters of the statement are swapped.
NoneMatches(c) == FALSE

\* Mutant: the statement asks for the token alone.
TokenMatches(c) == owner[req[c].token] # Nobody

Matches(c) == owner[req[c].token] = req[c].user

\* Deleting nothing is no error.
ScanRows(c) ==
    /\ stage[c] = "scan"
    /\ IF Matches(c)
         THEN Finds(c, "delete")
         ELSE Finish(c) /\ UNCHANGED <<owner, draft, lockedBy, found, req>>

\* Under the lock the condition is tested again on the newest version of the
\* row that was found.  A row that took its place later is not looked at.
DeleteRow(c) ==
    /\ stage[c] = "delete"
    /\ LET t == req[c].token IN
         /\ Lockable(c, t)
         /\ IF found[c] # "gone" /\ Matches(c)
              THEN Write(c, t, Nobody)
              ELSE Finish(c) /\ UNCHANGED <<owner, draft, lockedBy, found, req>>

----------------------------------------------------------------------------
(* The end of a statement.                                                 *)

Written(c) == {t \in Token : lockedBy[t] = c}

Unlock(c) == lockedBy' = [t \in Token |-> IF lockedBy[t] = c THEN NoConn ELSE lockedBy[t]]

\* What the version another statement found is once connection c commits.
Outdated(c, d) ==
    IF d = c \/ found[d] \in {"nothing", "gone"} \/ req[d].token \notin Written(c)
      THEN found[d]
      ELSE IF draft[req[d].token] = Nobody THEN "gone" ELSE "newer"

Commit(c) ==
    /\ stage[c] = "commit"
    /\ owner' = [t \in Token |-> IF lockedBy[t] = c THEN draft[t] ELSE owner[t]]
    /\ found' = [d \in Conn |-> Outdated(c, d)]
    /\ Unlock(c)
    /\ Finish(c)
    /\ UNCHANGED <<draft, req>>

(***************************************************************************)
(* The request's context ends, or its connection fails: the client gets    *)
(* 500.  The statement is on the server, which may still complete it.      *)
(***************************************************************************)
Abandon(c) ==
    /\ InProgress(c)
    /\ answer[c] = 0
    /\ answer' = [answer EXCEPT ![c] = 500]
    /\ UNCHANGED <<owner, draft, lockedBy, stage, found, req>>

\* The server gives up an abandoned statement.
Undo(c) ==
    /\ InProgress(c)
    /\ answer[c] = 500
    /\ draft' = [t \in Token |-> IF lockedBy[t] = c THEN owner[t] ELSE draft[t]]
    /\ Unlock(c)
    /\ Goto(c, "idle")
    /\ UNCHANGED <<owner, found, req, answer>>

----------------------------------------------------------------------------
Statement(c) ==
    \/ ProbeIndex(c) \/ TakeOver(c)
    \/ ScanRows(c) \/ DeleteRow(c)
    \/ Commit(c)

Next ==
    \E c \in Conn :
        \/ \E r \in Request : Begin(c, r)
        \/ Statement(c)
        \/ Abandon(c)
        \/ Undo(c)

Spec == Init /\ [][Next]_vars

----------------------------------------------------------------------------
(* Properties, and the inductive invariant that ChangesHandsOnRequest      *)
(* follows from.                                                           *)

\* Each statement is the one of its request, and the one that is about to
\* commit has written the row of its token.
StagesInPlace ==
    \A c \in Conn :
        /\ InProgress(c) => req[c] \in Request /\ answer[c] \in {0, 500}
        /\ stage[c] \in {"probe", "takeOver"} => req[c].op = "register"
        /\ stage[c] \in {"scan", "delete"} => req[c].op = "remove"
        /\ stage[c] = "commit" => lockedBy[req[c].token] = c

\* What a statement has written is what its request asks for, over the row that
\* is committed now.
WritesInPlace ==
    \A t \in Token :
        IF lockedBy[t] = NoConn
          THEN draft[t] = owner[t]
          ELSE LET c == lockedBy[t] IN
                 /\ stage[c] = "commit"
                 /\ req[c].token = t
                 /\ \/ /\ req[c].op = "remove"
                       /\ req[c].user = owner[t]
                       /\ draft[t] = Nobody
                    \/ /\ req[c].op = "register"
                       /\ draft[t] = req[c].user

TokenInv == TypeOK /\ StagesInPlace /\ WritesInPlace

\* A device changes hands, or is forgotten, only on the word of the request
\* that commits: a removal takes away its own caller's registration and never
\* the one the next user of the device has made meanwhile.
ChangesHandsOnRequest ==
    [][ \A t \in Token : owner'[t] # owner[t] =>
          \E c \in Conn :
            /\ lockedBy[t] = c
            /\ req[c].token = t
            /\ IF owner'[t] = Nobody
                 THEN req[c].op = "remove" /\ req[c].user = owner[t]
                 ELSE req[c].op = "register" /\ req[c].user = owner'[t] ]_owner

TokensOf(u) == {t \in Token : owner[t] = u}

\* What constants.go and the README say of the tokens of a user: no more than
\* MaxDeviceTokensPerUser are kept.
TokensBounded == \A u \in User : Cardinality(TokensOf(u)) <= MaxDeviceTokensPerUser

=============================================================================
