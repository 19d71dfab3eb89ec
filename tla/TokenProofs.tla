---------------------------- MODULE TokenProofs -----------------------------
(***************************************************************************)
(* What holds of DeviceTokens for every number of users, tokens and        *)
(* connections.                                                            *)
(***************************************************************************)
EXTENDS TokenAnswers, TLAPS

----------------------------------------------------------------------------
(* Rows and statements.                                                    *)

\* The fields of a request.
LEMMA RequestFields ==
    ASSUME NEW r \in Request
    PROVE  /\ r # NoRequest
           /\ r.op \in {"register", "remove"}
           /\ r.user \in User
           /\ r.user # Nobody
           /\ r.token \in Token
BY NoRequestAssumption, NobodyAssumption DEF Request

\* Every step is a step of one connection.
LEMMA OneConnection ==
    ASSUME Next
    PROVE  \E c \in Conn :
             (\E r \in Request : Begin(c, r)) \/ Statement(c) \/ Abandon(c) \/ Undo(c)
BY DEF Next

\* The invariant holds before the first request.
LEMMA TokenInvInit == Init => TokenInv
<1> SUFFICES ASSUME Init PROVE TokenInv
    OBVIOUS
<1>1. TypeOK
    BY InitialOwnersAssumption DEF Init, TypeOK
<1>2. StagesInPlace
    BY DEF Init, StagesInPlace, InProgress
<1>3. WritesInPlace
    BY DEF Init, WritesInPlace
<1> QED
    BY <1>1, <1>2, <1>3 DEF TokenInv

\* Every step keeps the type of every variable.
LEMMA TypeStep ==
    ASSUME TokenInv, [Next]_vars
    PROVE  TypeOK'
<1> USE DEF TokenInv, TypeOK
<1>1. CASE UNCHANGED vars
    BY <1>1 DEF vars
<1>2. ASSUME NEW c \in Conn, NEW r \in Request, Begin(c, r)
      PROVE  TypeOK'
    BY <1>2 DEF Begin, Goto, tableVars
<1>3. ASSUME NEW c \in Conn, InProgress(c)
      PROVE  req[c].token \in Token /\ req[c].user \in User
    BY <1>3, RequestFields DEF StagesInPlace
<1>4. ASSUME NEW c \in Conn, ProbeIndex(c) PROVE TypeOK'
    BY <1>3, <1>4 DEF ProbeIndex, Write, Finds, Goto, InProgress
<1>5. ASSUME NEW c \in Conn, TakeOver(c) PROVE TypeOK'
    BY <1>3, <1>5 DEF TakeOver, Write, Goto, InProgress
<1>6. ASSUME NEW c \in Conn, ScanRows(c) PROVE TypeOK'
    BY <1>6 DEF ScanRows, Finds, Finish, Goto, Success
<1>7. ASSUME NEW c \in Conn, DeleteRow(c) PROVE TypeOK'
    BY <1>3, <1>7 DEF DeleteRow, Write, Finish, Goto, Success, InProgress
<1>8. ASSUME NEW c \in Conn, Commit(c) PROVE TypeOK'
    BY <1>8 DEF Commit, Outdated, Unlock, Finish, Goto, Success
<1>9. ASSUME NEW c \in Conn, Abandon(c) \/ Undo(c) PROVE TypeOK'
    BY <1>9 DEF Abandon, Undo, Unlock, Goto
<1> QED
    BY <1>1, <1>2, <1>4, <1>5, <1>6, <1>7, <1>8, <1>9, OneConnection DEF Statement

\* Statements stay those of their requests, and a commit is the writer's own.
LEMMA StagesStep ==
    ASSUME TokenInv, [Next]_vars
    PROVE  StagesInPlace'
<1> USE DEF TokenInv, TypeOK
<1>1. CASE UNCHANGED vars
    BY <1>1 DEF vars, StagesInPlace, InProgress
<1>2. ASSUME NEW c \in Conn, NEW r \in Request, Begin(c, r)
      PROVE  StagesInPlace'
    BY <1>2, RequestFields DEF Begin, Goto, tableVars, StagesInPlace, InProgress
<1>3. ASSUME NEW c \in Conn, InProgress(c)
      PROVE  req[c].token \in Token /\ req[c].user \in User
    BY <1>3, RequestFields DEF StagesInPlace
<1>4. ASSUME NEW c \in Conn, ProbeIndex(c) PROVE StagesInPlace'
    BY <1>3, <1>4, NoConnAssumption
    DEF ProbeIndex, Lockable, Write, Finds, Goto, StagesInPlace, InProgress
<1>5. ASSUME NEW c \in Conn, TakeOver(c) PROVE StagesInPlace'
    BY <1>3, <1>5, NoConnAssumption
    DEF TakeOver, Lockable, Write, Goto, StagesInPlace, InProgress
<1>6. ASSUME NEW c \in Conn, ScanRows(c) PROVE StagesInPlace'
    BY <1>6 DEF ScanRows, Finds, Finish, Goto, StagesInPlace, InProgress
<1>7. ASSUME NEW c \in Conn, DeleteRow(c) PROVE StagesInPlace'
    BY <1>3, <1>7, NoConnAssumption
    DEF DeleteRow, Lockable, Write, Finish, Goto, StagesInPlace, InProgress
<1>8. ASSUME NEW c \in Conn, Commit(c) PROVE StagesInPlace'
    BY <1>3, <1>8 DEF Commit, Unlock, Finish, Goto, StagesInPlace, InProgress
<1>9. ASSUME NEW c \in Conn, Abandon(c) PROVE StagesInPlace'
    BY <1>9 DEF Abandon, StagesInPlace, InProgress
<1>10. ASSUME NEW c \in Conn, Undo(c) PROVE StagesInPlace'
    BY <1>3, <1>10 DEF Undo, Unlock, Goto, StagesInPlace, InProgress
<1> QED
    BY <1>1, <1>2, <1>4, <1>5, <1>6, <1>7, <1>8, <1>9, <1>10, OneConnection
    DEF Statement

\* What was written stays what its request asks for until the commit.
LEMMA WritesStep ==
    ASSUME TokenInv, [Next]_vars
    PROVE  WritesInPlace'
<1> USE DEF TokenInv, TypeOK
<1>1. CASE UNCHANGED vars
    BY <1>1 DEF vars, WritesInPlace
<1>2. ASSUME NEW c \in Conn, NEW r \in Request, Begin(c, r)
      PROVE  WritesInPlace'
    BY <1>2 DEF Begin, Goto, tableVars, WritesInPlace, InProgress
<1>3. ASSUME NEW c \in Conn, InProgress(c)
      PROVE  req[c].token \in Token /\ req[c].user \in User
    BY <1>3, RequestFields DEF StagesInPlace
<1>4. ASSUME NEW c \in Conn, ProbeIndex(c) PROVE WritesInPlace'
    BY <1>3, <1>4, NoConnAssumption
    DEF ProbeIndex, Lockable, Write, Finds, Goto, StagesInPlace, WritesInPlace, InProgress
<1>5. ASSUME NEW c \in Conn, TakeOver(c) PROVE WritesInPlace'
    BY <1>3, <1>5, NoConnAssumption
    DEF TakeOver, Lockable, Write, Goto, StagesInPlace, WritesInPlace, InProgress
<1>6. ASSUME NEW c \in Conn, ScanRows(c) PROVE WritesInPlace'
    BY <1>6 DEF ScanRows, Finds, Finish, Goto, WritesInPlace
<1>7. ASSUME NEW c \in Conn, DeleteRow(c) PROVE WritesInPlace'
    BY <1>3, <1>7, NoConnAssumption
    DEF DeleteRow, Lockable, Matches, Write, Finish, Goto, StagesInPlace, WritesInPlace,
        InProgress
<1>8. ASSUME NEW c \in Conn, Commit(c) PROVE WritesInPlace'
    BY <1>8, NoConnAssumption DEF Commit, Unlock, Finish, Goto, WritesInPlace
<1>9. ASSUME NEW c \in Conn, Abandon(c) PROVE WritesInPlace'
    BY <1>9 DEF Abandon, WritesInPlace
<1>10. ASSUME NEW c \in Conn, Undo(c) PROVE WritesInPlace'
    BY <1>10, NoConnAssumption DEF Undo, Unlock, Goto, WritesInPlace
<1> QED
    BY <1>1, <1>2, <1>4, <1>5, <1>6, <1>7, <1>8, <1>9, <1>10, OneConnection
    DEF Statement

\* Every step keeps the invariant of rows and statements.
LEMMA TokenInvStep == TokenInv /\ [Next]_vars => TokenInv'
BY TypeStep, StagesStep, WritesStep DEF TokenInv

\* The rows change with a commit alone, and each one as its writer was asked.
LEMMA HandsStep ==
    ASSUME TokenInv, [Next]_vars, NEW t \in Token, owner'[t] # owner[t]
    PROVE  \E c \in Conn :
             /\ lockedBy[t] = c
             /\ req[c].token = t
             /\ IF owner'[t] = Nobody
                  THEN req[c].op = "remove" /\ req[c].user = owner[t]
                  ELSE req[c].op = "register" /\ req[c].user = owner'[t]
<1> USE DEF TokenInv, TypeOK
<1>1. PICK c \in Conn : Commit(c)
    <2>1. ~ UNCHANGED vars
        BY DEF vars
    <2> QED
        BY <2>1, OneConnection
        DEF Statement, Begin, ProbeIndex, TakeOver, ScanRows, DeleteRow, Write, Finds,
            Abandon, Undo, tableVars
<1>2. lockedBy[t] = c /\ owner'[t] = draft[t]
    BY <1>1 DEF Commit
<1>3. req[c].user # Nobody
    BY <1>1, RequestFields DEF Commit, StagesInPlace, InProgress
<1> QED
    BY <1>2, <1>3, NoConnAssumption DEF WritesInPlace

----------------------------------------------------------------------------
(* DeviceTokens, with and without its observer.                            *)

\* A step of the observed specification is a step of DeviceTokens.
LEMMA ObservedIsNext == [ObservedNext]_observedVars => [Next]_vars
BY DEF ObservedNext, observedVars, Next

\* Rows and statements stay in place in every behaviour.
THEOREM TokenInvHolds == ObservedSpec => []TokenInv
<1>1. ObservedInit => TokenInv
    BY TokenInvInit DEF ObservedInit
<1>2. TokenInv /\ [ObservedNext]_observedVars => TokenInv'
    BY TokenInvStep, ObservedIsNext
<1> QED
    BY <1>1, <1>2, PTL DEF ObservedSpec

\* However requests for tokens interleave, every variable keeps its type.
THEOREM TypeCorrect == ObservedSpec => []TypeOK
<1>1. TokenInv => TypeOK
    BY DEF TokenInv
<1> QED
    BY <1>1, TokenInvHolds, PTL

\* A registration is changed or removed only by a request of its new or of its
\* present owner, whoever else's requests for the token overlap.
THEOREM TokensChangeHandsOnRequest == ObservedSpec => ChangesHandsOnRequest
<1> DEFINE Hands ==
        \A t \in Token : owner'[t] # owner[t] =>
          \E c \in Conn :
            /\ lockedBy[t] = c
            /\ req[c].token = t
            /\ IF owner'[t] = Nobody
                 THEN req[c].op = "remove" /\ req[c].user = owner[t]
                 ELSE req[c].op = "register" /\ req[c].user = owner'[t]
<1>1. TokenInv /\ [Next]_vars => [Hands]_owner
    BY HandsStep
<1>2. TokenInv /\ [ObservedNext]_observedVars => [Hands]_owner
    BY <1>1, ObservedIsNext
<1>3. ObservedSpec => [][Hands]_owner
    BY <1>2, TokenInvHolds, PTL DEF ObservedSpec
<1> QED
    BY <1>3 DEF ChangesHandsOnRequest

----------------------------------------------------------------------------
(* Answers.                                                                *)

\* The row of an unrivalled request that is answered, or whose own row is gone,
\* is not given to its caller, nor taken away, by another commit.
LEMMA CommitIsNoRival ==
    ASSUME TokenInv, UnrivalledInPlace, NEW c \in Conn, Commit(c),
           NEW d \in unrivalled, d # c
    PROVE  /\ req[d].op = "register" /\ owner[req[d].token] = req[d].user
                => owner'[req[d].token] = req[d].user
           /\ req[d].op = "remove" /\ owner[req[d].token] # req[d].user
                => owner'[req[d].token] # req[d].user
<1> USE DEF TokenInv, TypeOK
<1>1. InProgress(c) /\ req[c] \in Request /\ req[d] \in Request /\ d \in Conn
    BY DEF Commit, InProgress, StagesInPlace, UnrivalledInPlace
<1>2. ~ Rival(req[d], req[c])
    BY <1>1 DEF UnrivalledInPlace
<1> DEFINE t == req[d].token
<1>3. CASE lockedBy[t] # c
    BY <1>1, <1>3, RequestFields DEF Commit
<1>4. CASE lockedBy[t] = c
    <2>1. owner'[t] = draft[t] /\ req[c].token = t
        BY <1>1, <1>4, RequestFields, NoConnAssumption DEF Commit, WritesInPlace
    <2> QED
        BY <1>1, <1>2, <1>4, <2>1, RequestFields, NoConnAssumption
        DEF WritesInPlace, Rival
<1> QED
    BY <1>3, <1>4

\* No step gives an unrivalled request a rival.
LEMMA UnrivalledStep ==
    ASSUME TokenInv, TypeOK', UnrivalledInPlace, AnswersHold, [ObservedNext]_observedVars
    PROVE  UnrivalledInPlace' /\ AnswersHold'
<1> USE DEF TokenInv, TypeOK
<1>1. CASE UNCHANGED observedVars
    BY <1>1 DEF observedVars, vars, UnrivalledInPlace, AnswersHold, InProgress
<1>2. ASSUME NEW c \in Conn, NEW r \in Request, Begin(c, r), unrivalled' = Meets(c, r)
      PROVE  UnrivalledInPlace' /\ AnswersHold'
    <2>1. /\ unrivalled' \subseteq Conn
          /\ \A d \in unrivalled' : req'[d] \in Request
        BY <1>2 DEF Meets, Begin, UnrivalledInPlace
    <2>2. /\ answer'[c] = 0 /\ stage'[c] # "delete" /\ owner' = owner
          /\ \A d \in Conn \ {c} : /\ answer'[d] = answer[d]
                                   /\ stage'[d] = stage[d]
                                   /\ found'[d] = found[d]
                                   /\ req'[d] = req[d]
        BY <1>2 DEF Begin, Goto, tableVars
    <2>3. \A d \in unrivalled' \ {c} : d \in unrivalled
        BY <1>2 DEF Meets
    <2>4. ASSUME NEW d \in unrivalled', NEW e \in Conn \ {d}, InProgress(e)'
          PROVE  ~ Rival(req'[d], req'[e])
        <3>1. CASE d = c
            BY <1>2, <2>2, <2>4, <3>1 DEF Meets, InProgress, Begin
        <3>2. CASE d # c /\ e = c
            BY <1>2, <2>1, <2>4, <3>2 DEF Meets, Begin
        <3>3. CASE d # c /\ e # c
            BY <2>1, <2>2, <2>3, <2>4, <3>3 DEF UnrivalledInPlace, InProgress
        <3> QED
            BY <3>1, <3>2, <3>3
    <2>5. UnrivalledInPlace'
        BY <2>1, <2>2, <2>3, <2>4 DEF UnrivalledInPlace
    <2>6. AnswersHold'
        BY <2>1, <2>2, <2>3 DEF AnswersHold
    <2> QED
        BY <2>5, <2>6
<1>3. ASSUME NEW c \in Conn, InProgress(c)
      PROVE  /\ req[c] \in Request /\ req[c].token \in Token /\ req[c].user \in User
             /\ answer[c] \in {0, 500}
    BY <1>3, RequestFields DEF StagesInPlace
<1>4. ASSUME NEW c \in Conn, ProbeIndex(c) \/ TakeOver(c), UNCHANGED unrivalled
      PROVE  UnrivalledInPlace' /\ AnswersHold'
    <2>1. InProgress(c) /\ req[c].op = "register"
        BY <1>4 DEF ProbeIndex, TakeOver, InProgress, StagesInPlace
    <2> QED
        BY <1>4, <2>1
        DEF ProbeIndex, TakeOver, Write, Finds, Goto, UnrivalledInPlace, AnswersHold, InProgress
<1>5. ASSUME NEW c \in Conn, ScanRows(c) \/ DeleteRow(c), UNCHANGED unrivalled
      PROVE  UnrivalledInPlace' /\ AnswersHold'
    <2>1. InProgress(c) /\ req[c].op = "remove" /\ answer[c] \in {0, 500}
        BY <1>5 DEF ScanRows, DeleteRow, InProgress, StagesInPlace
    <2>2. CASE stage'[c] # "idle"
        BY <1>5, <2>1, <2>2
        DEF ScanRows, DeleteRow, Write, Finds, Finish, Goto, UnrivalledInPlace,
            AnswersHold, InProgress
    <2>3. CASE stage'[c] = "idle"
        <3>1. Finish(c) /\ UNCHANGED <<owner, draft, lockedBy, found, req>>
            BY <1>5, <2>3 DEF ScanRows, DeleteRow, Write, Finds, Goto
        <3>2. c \in unrivalled => owner[req[c].token] # req[c].user
            BY <1>5, <2>3 DEF ScanRows, DeleteRow, Write, Finds, Goto, Matches, UnrivalledInPlace
        <3> QED
            BY <1>5, <2>1, <3>1, <3>2
            DEF Finish, Success, Goto, UnrivalledInPlace, AnswersHold, InProgress
    <2> QED
        BY <2>2, <2>3
<1>6. ASSUME NEW c \in Conn, Commit(c), UNCHANGED unrivalled
      PROVE  UnrivalledInPlace' /\ AnswersHold'
    <2>1. InProgress(c) /\ lockedBy[req[c].token] = c
        BY <1>6 DEF Commit, InProgress, StagesInPlace
    <2>2. owner'[req[c].token] = draft[req[c].token]
        BY <1>3, <1>6, <2>1 DEF Commit
    <2>3. /\ req[c].op = "register" => owner'[req[c].token] = req[c].user
          /\ req[c].op = "remove" => owner'[req[c].token] # req[c].user
        BY <1>3, <2>1, <2>2, RequestFields, NoConnAssumption DEF WritesInPlace
    <2>4. /\ answer'[c] \in {201, 204, 500}
          /\ answer'[c] = 201 => req[c].op = "register"
          /\ answer'[c] = 204 => req[c].op = "remove"
          /\ \A d \in Conn \ {c} : answer'[d] = answer[d] /\ stage'[d] = stage[d]
          /\ stage'[c] = "idle" /\ req' = req
        BY <1>3, <1>6, <2>1, RequestFields DEF Commit, Finish, Goto, Success
    <2>5. ASSUME NEW d \in unrivalled \ {c}, stage[d] = "delete", found'[d] = "gone"
          PROVE  owner'[req[d].token] # req[d].user
        <3>1. d \in Conn /\ req[d] \in Request /\ req[d].op = "remove"
            BY <2>5 DEF UnrivalledInPlace, StagesInPlace
        <3>2. CASE found[d] = "gone"
            BY <1>6, <2>5, <3>1, <3>2, CommitIsNoRival DEF UnrivalledInPlace
        <3>3. CASE found[d] # "gone"
            <4>1. lockedBy[req[d].token] = c /\ draft[req[d].token] = Nobody
                BY <1>6, <2>5, <3>1, <3>3 DEF Commit, Outdated, Written
            <4> QED
                BY <1>6, <3>1, <4>1, RequestFields DEF Commit
        <3> QED
            BY <3>2, <3>3
    <2>6. UnrivalledInPlace'
        BY <1>6, <2>4, <2>5 DEF UnrivalledInPlace, InProgress
    <2>7. AnswersHold'
        <3> SUFFICES ASSUME NEW d \in unrivalled'
                     PROVE  /\ answer'[d] = 201 => owner'[req'[d].token] = req'[d].user
                            /\ answer'[d] = 204 => owner'[req'[d].token] # req'[d].user
            BY DEF AnswersHold
        <3>1. CASE d = c
            BY <2>3, <2>4, <3>1
        <3>2. CASE d # c
            BY <1>6, <2>4, <3>2, CommitIsNoRival DEF AnswersHold, UnrivalledInPlace
        <3> QED
            BY <3>1, <3>2
    <2> QED
        BY <2>6, <2>7
<1>7. ASSUME NEW c \in Conn, Abandon(c) \/ Undo(c), UNCHANGED unrivalled
      PROVE  UnrivalledInPlace' /\ AnswersHold'
    BY <1>7 DEF Abandon, Undo, Goto, UnrivalledInPlace, AnswersHold, InProgress
<1> QED
    BY <1>1, <1>2, <1>4, <1>5, <1>6, <1>7 DEF ObservedNext, Statement

\* An answer holds until a rival request comes, whatever else goes on.
THEOREM AnswersAreTrue == ObservedSpec => []AnswersHold
<1>1. ObservedInit => AnswersInv
    BY TokenInvInit DEF ObservedInit, AnswersInv, UnrivalledInPlace, AnswersHold
<1>2. AnswersInv /\ [ObservedNext]_observedVars => AnswersInv'
    <2> SUFFICES ASSUME AnswersInv, [ObservedNext]_observedVars
                 PROVE  AnswersInv'
        OBVIOUS
    <2>1. TokenInv'
        BY TokenInvStep, ObservedIsNext DEF AnswersInv
    <2>2. TypeOK'
        BY <2>1 DEF TokenInv
    <2> QED
        BY <2>1, <2>2, UnrivalledStep DEF AnswersInv
<1>3. AnswersInv => AnswersHold
    BY DEF AnswersInv
<1> QED
    BY <1>1, <1>2, <1>3, PTL DEF ObservedSpec
=============================================================================
