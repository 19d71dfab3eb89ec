---------------------------- MODULE TokenAnswers ----------------------------
(***************************************************************************)
(* DeviceTokens with an observer: which of the latest answers have not     *)
(* been contradicted by a rival request, before or after they were given.  *)
(***************************************************************************)
EXTENDS DeviceTokens

VARIABLE unrivalled  \* the connections whose latest request met no rival

observedVars == <<vars, unrivalled>>

\* Request s can undo what request r answers.
Rival(r, s) ==
    /\ s # NoRequest /\ r # NoRequest
    /\ s.token = r.token
    /\ \/ r.op = "remove" /\ s.op = "register" /\ s.user = r.user
       \/ r.op = "register" /\ s.op = "register" /\ s.user # r.user
       \/ r.op = "register" /\ s.op = "remove" /\ s.user = r.user

\* Request r of connection c begins, beside or after those of the others.
Meets(c, r) ==
    {d \in unrivalled \ {c} : ~ Rival(req[d], r)}
        \cup {d \in {c} : \A e \in Conn \ {c} : InProgress(e) => ~ Rival(r, req[e])}

ObservedInit == Init /\ unrivalled = {}

ObservedNext ==
    \E c \in Conn :
        \/ \E r \in Request : Begin(c, r) /\ unrivalled' = Meets(c, r)
        \/ (Statement(c) \/ Abandon(c) \/ Undo(c)) /\ UNCHANGED unrivalled

ObservedSpec == ObservedInit /\ [][ObservedNext]_observedVars

----------------------------------------------------------------------------
\* An answer tells the truth for as long as no rival request comes: after 201
\* the token is the caller's, after 204 ("so a signed-out device stops
\* receiving push notifications for that account") it is not, whatever requests
\* that are no rivals do meanwhile and whichever rows they have found.  A rival
\* that is still in progress when the request begins is excluded, one that was
\* given up and answered 500 too: it may be applied late.
AnswersHold ==
    \A c \in unrivalled :
        /\ answer[c] = 201 => owner[req[c].token] = req[c].user
        /\ answer[c] = 204 => owner[req[c].token] # req[c].user

\* Why: what can still change the row is no rival, and the row a removal found
\* is gone for good once it is gone.
UnrivalledInPlace ==
    /\ unrivalled \subseteq Conn
    /\ \A c \in unrivalled :
        /\ req[c] \in Request
        /\ answer[c] = 201 => req[c].op = "register"
        /\ answer[c] = 204 => req[c].op = "remove"
        /\ \A d \in Conn \ {c} : InProgress(d) => ~ Rival(req[c], req[d])
        /\ stage[c] = "delete" /\ found[c] = "gone" => owner[req[c].token] # req[c].user

AnswersInv == TokenInv /\ UnrivalledInPlace /\ AnswersHold

=============================================================================
