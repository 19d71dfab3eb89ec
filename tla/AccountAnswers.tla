---------------------------- MODULE AccountAnswers ----------------------------
(***************************************************************************)
(* Accounts with an observer: what was true of a request's user at some    *)
(* moment between the request's begin and its answer.                      *)
(***************************************************************************)
EXTENDS Accounts

VARIABLE during  \* what each connection's request has lived through

observedVars == <<vars, during>>

\* What holds of the user of request r now.
Now(r) ==
    {IF users[r.user] = NoRow THEN "gone" ELSE IF users[r.user].deleted THEN "deleted" ELSE "live"}
        \cup {IF child["role"][v] = NoRow THEN "roleless" ELSE "roled" :
                 v \in {v \in {r.user} : r.op = "me"}}

\* The requests in progress live through the new state.
Watch ==
    during' = [c \in Conn |-> IF stage'[c] = "idle" THEN {} ELSE during[c] \cup Now(req[c])']

ObservedInit == Init /\ during = [c \in Conn |-> {}]

ObservedNext == Next /\ Watch

ObservedSpec == ObservedInit /\ [][ObservedNext]_observedVars

----------------------------------------------------------------------------
\* The step answers a request of connection c for one of ops with one of
\* statuses, and the request is not given up.
Answers(c, ops, statuses) ==
    /\ stage[c] # "idle" /\ stage'[c] = "idle"
    /\ answer[c] = 0 /\ answer'[c] \in statuses
    /\ req[c].op \in ops
    /\ ~ Abandon(c)

\* GetMe's answer mixes two moments and a removal may fall between them, but
\* each half was true while the request ran: 200 of an account that was visible,
\* 404 of one that was not, a role that was assigned, none ("a valid, expected
\* state right after signup") where there was none.  What was there all the
\* time is shown, and nothing but a failure is answered 500.
MeIsTrue ==
    [][ \A c \in Conn :
          /\ Answers(c, {"me"}, {200}) =>
               /\ "live" \in during[c]
               /\ (IF shown[c] = NoRow THEN "roleless" ELSE "roled") \in during[c]
          /\ Answers(c, {"me"}, {404}) => during[c] \cap {"gone", "deleted"} # {}
          /\ ~ Answers(c, {"me"}, {500}) ]_observedVars

\* A write that does not fail is refused only because its account was gone for a
\* moment: a token outlives its account.  What is answered 2xx was written while
\* the account existed, deleted by the back office or not.
WritesAreTrue ==
    [][ \A c \in Conn :
          /\ Answers(c, Table, {500}) => "gone" \in during[c]
          /\ Answers(c, Table, {200, 201}) => during[c] \cap {"live", "deleted"} # {}
      ]_observedVars

\* Why: a request has lived through what is true now and what it has read.
DuringInPlace ==
    /\ DOMAIN during = Conn
    /\ \A c \in Conn : stage[c] # "idle" =>
        /\ Now(req[c]) \subseteq during[c]
        /\ "user" \in got[c] => "live" \in during[c]
        /\ "role" \in got[c] => (IF shown[c] = NoRow THEN "roleless" ELSE "roled") \in during[c]

ObservedInv == AccountInv /\ DuringInPlace

=============================================================================
