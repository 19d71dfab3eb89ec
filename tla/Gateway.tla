-------------------------------- MODULE Gateway -------------------------------
(***************************************************************************)
(* A request to /api/v1 on its way to the service and back: Auth of        *)
(* internal/middleware/auth.go, the handlers of internal/users/handler.go, *)
(* and the statuses of common/apperrors and common/httpx.                  *)
(*                                                                         *)
(* Keys come and go at Supabase while requests wait, and tokens expire.    *)
(* keyfunc and jwt are modelled from how Auth uses them: keys are cached,  *)
(* and fetched again for a token whose key has not been seen yet.          *)
(***************************************************************************)
EXTENDS Requests

CONSTANTS
    Req,      \* the requests of a behaviour
    Key,      \* the signing keys of Supabase Auth
    User,     \* the uuids a subject can be
    NoUser,   \* a subject that is no uuid, and the caller of a context without one
    Nothing,  \* what stands for a request that has not arrived or has been answered
    Sends     \* what each request may be

VARIABLES
    published,  \* the keys at the JWKS address
    withdrawn,  \* the keys that are there no more
    cached,     \* the keys keyfunc knows
    response,   \* the key set each request's own fetch has brought
    expired,    \* the requests whose token has expired
    req,        \* its Authorization header, and what it asks
    caller,     \* the user of its context
    stage,
    answer      \* its status, 0 while undecided

keys == <<published, withdrawn, cached>>
vars == <<keys, response, expired, req, caller, stage, answer>>

(***************************************************************************)
(* A header is missing, of another scheme, or no JWT; or a token.  genuine *)
(* says that the named key made the signature.                             *)
(***************************************************************************)
Credential == [header : {"missing", "basic", "garbled", "token"},
               alg : {"ES256", "RS256", "HS256"},
               key : Key,
               genuine : BOOLEAN,
               exp : BOOLEAN,      \* there is an expiry
               subject : User \cup {NoUser}]

ASSUME NoUserAssumption == NoUser \notin User
Request == [cred : Credential, call : Call]
ASSUME SendsAssumption == Nothing \notin Request /\ \A q \in Req : Sends[q] \subseteq Request

Stage == {"none", "arrived", "fetching", "fetched", "installed", "authorised", "called", "answered"}

TypeOK ==
    /\ published \subseteq Key /\ withdrawn \subseteq Key /\ cached \subseteq Key
    /\ response \in [Req -> SUBSET Key]
    /\ expired \subseteq Req
    /\ caller \in [Req -> User \cup {NoUser}]
    /\ stage \in [Req -> Stage]
    /\ answer \in [Req -> {0, 200, 201, 204, 400, 401, 404, 405, 500}]
    /\ req \in [Req -> Request \cup {Nothing}]
    /\ \A q \in Req : IF stage[q] \in {"none", "answered"} THEN req[q] = Nothing ELSE req[q] \in Sends[q]

\* The keys are fetched once before the server starts.
Init ==
    /\ published \in SUBSET Key \ {{}}
    /\ withdrawn = {}
    /\ cached = published
    /\ response = [q \in Req |-> {}]
    /\ expired = {}
    /\ req = [q \in Req |-> Nothing]
    /\ caller = [q \in Req |-> NoUser]
    /\ stage = [q \in Req |-> "none"]
    /\ answer = [q \in Req |-> 0]

----------------------------------------------------------------------------
(* Supabase Auth, and the clock.                                           *)

Publish(k) ==
    /\ k \notin published \cup withdrawn
    /\ published' = published \cup {k}
    /\ UNCHANGED <<withdrawn, cached, response, expired, req, caller, stage, answer>>

Withdraw(k) ==
    /\ k \in published
    /\ published' = published \ {k}
    /\ withdrawn' = withdrawn \cup {k}
    /\ UNCHANGED <<cached, response, expired, req, caller, stage, answer>>

Expire(q) ==
    /\ stage[q] \in {"arrived", "fetching", "fetched", "installed"}
    /\ q \notin expired
    /\ expired' = expired \cup {q}
    /\ UNCHANGED <<keys, response, req, caller, stage, answer>>

\* keyfunc may also refresh on its own.
Refresh ==
    /\ cached' = published
    /\ UNCHANGED <<published, withdrawn, response, expired, req, caller, stage, answer>>

----------------------------------------------------------------------------
(* Auth.                                                                   *)

\* Supabase signs with keys that it publishes.
Arrive(q, r) ==
    /\ stage[q] \in {"none", "answered"}
    /\ r.cred.genuine => r.cred.key \in published \cup withdrawn
    /\ req' = [req EXCEPT ![q] = r]
    /\ stage' = [stage EXCEPT ![q] = "arrived"]
    /\ answer' = [answer EXCEPT ![q] = 0]
    /\ UNCHANGED <<keys, response, expired, caller>>

Answer(q, status) ==
    /\ stage' = [stage EXCEPT ![q] = "answered"]
    /\ answer' = [answer EXCEPT ![q] = status]
    /\ req' = [req EXCEPT ![q] = Nothing]
    /\ caller' = [caller EXCEPT ![q] = NoUser]
    /\ response' = [response EXCEPT ![q] = {}]
    /\ expired' = expired \ {q}

\* bearerToken, and jwt.WithValidMethods: looked at before any key.
Readable(c) == c.header = "token" /\ c.alg \in {"ES256", "RS256"}

\* Mutant: jwt.WithExpirationRequired without the check of the expiry.
NeverExpires(q) == req[q].cred.genuine /\ req[q].cred.exp /\ req[q].cred.subject # NoUser

\* The signature, the claims and the subject.
Verifies(q) ==
    req[q].cred.genuine /\ req[q].cred.exp /\ q \notin expired /\ req[q].cred.subject # NoUser

\* The key of q's token is at hand.
Verify(q) ==
    IF Verifies(q)
      THEN /\ caller' = [caller EXCEPT ![q] = req[q].cred.subject]
           /\ stage' = [stage EXCEPT ![q] = "authorised"]
           /\ response' = [response EXCEPT ![q] = {}]
           /\ UNCHANGED <<expired, req, answer>>
      ELSE Answer(q, 401)

\* k.Keyfunc: a key that it has not seen is fetched first.
Authenticate(q) ==
    /\ stage[q] = "arrived"
    /\ \/ ~ Readable(req[q].cred) /\ Answer(q, 401)
       \/ Readable(req[q].cred) /\ req[q].cred.key \in cached /\ Verify(q)
       \/ /\ Readable(req[q].cred) /\ req[q].cred.key \notin cached
          /\ stage' = [stage EXCEPT ![q] = "fetching"]
          /\ UNCHANGED <<response, expired, req, caller, answer>>
    /\ UNCHANGED keys

\* Mutant: what is fetched is a copy of what was fetched before.
OldKeys == cached

\* What is at cfg.Supabase.JWKSURL.
JWKS == published

\* The JWKS address answers.
Fetch(q) ==
    /\ stage[q] = "fetching"
    /\ response' = [response EXCEPT ![q] = JWKS]
    /\ stage' = [stage EXCEPT ![q] = "fetched"]
    /\ UNCHANGED <<keys, expired, req, caller, answer>>

\* It does not, or keyfunc has fetched too often.
FetchFails(q) ==
    /\ stage[q] = "fetching"
    /\ Answer(q, 401)
    /\ UNCHANGED keys

\* The answer replaces the keys, even those of a later fetch.
Install(q) ==
    /\ stage[q] = "fetched"
    /\ cached' = response[q]
    /\ stage' = [stage EXCEPT ![q] = "installed"]
    /\ UNCHANGED <<published, withdrawn, response, expired, req, caller, answer>>

\* The key is looked up again, in what is there by now.
LookUp(q) ==
    /\ stage[q] = "installed"
    /\ IF req[q].cred.key \in cached THEN Verify(q) ELSE Answer(q, 401)
    /\ UNCHANGED keys

----------------------------------------------------------------------------
(* The router, the handlers and the errors of the service.                 *)

RouterAnswer == [unrouted |-> 404, wrongMethod |-> 405]

\* The router of the users answers behind Auth like everything else.
NotRouted(q) ==
    /\ stage[q] = "authorised"
    /\ req[q].call.op \in DOMAIN RouterAnswer
    /\ Answer(q, RouterAnswer[req[q].call.op])
    /\ UNCHANGED keys

\* Mutant: a validation error is a 422.
Unprocessable(err) ==
    CASE err = "ErrNotFound" -> 404
      [] err = "ErrUnauthorized" -> 401
      [] err = "ErrValidation" -> 422
      [] err = "ErrConflict" -> 409
      [] OTHER -> 500

ToHTTPStatus(err) ==
    CASE err = "ErrNotFound" -> 404
      [] err = "ErrUnauthorized" -> 401
      [] err = "ErrValidation" -> 400
      [] err = "ErrConflict" -> 409
      [] OTHER -> 500

\* httpx.WriteError
WriteError(q, err) == Answer(q, ToHTTPStatus(err))

\* The message names what was wrong with the id, the body or a field.
Refuse(q) ==
    /\ stage[q] = "authorised"
    /\ req[q].call.op \notin DOMAIN RouterAnswer
    /\ ~ Passes(req[q].call)
    /\ WriteError(q, "ErrValidation")
    /\ UNCHANGED keys

\* The date of a profile is parsed once more, in the layout of its tag: what has
\* passed cannot fail.
Handle(q) ==
    /\ stage[q] = "authorised"
    /\ req[q].call.op \notin DOMAIN RouterAnswer
    /\ Passes(req[q].call)
    /\ stage' = [stage EXCEPT ![q] = "called"]
    /\ UNCHANGED <<keys, response, expired, req, caller, answer>>

\* What the repository returns, beside what the database makes fail.
ServiceError(op) ==
    CASE op \in {"me", "update"} -> {"ErrNotFound", "other"}
      [] op = "create" -> {"ErrValidation", "other"}
      [] op = "deleteAddress" -> {"ErrNotFound", "ErrValidation", "other"}
      [] OTHER -> {"other"}

Success(op) ==
    CASE op \in {"create", "register"} -> 201
      [] op \in {"deleteAddress", "deleteToken"} -> 204
      [] OTHER -> 200

Serve(q) ==
    /\ stage[q] = "called"
    /\ \/ Answer(q, Success(req[q].call.op))
       \/ \E err \in ServiceError(req[q].call.op) : WriteError(q, err)
    /\ UNCHANGED keys

----------------------------------------------------------------------------
Progress(q) ==
    \/ Authenticate(q) \/ Fetch(q) \/ FetchFails(q) \/ Install(q) \/ LookUp(q)
    \/ NotRouted(q) \/ Refuse(q) \/ Handle(q) \/ Serve(q)

Next ==
    \/ \E k \in Key : Publish(k) \/ Withdraw(k)
    \/ Refresh
    \/ \E q \in Req : Expire(q) \/ Progress(q)
    \/ \E q \in Req : \E r \in Sends[q] : Arrive(q, r)

Spec == Init /\ [][Next]_vars

----------------------------------------------------------------------------
(* Properties.                                                             *)

\* "The user's identity comes from the verified JWT": whoever a request acts for,
\* Supabase has published the key that signed for him, and the token had not
\* expired when it was looked at, however long it had waited for the key.
ActsForHolder ==
    [][ \A q \in Req :
          /\ caller'[q] \notin {caller[q], NoUser} =>
               /\ Readable(req[q].cred) /\ req[q].cred.genuine /\ req[q].cred.exp /\ q \notin expired
               /\ req[q].cred.key \in published \cup withdrawn
          /\ stage'[q] = "called" => caller'[q] = req[q].cred.subject /\ caller'[q] \in User ]_vars

\* "refreshes them automatically when a token references a key it hasn't seen
\* yet": a token in order is refused only if it expires or its key is withdrawn
\* first, or the fetch it waits for fails, or another answer replaces the key that
\* its own fetch has brought.
FreshKeysWork ==
    [][ \A q \in Req : answer[q] = 0 /\ answer'[q] = 401 =>
          \/ ~ Readable(req[q].cred) \/ ~ req[q].cred.genuine \/ ~ req[q].cred.exp
          \/ req[q].cred.subject = NoUser
          \/ q \in expired \/ req[q].cred.key \notin published
          \/ stage[q] = "fetching"
          \/ stage[q] = "installed" /\ req[q].cred.key \in response[q] \ cached ]_vars

\* A body the tags allow is refused only for a coordinate of zero in a new
\* address, which "required" takes for a missing one; an update may set it.
RefusedWithCause ==
    [][ \A q \in Req : answer[q] = 0 /\ answer'[q] = 400 /\ stage[q] = "authorised" =>
          \/ req[q].call.op \in {"update", "deleteAddress"} /\ ~ req[q].call.id
          \/ req[q].call.op = "deleteToken" /\ req[q].call.token = 0
          \/ ~ WithinLimits(req[q].call)
          \/ req[q].call.op = "create" /\ \E b \in req[q].call.body : 0 \in b.lat \cup b.lng ]_vars

\* What reaches the service is what the tables and the repository can take.
FitsWhatIsStored == \A q \in Req : stage[q] = "called" => FitsTables(req[q].call)

=============================================================================
