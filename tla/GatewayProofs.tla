---------------------------- MODULE GatewayProofs -----------------------------
(***************************************************************************)
(* What holds of Gateway for every number of keys, users and requests,     *)
(* whatever they ask.                                                      *)
(***************************************************************************)
EXTENDS Gateway, TLAPS

----------------------------------------------------------------------------
(* Bodies.                                                                 *)

\* The value of an optional field that is there.
LEMMA PlainValue ==
    ASSUME NEW S, NEW field \in Opt(S), NEW zero, field # {}
    PROVE  Plain(field, zero) \in field /\ field = {Plain(field, zero)}
<1>1. PICK v \in field : TRUE
    OBVIOUS
<1>2. (CHOOSE w \in field : TRUE) \in field
    BY <1>1
<1> QED
    BY <1>2 DEF Plain, Opt

\* What the calls of each kind hold.
LEMMA CallFields ==
    ASSUME NEW c \in Call
    PROVE  /\ c.op = "create" => c.body \in Opt(CreateBody)
           /\ c.op = "update" => c.body \in Opt(UpdateBody) /\ c.id \in BOOLEAN
           /\ c.op = "deleteAddress" => c.id \in BOOLEAN
           /\ c.op = "profile" => c.body \in Opt(ProfileBody)
           /\ c.op = "register" => c.body \in Opt(TokenBody)
           /\ c.op = "deleteToken" => c.token \in Nat
BY DEF Call, Bare

\* The coordinates that are sent are a point on the globe.
OnTheGlobe(b) == b.lat \subseteq -90..90 /\ b.lng \subseteq -180..180

\* A new address that is accepted lies on the globe, and nothing of it is missing.
LEMMA CreatedFits ==
    ASSUME NEW b \in CreateBody, ValidCreate(b)
    PROVE  /\ OnTheGlobe(b)
           /\ {} \notin {b.label, b.address, b.lat, b.lng}
<1> DEFINE lat == Plain(b.lat, 0)
<1> DEFINE lng == Plain(b.lng, 0)
<1>1. /\ Plain(b.label, 0) >= 1 /\ Plain(b.address, 0) >= 1
      /\ lat # 0 /\ -90 <= lat /\ lat <= 90
      /\ lng # 0 /\ -180 <= lng /\ lng <= 180
    BY DEF ValidCreate
<1>2. b.label # {} /\ b.address # {} /\ b.lat # {} /\ b.lng # {}
  <2>1. ASSUME NEW field, field = {} PROVE Plain(field, 0) = 0
      BY <2>1 DEF Plain
  <2> QED
      BY <1>1, <2>1
<1>3. b.lat = {lat} /\ b.lng = {lng}
    BY <1>2, PlainValue DEF CreateBody
<1>4. lat \in Int /\ lng \in Int
    BY <1>3 DEF CreateBody, Opt
<1>5. OnTheGlobe(b)
    BY <1>1, <1>3, <1>4 DEF OnTheGlobe
<1> QED
    BY <1>2, <1>5

\* So does a changed one, and it makes nothing an ordinary address.
LEMMA UpdatedFits ==
    ASSUME NEW b \in UpdateBody, ValidUpdate(b)
    PROVE  OnTheGlobe(b) /\ FALSE \notin b.isDefault
<1>1. b.lat \subseteq Int /\ b.lng \subseteq Int
    BY DEF UpdateBody, CreateBody, Opt
<1>2. \A d \in b.lat : -90 <= d /\ d <= 90
    BY DEF ValidUpdate
<1>3. \A d \in b.lng : -180 <= d /\ d <= 180
    BY DEF ValidUpdate
<1>4. FALSE \notin b.isDefault
    BY Zenon DEF ValidUpdate
<1>5. b.lat \subseteq -90..90
    BY <1>1, <1>2
<1>6. b.lng \subseteq -180..180
    BY <1>1, <1>3
<1> QED
    BY <1>4, <1>5, <1>6, Zenon DEF OnTheGlobe

\* A token that is accepted names a platform of the enum.
LEMMA RegisteredFits ==
    ASSUME NEW b \in TokenBody, ValidToken(b)
    PROVE  b.platform \subseteq {"ios", "android", "web"}
<1>1. Plain(b.platform, "") \in {"ios", "android", "web"}
    BY DEF ValidToken
<1>2. b.platform # {} => b.platform = {Plain(b.platform, "")}
    BY PlainValue DEF TokenBody
<1> QED
    BY <1>1, <1>2

\* What the handlers let through fits.
LEMMA PassingFits ==
    ASSUME NEW c \in Call, Passes(c)
    PROVE  FitsTables(c)
<1>1. ASSUME c.op = "create"
      PROVE  \A b \in c.body : b \in CreateBody /\ ValidCreate(b)
    BY <1>1, CallFields DEF Passes, DecodeAndValidate, Opt
<1>2. ASSUME c.op = "update"
      PROVE  \A b \in c.body : b \in UpdateBody /\ ValidUpdate(b)
    BY <1>2, CallFields DEF Passes, DecodeAndValidate, Opt
<1>3. ASSUME c.op = "profile"
      PROVE  \A b \in c.body : \A d \in b.birthDate : d = "date"
    BY <1>3 DEF Passes, DecodeAndValidate, ValidProfile
<1>4. ASSUME c.op = "register"
      PROVE  \A b \in c.body : b \in TokenBody /\ ValidToken(b)
    BY <1>4, CallFields DEF Passes, DecodeAndValidate, Opt
<1>5. ASSUME c.op = "create", NEW b \in c.body
      PROVE  OnTheGlobe(b) /\ {} \notin {b.label, b.address, b.lat, b.lng}
    BY <1>1, <1>5, CreatedFits
<1>6. ASSUME c.op = "update", NEW b \in c.body
      PROVE  OnTheGlobe(b) /\ FALSE \notin b.isDefault
    BY <1>2, <1>6, UpdatedFits, Zenon
<1>7. ASSUME c.op = "register", NEW b \in c.body
      PROVE  b.platform \subseteq {"ios", "android", "web"}
    BY <1>4, <1>7, RegisteredFits
<1>8. ASSUME c.op = "profile", NEW b \in c.body
      PROVE  b.birthDate \subseteq {"date"}
    BY <1>3, <1>8
<1>9. c.op \in {"create", "update"} => \A b \in c.body : OnTheGlobe(b)
  <2>1. CASE c.op = "create"
      BY <1>5, <2>1, Zenon
  <2>2. CASE c.op = "update"
      BY <1>6, <2>2, Zenon
  <2> QED
      BY <2>1, <2>2
<1> QED
    BY <1>5, <1>6, <1>7, <1>8, <1>9, Zenon DEF FitsTables, OnTheGlobe

\* The bodies that have limits.
LEMMA Limited == DOMAIN Limits = {"create", "update", "profile", "register"}
BY DEF Limits

\* A new address within its limits passes, unless a coordinate is zero.
LEMMA CreatePasses ==
    ASSUME NEW c \in Call, c.op = "create", WithinLimits(c),
           \A b \in c.body : 0 \notin b.lat \cup b.lng
    PROVE  DecodeAndValidate(c)
<1>1. c.body # {} /\ c.body \subseteq CreateBody
    BY CallFields, Limited DEF WithinLimits, Opt
<1>2. ASSUME NEW b \in c.body PROVE ValidCreate(b)
  <2>1. /\ \A f \in Limits["create"].required : b[f] # {}
        /\ \A f \in DOMAIN Limits["create"].ranges : b[f] \subseteq Limits["create"].ranges[f]
      BY <1>2, Limited DEF WithinLimits
  <2>2. b.label # {} /\ b.address # {} /\ b.lat # {} /\ b.lng # {}
      BY <2>1 DEF Limits
  <2>3. /\ b.label \subseteq 1..100 /\ b.address \subseteq 1..500 /\ b.deliveryNote \subseteq 0..500
        /\ b.lat \subseteq -90..90 /\ b.lng \subseteq -180..180
      BY <2>1 DEF Limits
  <2>4. /\ Plain(b.label, 0) \in 1..100 /\ Plain(b.address, 0) \in 1..500
        /\ Plain(b.lat, 0) \in b.lat /\ Plain(b.lng, 0) \in b.lng
    <3>1. /\ b.label \in Opt(Nat) /\ b.address \in Opt(Nat)
          /\ b.lat \in Opt(Int) /\ b.lng \in Opt(Int)
        BY <1>1, <1>2 DEF CreateBody
    <3> QED
        BY <2>2, <2>3, <3>1, PlainValue
  <2>5. Plain(b.lat, 0) \in -90..90 /\ Plain(b.lat, 0) # 0
      BY <1>2, <2>3, <2>4
  <2>6. Plain(b.lng, 0) \in -180..180 /\ Plain(b.lng, 0) # 0
      BY <1>2, <2>3, <2>4
  <2>7. \A n \in b.deliveryNote : n <= 500
      BY <2>3
  <2> QED
      BY <2>4, <2>5, <2>6, <2>7 DEF ValidCreate
<1> QED
    BY <1>1, <1>2 DEF DecodeAndValidate

\* A change within its limits passes.
LEMMA UpdatePasses ==
    ASSUME NEW c \in Call, c.op = "update", WithinLimits(c)
    PROVE  DecodeAndValidate(c)
<1>1. c.body # {}
    BY Limited DEF WithinLimits
<1>2. ASSUME NEW b \in c.body PROVE ValidUpdate(b)
  <2>1. \A f \in DOMAIN Limits["update"].ranges : b[f] \subseteq Limits["update"].ranges[f]
      BY <1>2, Limited DEF WithinLimits
  <2>2. b.label \subseteq 1..100 /\ b.address \subseteq 1..500 /\ b.deliveryNote \subseteq 0..500
      BY <2>1 DEF Limits
  <2>3. b.lat \subseteq -90..90 /\ b.lng \subseteq -180..180 /\ b.isDefault \subseteq {TRUE}
    <3>1. /\ Limits["update"].ranges.lat = -90..90
          /\ Limits["update"].ranges.lng = -180..180
          /\ Limits["update"].ranges.isDefault = {TRUE}
        BY DEF Limits
    <3>2. {"lat", "lng", "isDefault"} \subseteq DOMAIN Limits["update"].ranges
        BY DEF Limits
    <3>3. b.lat \subseteq -90..90
        BY <2>1, <3>1, <3>2
    <3>4. b.lng \subseteq -180..180
        BY <2>1, <3>1, <3>2
    <3>5. b.isDefault \subseteq {TRUE}
        BY <2>1, <3>1, <3>2
    <3> QED
        BY <3>3, <3>4, <3>5
  <2>4. /\ \A l \in b.label : l >= 1 /\ l <= 100
        /\ \A a \in b.address : a >= 1 /\ a <= 500
        /\ \A n \in b.deliveryNote : n <= 500
      BY <2>2
  <2>5. /\ \A d \in b.lat : -90 <= d /\ d <= 90
        /\ \A d \in b.lng : -180 <= d /\ d <= 180
      BY <2>3
  <2>6. \A d \in b.isDefault : d
      BY <2>3, Zenon
  <2> QED
      BY <2>4, <2>5, <2>6, Zenon DEF ValidUpdate
<1> QED
    BY <1>1, <1>2 DEF DecodeAndValidate

\* A profile within its limits passes.
LEMMA ProfilePasses ==
    ASSUME NEW c \in Call, c.op = "profile", WithinLimits(c)
    PROVE  DecodeAndValidate(c)
<1>1. c.body # {}
    BY Limited DEF WithinLimits
<1>2. ASSUME NEW b \in c.body PROVE ValidProfile(b)
  <2>1. \A f \in DOMAIN Limits["profile"].ranges : b[f] \subseteq Limits["profile"].ranges[f]
      BY <1>2, Limited DEF WithinLimits
  <2>2. /\ b.firstName \subseteq 1..100 /\ b.lastName \subseteq 1..100
        /\ b.profileImageURL \subseteq {"url"} /\ b.birthDate \subseteq {"date"}
      BY <2>1 DEF Limits
  <2> QED
      BY <2>2 DEF ValidProfile
<1> QED
    BY <1>1, <1>2 DEF DecodeAndValidate

\* A registration within its limits passes.
LEMMA RegistrationPasses ==
    ASSUME NEW c \in Call, c.op = "register", WithinLimits(c)
    PROVE  DecodeAndValidate(c)
<1>1. c.body # {} /\ c.body \subseteq TokenBody
    BY CallFields, Limited DEF WithinLimits, Opt
<1>2. ASSUME NEW b \in c.body PROVE ValidToken(b)
  <2>1. /\ \A f \in Limits["register"].required : b[f] # {}
        /\ \A f \in DOMAIN Limits["register"].ranges : b[f] \subseteq Limits["register"].ranges[f]
      BY <1>2, Limited DEF WithinLimits
  <2>2. /\ b.token # {} /\ b.token \subseteq Nat \ 0..9
        /\ b.platform # {} /\ b.platform \subseteq {"ios", "android", "web"}
      BY <2>1 DEF Limits
  <2>3. Plain(b.token, 0) \in b.token /\ Plain(b.platform, "") \in b.platform
      BY <1>1, <1>2, <2>2, PlainValue DEF TokenBody
  <2>4. Plain(b.token, 0) >= 10
    <3>1. Plain(b.token, 0) \in Nat \ 0..9
        BY <2>2, <2>3
    <3> QED
        BY <3>1
  <2> QED
      BY <2>2, <2>3, <2>4 DEF ValidToken
<1> QED
    BY <1>1, <1>2 DEF DecodeAndValidate

\* What is refused has a cause.
LEMMA RefusalsHaveCauses ==
    ASSUME NEW c \in Call, ~ Passes(c)
    PROVE  \/ c.op \in {"update", "deleteAddress"} /\ ~ c.id
           \/ c.op = "deleteToken" /\ c.token = 0
           \/ ~ WithinLimits(c)
           \/ c.op = "create" /\ \E b \in c.body : 0 \in b.lat \cup b.lng
BY CreatePasses, UpdatePasses, ProfilePasses, RegistrationPasses DEF Passes

----------------------------------------------------------------------------
(* The invariant.                                                          *)

Busy == {"arrived", "fetching", "fetched", "installed", "authorised", "called"}

\* keyfunc knows keys that have been published, and the withdrawn stay away.
KeysInPlace ==
    /\ published \cap withdrawn = {}
    /\ cached \subseteq published \cup withdrawn

\* A token that Supabase signed names a key it has published, a fetch has brought
\* every such key but the withdrawn, and whoever has been let in is the subject
\* of his token.
RequestInPlace(q) ==
    /\ response[q] \subseteq published \cup withdrawn
    /\ stage[q] \in Busy /\ req[q].cred.genuine => req[q].cred.key \in published \cup withdrawn
    /\ stage[q] \in {"fetching", "fetched", "installed"} => Readable(req[q].cred)
    /\ stage[q] \in {"fetched", "installed"} /\ req[q].cred.genuine =>
         req[q].cred.key \in response[q] \cup withdrawn
    /\ stage[q] \in {"authorised", "called"} =>
         caller[q] = req[q].cred.subject /\ caller[q] \in User
    /\ stage[q] \notin {"authorised", "called"} => caller[q] = NoUser
    /\ stage[q] = "called" => Passes(req[q].call)

GatewayInv == TypeOK /\ KeysInPlace /\ \A q \in Req : RequestInPlace(q)

Answers == {200, 201, 204, 400, 401, 404, 405, 500}

\* A request in progress is one that may be sent.
LEMMA InProgress ==
    ASSUME TypeOK, NEW q \in Req, stage[q] \in Busy
    PROVE  req[q] \in Sends[q] /\ req[q].cred \in Credential /\ req[q].call \in Call
BY SendsAssumption DEF TypeOK, Busy, Request

\* The statuses the handlers and the service end with.
LEMMA Statuses ==
    /\ \A op : Success(op) \in Answers
    /\ \A op : \A err \in ServiceError(op) : ToHTTPStatus(err) \in {400, 404, 500}
    /\ ToHTTPStatus("ErrValidation") = 400
    /\ \A op \in DOMAIN RouterAnswer : RouterAnswer[op] \in {404, 405}
<1>1. \A op : Success(op) \in Answers
    BY DEF Success, Answers
<1>2. \A op : ServiceError(op) \subseteq {"ErrNotFound", "ErrValidation", "other"}
    BY DEF ServiceError
<1>3. /\ ToHTTPStatus("ErrNotFound") = 404 /\ ToHTTPStatus("ErrValidation") = 400
      /\ ToHTTPStatus("other") = 500
    BY DEF ToHTTPStatus
<1>4. \A op \in DOMAIN RouterAnswer : RouterAnswer[op] \in {404, 405}
    BY DEF RouterAnswer
<1> QED
    BY <1>1, <1>2, <1>3, <1>4

\* The invariant holds when the server starts.
LEMMA GatewayInvInit == Init => GatewayInv
<1> SUFFICES ASSUME Init PROVE GatewayInv
    OBVIOUS
<1>1. TypeOK
    BY DEF Init, TypeOK, Stage
<1> QED
    BY <1>1 DEF Init, GatewayInv, KeysInPlace, RequestInPlace, Busy

\* What Supabase does leaves requests as they are.
LEMMA KeysStep ==
    ASSUME GatewayInv, Refresh \/ \E k \in Key : Publish(k) \/ Withdraw(k)
    PROVE  GatewayInv'
<1> USE DEF GatewayInv, TypeOK, KeysInPlace
<1>1. UNCHANGED <<response, expired, req, caller, stage, answer>>
    BY DEF Refresh, Publish, Withdraw
<1>2. TypeOK'
    BY <1>1 DEF Refresh, Publish, Withdraw
<1>3. KeysInPlace'
    BY DEF Refresh, Publish, Withdraw
<1>4. /\ withdrawn \subseteq withdrawn'
      /\ published \cup withdrawn \subseteq published' \cup withdrawn'
    BY DEF Refresh, Publish, Withdraw
<1>5. ASSUME NEW q \in Req PROVE RequestInPlace(q)'
    BY <1>1, <1>4 DEF RequestInPlace
<1> QED
    BY <1>2, <1>3, <1>5

\* A step of one request leaves the others as they are.
LEMMA OneRequest ==
    ASSUME GatewayInv, NEW q \in Req, UNCHANGED <<published, withdrawn>>,
           NEW p \in Req, p # q,
           response'[p] = response[p], req'[p] = req[p], caller'[p] = caller[p],
           stage'[p] = stage[p]
    PROVE  RequestInPlace(p)'
BY DEF GatewayInv, RequestInPlace

\* An answer forgets the request.
LEMMA AnswerStep ==
    ASSUME GatewayInv, NEW q \in Req, NEW status \in Answers, Answer(q, status),
           UNCHANGED <<published, withdrawn>>, cached' \subseteq published \cup withdrawn
    PROVE  GatewayInv'
<1> USE DEF GatewayInv
<1>1. TypeOK'
  <2>1. /\ published' \subseteq Key /\ withdrawn' \subseteq Key /\ cached' \subseteq Key
        /\ response' \in [Req -> SUBSET Key] /\ expired' \subseteq Req
        /\ caller' \in [Req -> User \cup {NoUser}]
        /\ req' \in [Req -> Request \cup {Nothing}]
      BY DEF Answer, TypeOK
  <2>2. stage' \in [Req -> Stage]
      BY DEF Answer, TypeOK, Stage
  <2>3. answer' \in [Req -> {0, 200, 201, 204, 400, 401, 404, 405, 500}]
      BY DEF Answer, TypeOK, Answers
  <2>4. \A p \in Req :
            IF stage'[p] \in {"none", "answered"} THEN req'[p] = Nothing ELSE req'[p] \in Sends[p]
      BY DEF Answer, TypeOK
  <2> QED
      BY <2>1, <2>2, <2>3, <2>4 DEF TypeOK
<1>2. KeysInPlace'
    BY DEF KeysInPlace
<1>3. /\ stage'[q] = "answered" /\ caller'[q] = NoUser /\ response'[q] = {}
      /\ \A p \in Req \ {q} : /\ stage'[p] = stage[p] /\ caller'[p] = caller[p]
                             /\ response'[p] = response[p] /\ req'[p] = req[p]
    BY DEF Answer, TypeOK
<1>4. RequestInPlace(q)'
    BY <1>3 DEF RequestInPlace, Busy
<1>5. ASSUME NEW p \in Req, p # q PROVE RequestInPlace(p)'
    BY <1>3, <1>5, OneRequest
<1> QED
    BY <1>1, <1>2, <1>4, <1>5

\* A step of q that answers nothing keeps the invariant if it keeps its part of it.
LEMMA StageStep ==
    ASSUME GatewayInv, NEW q \in Req, TypeOK',
           \A p \in Req \ {q} : /\ stage'[p] = stage[p] /\ caller'[p] = caller[p]
                               /\ response'[p] = response[p] /\ req'[p] = req[p],
           UNCHANGED <<published, withdrawn>>, cached' \subseteq published \cup withdrawn,
           RequestInPlace(q)'
    PROVE  GatewayInv'
<1> USE DEF GatewayInv
<1>1. KeysInPlace'
    BY DEF KeysInPlace
<1>2. ASSUME NEW p \in Req, p # q PROVE RequestInPlace(p)'
    BY <1>2, OneRequest
<1> QED
    BY <1>1, <1>2

\* A verified token lets its subject in.
LEMMA VerifyStep ==
    ASSUME GatewayInv, NEW q \in Req, stage[q] \in {"arrived", "installed"}, Verify(q),
           UNCHANGED <<published, withdrawn>>, cached' \subseteq published \cup withdrawn
    PROVE  GatewayInv'
<1> USE DEF GatewayInv
<1>1. CASE ~ Verifies(q)
    BY <1>1, AnswerStep DEF Verify, Answers
<1>2. CASE Verifies(q)
  <2>1. /\ caller' = [caller EXCEPT ![q] = req[q].cred.subject]
        /\ stage' = [stage EXCEPT ![q] = "authorised"]
        /\ response' = [response EXCEPT ![q] = {}]
        /\ UNCHANGED <<expired, req, answer>>
      BY <1>2 DEF Verify
  <2>2. req[q] \in Sends[q] /\ req[q].cred.subject \in User
      BY <1>2, InProgress DEF Verifies, Credential, Busy
  <2>3. /\ caller'[q] = req[q].cred.subject /\ stage'[q] = "authorised" /\ response'[q] = {}
        /\ req'[q] = req[q]
      BY <2>1 DEF TypeOK
  <2>4. RequestInPlace(q)'
      BY <2>2, <2>3 DEF RequestInPlace, Busy
  <2>5. TypeOK'
    <3>1. cached' \subseteq Key
        BY DEF TypeOK, KeysInPlace
    <3> QED
        BY <2>1, <2>2, <3>1 DEF TypeOK, Stage
  <2> QED
      BY <2>1, <2>4, <2>5, StageStep DEF TypeOK
<1> QED
    BY <1>1, <1>2

\* The steps of Auth.
LEMMA AuthStep ==
    ASSUME GatewayInv, NEW q \in Req,
           \/ Expire(q) \/ Authenticate(q) \/ Fetch(q) \/ FetchFails(q)
           \/ Install(q) \/ LookUp(q)
    PROVE  GatewayInv'
<1> USE DEF GatewayInv, KeysInPlace
<1>1. CASE Expire(q)
  <2>1. UNCHANGED <<keys, response, req, caller, stage, answer>> /\ expired' \subseteq Req
      BY <1>1 DEF Expire, TypeOK
  <2> QED
      BY <2>1 DEF keys, TypeOK, RequestInPlace
<1>2. CASE Authenticate(q)
  <2>1. UNCHANGED <<published, withdrawn, cached>> /\ stage[q] = "arrived"
      BY <1>2 DEF Authenticate, keys
  <2>2. CASE Answer(q, 401)
      BY <2>1, <2>2, AnswerStep DEF Answers
  <2>3. CASE Verify(q)
      BY <2>1, <2>3, VerifyStep
  <2>4. CASE /\ Readable(req[q].cred)
             /\ stage' = [stage EXCEPT ![q] = "fetching"]
             /\ UNCHANGED <<response, expired, req, caller, answer>>
    <3>1. RequestInPlace(q)'
        BY <2>1, <2>4 DEF RequestInPlace, TypeOK, Busy
    <3>2. req[q] \in Sends[q]
        BY <2>1, InProgress DEF Busy
    <3>3. TypeOK'
        BY <2>1, <2>4, <3>2 DEF TypeOK, Stage
    <3> QED
        BY <2>1, <2>4, <3>1, <3>3, StageStep DEF TypeOK
  <2> QED
      BY <1>2, <2>2, <2>3, <2>4 DEF Authenticate
<1>3. CASE Fetch(q)
  <2>1. /\ UNCHANGED <<published, withdrawn, cached, expired, req, caller, answer>>
        /\ stage[q] = "fetching"
        /\ response' = [response EXCEPT ![q] = published]
        /\ stage' = [stage EXCEPT ![q] = "fetched"]
      BY <1>3 DEF Fetch, JWKS, keys
  <2>2. RequestInPlace(q)'
    <3>1. stage'[q] = "fetched" /\ response'[q] = published
        BY <2>1 DEF TypeOK
    <3> QED
        BY <2>1, <3>1 DEF RequestInPlace, Busy
  <2>3. req[q] \in Sends[q]
      BY <2>1, InProgress DEF Busy
  <2>4. TypeOK'
      BY <2>1, <2>3 DEF TypeOK, Stage
  <2> QED
      BY <2>1, <2>2, <2>4, StageStep DEF TypeOK
<1>4. CASE FetchFails(q)
    BY <1>4, AnswerStep DEF FetchFails, keys, Answers
<1>5. CASE Install(q)
  <2>1. /\ UNCHANGED <<published, withdrawn>> /\ stage[q] = "fetched"
        /\ cached' \subseteq published \cup withdrawn /\ cached' \subseteq Key
        /\ UNCHANGED <<response, expired, req, caller, answer>>
        /\ stage' = [stage EXCEPT ![q] = "installed"]
      BY <1>5 DEF Install, RequestInPlace, TypeOK
  <2>2. RequestInPlace(q)'
    <3>1. stage'[q] = "installed"
        BY <2>1 DEF TypeOK
    <3> QED
        BY <2>1, <3>1 DEF RequestInPlace, Busy
  <2>3. req[q] \in Sends[q]
      BY <2>1, InProgress DEF Busy
  <2>4. TypeOK'
      BY <2>1, <2>3 DEF TypeOK, Stage
  <2> QED
      BY <2>1, <2>2, <2>4, StageStep DEF TypeOK
<1>6. CASE LookUp(q)
    BY <1>6, AnswerStep, VerifyStep DEF LookUp, keys, Answers
<1> QED
    BY <1>1, <1>2, <1>3, <1>4, <1>5, <1>6

\* The steps before and after Auth.
LEMMA HandlerStep ==
    ASSUME GatewayInv, NEW q \in Req,
           \/ NotRouted(q) \/ Refuse(q) \/ Handle(q) \/ Serve(q)
           \/ \E r \in Sends[q] : Arrive(q, r)
    PROVE  GatewayInv'
<1> USE DEF GatewayInv, KeysInPlace
<1>1. CASE NotRouted(q)
    BY <1>1, AnswerStep, Statuses DEF NotRouted, keys, Answers
<1>2. CASE Refuse(q)
    BY <1>2, AnswerStep, Statuses DEF Refuse, WriteError, keys, Answers
<1>3. CASE Handle(q)
  <2>1. /\ UNCHANGED <<published, withdrawn, cached, response, expired, req, caller, answer>>
        /\ stage[q] = "authorised" /\ Passes(req[q].call)
        /\ stage' = [stage EXCEPT ![q] = "called"]
      BY <1>3 DEF Handle, keys
  <2>2. RequestInPlace(q)'
    <3>1. stage'[q] = "called"
        BY <2>1 DEF TypeOK
    <3> QED
        BY <2>1, <3>1 DEF RequestInPlace, Busy
  <2>3. req[q] \in Sends[q]
      BY <2>1, InProgress DEF Busy
  <2>4. TypeOK'
      BY <2>1, <2>3 DEF TypeOK, Stage
  <2> QED
      BY <2>1, <2>2, <2>4, StageStep DEF TypeOK
<1>4. CASE Serve(q)
  <2>1. UNCHANGED <<published, withdrawn, cached>>
      BY <1>4 DEF Serve, keys
  <2>2. PICK status \in Answers : Answer(q, status)
      BY <1>4, Statuses DEF Serve, WriteError, Answers
  <2> QED
      BY <2>1, <2>2, AnswerStep
<1>5. ASSUME NEW r \in Sends[q], Arrive(q, r) PROVE GatewayInv'
  <2>1. /\ UNCHANGED <<published, withdrawn, cached, response, expired, caller>>
        /\ req' = [req EXCEPT ![q] = r] /\ stage' = [stage EXCEPT ![q] = "arrived"]
        /\ answer' = [answer EXCEPT ![q] = 0]
        /\ r.cred.genuine => r.cred.key \in published \cup withdrawn
      BY <1>5 DEF Arrive, keys
  <2>2. RequestInPlace(q)'
    <3>1. stage'[q] = "arrived" /\ req'[q] = r /\ stage[q] \notin Busy
        BY <1>5, <2>1 DEF TypeOK, Arrive, Busy
    <3> QED
        BY <2>1, <3>1 DEF RequestInPlace, Busy
  <2>3. TypeOK'
      BY <2>1, SendsAssumption DEF TypeOK, Stage
  <2> QED
      BY <2>1, <2>2, <2>3, StageStep DEF TypeOK
<1> QED
    BY <1>1, <1>2, <1>3, <1>4, <1>5

\* Every step keeps the invariant.
LEMMA GatewayInvStep == GatewayInv /\ [Next]_vars => GatewayInv'
<1> SUFFICES ASSUME GatewayInv, [Next]_vars PROVE GatewayInv'
    OBVIOUS
<1>1. CASE UNCHANGED vars
    BY <1>1 DEF vars, keys, GatewayInv, TypeOK, KeysInPlace, RequestInPlace
<1>2. CASE Refresh \/ \E k \in Key : Publish(k) \/ Withdraw(k)
    BY <1>2, KeysStep
<1>3. CASE \E q \in Req : Expire(q) \/ Progress(q)
    BY <1>3, AuthStep, HandlerStep DEF Progress
<1>4. CASE \E q \in Req : \E r \in Sends[q] : Arrive(q, r)
    BY <1>4, HandlerStep
<1> QED
    BY <1>1, <1>2, <1>3, <1>4 DEF Next

\* The invariant holds of every behaviour.
THEOREM GatewayInvHolds == Spec => []GatewayInv
BY GatewayInvInit, GatewayInvStep, PTL DEF Spec

----------------------------------------------------------------------------
(* What follows.                                                           *)

\* Every variable keeps its type.
THEOREM TypeCorrect == Spec => []TypeOK
BY GatewayInvHolds, PTL DEF GatewayInv

\* What reaches the service fits the tables.
THEOREM FitsWhatIsStoredHolds == Spec => []FitsWhatIsStored
<1>1. GatewayInv => FitsWhatIsStored
    BY InProgress, PassingFits DEF GatewayInv, RequestInPlace, FitsWhatIsStored, Busy
<1> QED
    BY <1>1, GatewayInvHolds, PTL

\* A request advances by steps of its own.
LEMMA OwnSteps ==
    ASSUME GatewayInv, [Next]_vars, NEW q \in Req,
           \/ stage'[q] # stage[q] \/ answer'[q] # answer[q] \/ caller'[q] # caller[q]
    PROVE  Progress(q) \/ \E r \in Sends[q] : Arrive(q, r)
<1> USE DEF GatewayInv, TypeOK
<1>1. ~ UNCHANGED <<stage, answer, caller>>
    OBVIOUS
<1>2. \/ \E p \in Req : Progress(p)
      \/ \E p \in Req : \E r \in Sends[p] : Arrive(p, r)
    BY <1>1 DEF Next, vars, Publish, Withdraw, Refresh, Expire
<1>3. ASSUME NEW p \in Req, p # q, Progress(p) PROVE FALSE
  <2>1. ASSUME NEW status, Answer(p, status) PROVE FALSE
      BY <1>3, <2>1 DEF Answer
  <2>2. ~ Verify(p)
      BY <1>3, <2>1 DEF Verify
  <2> QED
      BY <1>3, <2>1, <2>2
      DEF Progress, Authenticate, Fetch, FetchFails, Install, LookUp, NotRouted, Refuse, Handle,
          Serve, WriteError
<1>4. ASSUME NEW p \in Req, p # q, NEW r \in Sends[p], Arrive(p, r) PROVE FALSE
    BY <1>4 DEF Arrive
<1> QED
    BY <1>2, <1>3, <1>4

\* What an answer is.
LEMMA Answered ==
    ASSUME GatewayInv, NEW q \in Req, NEW status, Answer(q, status)
    PROVE  answer'[q] = status /\ caller'[q] = NoUser /\ stage'[q] = "answered"
BY DEF GatewayInv, TypeOK, Answer

\* What is asked changes only when a request arrives or is answered.
LEMMA SameRequest ==
    ASSUME GatewayInv, [Next]_vars, NEW q \in Req, stage'[q] \notin {"arrived", "answered"}
    PROVE  req'[q] = req[q]
<1> USE DEF GatewayInv, TypeOK
<1>1. CASE UNCHANGED req
    BY <1>1
<1>2. ASSUME NEW p \in Req, NEW status, Answer(p, status) PROVE req'[q] = req[q]
    BY <1>2 DEF Answer
<1>3. ASSUME NEW p \in Req, Verify(p) PROVE req'[q] = req[q]
    BY <1>2, <1>3 DEF Verify
<1>4. ASSUME NEW p \in Req, Progress(p) PROVE req'[q] = req[q]
    BY <1>2, <1>3, <1>4
    DEF Progress, Authenticate, Fetch, FetchFails, Install, LookUp, NotRouted, Refuse, Handle,
        Serve, WriteError
<1>5. ASSUME NEW p \in Req, NEW r \in Sends[p], Arrive(p, r) PROVE req'[q] = req[q]
    BY <1>5 DEF Arrive
<1> QED
    BY <1>1, <1>4, <1>5 DEF Next, vars, Publish, Withdraw, Refresh, Expire

\* Whoever is let in holds a token in order.
LEMMA LettingIn ==
    ASSUME GatewayInv, NEW q \in Req, Progress(q), caller'[q] \notin {caller[q], NoUser}
    PROVE  /\ Readable(req[q].cred) /\ req[q].cred.genuine /\ req[q].cred.exp
           /\ q \notin expired /\ req[q].cred.key \in published \cup withdrawn
<1> USE DEF GatewayInv
<1>1. \A status : ~ Answer(q, status)
    BY Answered
<1>2. Authenticate(q) \/ LookUp(q)
    BY <1>1
    DEF Progress, Install, Fetch, FetchFails, NotRouted, Refuse, Handle, Serve, WriteError
<1>3. Verify(q) /\ stage[q] \in {"arrived", "installed"}
    BY <1>1, <1>2 DEF Authenticate, LookUp
<1>4. Verifies(q)
    BY <1>1, <1>3 DEF Verify
<1>5. Readable(req[q].cred)
    BY <1>1, <1>2 DEF Authenticate, LookUp, RequestInPlace
<1> QED
    BY <1>3, <1>4, <1>5 DEF Verifies, RequestInPlace, Busy

\* A request acts for the holder of a token in order.
THEOREM ActsForHolderHolds == Spec => ActsForHolder
<1> DEFINE A == \A q \in Req :
          /\ caller'[q] \notin {caller[q], NoUser} =>
               /\ Readable(req[q].cred) /\ req[q].cred.genuine /\ req[q].cred.exp /\ q \notin expired
               /\ req[q].cred.key \in published \cup withdrawn
          /\ stage'[q] = "called" => caller'[q] = req[q].cred.subject /\ caller'[q] \in User
<1>1. GatewayInv /\ GatewayInv' /\ [Next]_vars => [A]_vars
  <2> SUFFICES ASSUME GatewayInv, GatewayInv', [Next]_vars, NEW q \in Req
               PROVE  /\ caller'[q] \notin {caller[q], NoUser} =>
                           /\ Readable(req[q].cred) /\ req[q].cred.genuine /\ req[q].cred.exp
                           /\ q \notin expired
                           /\ req[q].cred.key \in published \cup withdrawn
                      /\ stage'[q] = "called" =>
                           caller'[q] = req[q].cred.subject /\ caller'[q] \in User
      OBVIOUS
  <2>1. ASSUME caller'[q] \notin {caller[q], NoUser} PROVE Progress(q)
      BY <2>1, OwnSteps DEF Arrive
  <2>2. ASSUME stage'[q] = "called"
        PROVE  caller'[q] = req[q].cred.subject /\ caller'[q] \in User
    <3>1. caller'[q] = req'[q].cred.subject /\ caller'[q] \in User
        BY <2>2 DEF GatewayInv, RequestInPlace
    <3>2. req'[q] = req[q]
        BY <2>2, SameRequest
    <3> QED
        BY <3>1, <3>2
  <2> QED
      BY <2>1, <2>2, LettingIn
<1> QED
    BY <1>1, GatewayInvHolds, PTL DEF Spec, ActsForHolder

\* How a request comes to its answer.
LEMMA Answering ==
    ASSUME GatewayInv, [Next]_vars, NEW q \in Req, answer[q] = 0, answer'[q] # 0
    PROVE  \/ /\ stage[q] \in {"arrived", "installed"} /\ answer'[q] = 401
              /\ Readable(req[q].cred) /\ Verifies(q) =>
                   stage[q] = "installed" /\ req[q].cred.key \notin cached
           \/ stage[q] = "fetching" /\ answer'[q] = 401
           \/ stage[q] = "authorised" /\ answer'[q] \in {404, 405}
           \/ stage[q] = "authorised" /\ answer'[q] = 400 /\ ~ Passes(req[q].call)
           \/ stage[q] = "called" /\ answer'[q] # 401
<1> USE DEF GatewayInv
<1>1. Progress(q)
    BY OwnSteps DEF Arrive, TypeOK
<1>2. ASSUME NEW status, Answer(q, status) PROVE answer'[q] = status
    BY <1>2, Answered
<1>3. Verify(q) => ~ Verifies(q) /\ answer'[q] = 401
    BY <1>2 DEF Verify
<1>4. CASE Authenticate(q)
    BY <1>2, <1>3, <1>4 DEF Authenticate
<1>5. CASE LookUp(q)
    BY <1>2, <1>3, <1>5 DEF LookUp
<1>6. CASE FetchFails(q)
    BY <1>2, <1>6 DEF FetchFails
<1>7. CASE NotRouted(q) \/ Refuse(q)
    BY <1>2, <1>7, Statuses DEF NotRouted, Refuse, WriteError
<1>8. ~ Handle(q) /\ ~ Install(q)
    BY DEF Handle, Install
<1>9. CASE Serve(q)
  <2>1. \A op : Success(op) # 401
      BY DEF Success
  <2> QED
      BY <1>2, <1>9, <2>1, Statuses DEF Serve, WriteError
<1>10. ~ Fetch(q)
    BY DEF Fetch
<1> QED
    BY <1>1, <1>4, <1>5, <1>6, <1>7, <1>8, <1>9, <1>10 DEF Progress

\* A token in order is refused only if its key has been withdrawn, could not be
\* fetched or has been replaced meanwhile.
THEOREM FreshKeysWorkHolds == Spec => FreshKeysWork
<1> DEFINE A == \A q \in Req : answer[q] = 0 /\ answer'[q] = 401 =>
          \/ ~ Readable(req[q].cred) \/ ~ req[q].cred.genuine \/ ~ req[q].cred.exp
          \/ req[q].cred.subject = NoUser
          \/ q \in expired \/ req[q].cred.key \notin published
          \/ stage[q] = "fetching"
          \/ stage[q] = "installed" /\ req[q].cred.key \in response[q] \ cached
<1>1. GatewayInv /\ [Next]_vars => [A]_vars
  <2> SUFFICES ASSUME GatewayInv, [Next]_vars, NEW q \in Req, answer[q] = 0, answer'[q] = 401,
                      Readable(req[q].cred), Verifies(q), req[q].cred.key \in published,
                      stage[q] # "fetching",
                      ~ (stage[q] = "installed" /\ req[q].cred.key \in response[q] \ cached)
               PROVE  FALSE
      BY DEF Verifies
  <2>1. stage[q] = "installed" /\ req[q].cred.key \notin response[q]
      BY Answering
  <2>2. req[q].cred.key \in withdrawn
      BY <2>1 DEF GatewayInv, RequestInPlace, Verifies
  <2> QED
      BY <2>2 DEF GatewayInv, KeysInPlace
<1> QED
    BY <1>1, GatewayInvHolds, PTL DEF Spec, FreshKeysWork

\* A refused body broke a rule, or had a coordinate of zero.
THEOREM RefusedWithCauseHolds == Spec => RefusedWithCause
<1> DEFINE A == \A q \in Req : answer[q] = 0 /\ answer'[q] = 400 /\ stage[q] = "authorised" =>
          \/ req[q].call.op \in {"update", "deleteAddress"} /\ ~ req[q].call.id
          \/ req[q].call.op = "deleteToken" /\ req[q].call.token = 0
          \/ ~ WithinLimits(req[q].call)
          \/ req[q].call.op = "create" /\ \E b \in req[q].call.body : 0 \in b.lat \cup b.lng
<1>1. GatewayInv /\ [Next]_vars => [A]_vars
  <2> SUFFICES ASSUME GatewayInv, [Next]_vars, NEW q \in Req,
                      answer[q] = 0, answer'[q] = 400, stage[q] = "authorised"
               PROVE  \/ req[q].call.op \in {"update", "deleteAddress"} /\ ~ req[q].call.id
                      \/ req[q].call.op = "deleteToken" /\ req[q].call.token = 0
                      \/ ~ WithinLimits(req[q].call)
                      \/ /\ req[q].call.op = "create"
                         /\ \E b \in req[q].call.body : 0 \in b.lat \cup b.lng
      OBVIOUS
  <2>1. ~ Passes(req[q].call)
      BY Answering
  <2>2. req[q].call \in Call
      BY InProgress DEF GatewayInv, Busy
  <2> QED
      BY <2>1, <2>2, RefusalsHaveCauses
<1> QED
    BY <1>1, GatewayInvHolds, PTL DEF Spec, RefusedWithCause

=============================================================================
