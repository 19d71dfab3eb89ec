------------------------------- MODULE Requests -------------------------------
(***************************************************************************)
(* What a request to /api/v1/users may ask, and what the handlers refuse   *)
(* before they call the service: common/httpx/request.go, and the request  *)
(* types and rules of internal/users/types.go.                             *)
(*                                                                         *)
(* A text is the number of its characters, a coordinate a whole number of  *)
(* degrees.  A field of a body is the set of its values, empty when it is  *)
(* left out or null.  So is the body: empty when there is none, or none of *)
(* its type.  A body that is null decodes like one without fields.         *)
(***************************************************************************)
EXTENDS Integers

Opt(S) == {v \in SUBSET S : \A x, y \in v : x = y}

CreateBody == [label : Opt(Nat), address : Opt(Nat), deliveryNote : Opt(Nat),
               lat : Opt(Int), lng : Opt(Int), isDefault : Opt(BOOLEAN)]
UpdateBody == CreateBody
ProfileBody == [firstName : Opt(Nat), lastName : Opt(Nat),
                profileImageURL : Opt({"url", "other"}), birthDate : Opt({"date", "other"})]
TokenBody == [token : Opt(Nat), platform : Opt({"ios", "android", "web", "other", ""})]

\* The routes of a user.  Elsewhere the router answers.
Bare == {"me", "listAddresses", "listTokens", "unrouted", "wrongMethod"}

Call ==
    [op : Bare]
    \cup [op : {"create"}, body : Opt(CreateBody)]
    \cup [op : {"update"}, id : BOOLEAN, body : Opt(UpdateBody)]   \* id: it is a uuid
    \cup [op : {"deleteAddress"}, id : BOOLEAN]
    \cup [op : {"profile"}, body : Opt(ProfileBody)]
    \cup [op : {"register"}, body : Opt(TokenBody)]
    \cup [op : {"deleteToken"}, token : Nat]

----------------------------------------------------------------------------
(* The rules of the request types.                                         *)

\* A field that is no pointer keeps its zero value when it is left out.
Plain(field, zero) == IF field = {} THEN zero ELSE CHOOSE v \in field : TRUE

ValidCreate(b) ==
    LET label == Plain(b.label, 0)
        address == Plain(b.address, 0)
        lat == Plain(b.lat, 0)
        lng == Plain(b.lng, 0)
    IN  /\ label >= 1 /\ label <= 100
        /\ address >= 1 /\ address <= 500
        /\ lat # 0 /\ -90 <= lat /\ lat <= 90
        /\ lng # 0 /\ -180 <= lng /\ lng <= 180
        /\ \A n \in b.deliveryNote : n <= 500

\* Mutant: the coordinates of an update are no pointers, and required.
ZeroIsMissing(b) ==
    /\ \A l \in b.label : l >= 1 /\ l <= 100
    /\ \A a \in b.address : a >= 1 /\ a <= 500
    /\ \A d \in b.lat : d # 0 /\ -90 <= d /\ d <= 90
    /\ \A d \in b.lng : d # 0 /\ -180 <= d /\ d <= 180
    /\ \A n \in b.deliveryNote : n <= 500
    /\ \A d \in b.isDefault : d

\* omitempty of a pointer: only what is sent has to be valid.
ValidUpdate(b) ==
    /\ \A l \in b.label : l >= 1 /\ l <= 100
    /\ \A a \in b.address : a >= 1 /\ a <= 500
    /\ \A d \in b.lat : -90 <= d /\ d <= 90
    /\ \A d \in b.lng : -180 <= d /\ d <= 180
    /\ \A n \in b.deliveryNote : n <= 500
    /\ \A d \in b.isDefault : d   \* eq=true

ValidProfile(b) ==
    /\ \A n \in b.firstName \cup b.lastName : n >= 1 /\ n <= 100
    /\ \A u \in b.profileImageURL : u = "url"
    /\ \A d \in b.birthDate : d = "date"

\* Mutant: platform is only required.
AnyPlatform(b) == Plain(b.token, 0) >= 10 /\ Plain(b.platform, "") # ""

ValidToken(b) == Plain(b.token, 0) >= 10 /\ Plain(b.platform, "") \in {"ios", "android", "web"}

----------------------------------------------------------------------------
(* What the handlers do with a request before the service sees it.         *)

DecodeAndValidate(c) ==
    /\ c.body # {}
    /\ \A b \in c.body :
         /\ c.op = "create" => ValidCreate(b)
         /\ c.op = "update" => ValidUpdate(b)
         /\ c.op = "profile" => ValidProfile(b)
         /\ c.op = "register" => ValidToken(b)

Passes(c) ==
    /\ c.op \in {"update", "deleteAddress"} => c.id
    /\ c.op = "deleteToken" => c.token # 0
    /\ c.op \in {"create", "update", "profile", "register"} => DecodeAndValidate(c)

----------------------------------------------------------------------------
(* What the tags say, read as a client reads them: which fields must be    *)
(* sent, and what each may hold.                                           *)

Limits ==
    [create |->
       [required |-> {"label", "address", "lat", "lng"},
        ranges |-> [label |-> 1..100, address |-> 1..500, deliveryNote |-> 0..500,
                    lat |-> -90..90, lng |-> -180..180]],
     update |->
       [required |-> {},
        ranges |-> [label |-> 1..100, address |-> 1..500, deliveryNote |-> 0..500,
                    lat |-> -90..90, lng |-> -180..180, isDefault |-> {TRUE}]],
     profile |->
       [required |-> {},
        ranges |-> [firstName |-> 1..100, lastName |-> 1..100,
                    profileImageURL |-> {"url"}, birthDate |-> {"date"}]],
     register |->
       [required |-> {"token", "platform"},
        ranges |-> [token |-> Nat \ 0..9, platform |-> {"ios", "android", "web"}]]]

\* The body of c is one that the tags describe.
WithinLimits(c) ==
    c.op \in DOMAIN Limits =>
        /\ c.body # {}
        /\ \A b \in c.body :
             /\ \A f \in Limits[c.op].required : b[f] # {}
             /\ \A f \in DOMAIN Limits[c.op].ranges : b[f] \subseteq Limits[c.op].ranges[f]

\* What the tables, and the repository before them, take for granted: a point on
\* the globe, a value of device_platform, a date, and no request to make a
\* default address an ordinary one.
FitsTables(c) ==
    /\ c.op \in {"create", "update"} =>
         \A b \in c.body : b.lat \subseteq -90..90 /\ b.lng \subseteq -180..180
    /\ c.op = "create" => \A b \in c.body : {} \notin {b.label, b.address, b.lat, b.lng}
    /\ c.op = "update" => \A b \in c.body : FALSE \notin b.isDefault
    /\ c.op = "profile" => \A b \in c.body : b.birthDate \subseteq {"date"}
    /\ c.op = "register" => \A b \in c.body : b.platform \subseteq {"ios", "android", "web"}

=============================================================================
