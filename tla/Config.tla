-------------------------------- MODULE Config --------------------------------
(***************************************************************************)
(* Load and validate of internal/config/config.go: which settings the      *)
(* process starts with, and which it refuses.                              *)
(***************************************************************************)
EXTENDS Integers

\* What APP_ENV may be set to; "" is unset.
RawEnv == {"", "development", "staging", "production", " PRODUCTION ", "prod"}

\* strings.ToLower(strings.TrimSpace(raw))
Normal(raw) == IF raw = " PRODUCTION " THEN "production" ELSE raw

\* What the process finds: APP_ENV of the environment and of the .env file, and
\* what the two make of the other variables (a .env file overrides).
Setting == [osEnv : RawEnv,
            file : BOOLEAN,       \* there is a .env file
            fileEnv : RawEnv,
            complete : BOOLEAN,   \* every required variable is set
            port : {0, 1, 65535, 65536},
            url : {"https", "http", "malformed"},
            origins : SUBSET {"any", "app"}]   \* "any" is "*"

\* Deployed processes never look at a .env file.  Elsewhere it overrides the
\* environment.
ReadsFile(s) == Normal(s.osEnv) \notin {"production", "staging"} /\ s.file

LoadedEnv(s) ==
    LET raw == IF ReadsFile(s) /\ s.fileEnv # "" THEN s.fileEnv ELSE s.osEnv
    IN  IF raw = "" THEN "development" ELSE raw

\* The c.Env that IsProduction compares.
Mode(s) == Normal(LoadedEnv(s))

ValidPort == 1..65535

Valid(s) ==
    /\ Normal(LoadedEnv(s)) \in {"development", "staging", "production"}
    /\ s.port \in ValidPort
    /\ s.url # "malformed"
    /\ Mode(s) = "production" => s.url = "https" /\ "any" \notin s.origins /\ s.origins # {}

Accepted(s) == s.complete /\ Valid(s)

=============================================================================
