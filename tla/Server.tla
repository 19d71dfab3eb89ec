-------------------------------- MODULE Server --------------------------------
(***************************************************************************)
(* The life of the process: main and run, mount and newDBPool of cmd/api,  *)
(* beside the requests it serves.                                          *)
(*                                                                         *)
(* Six clocks disagree: the time for reading a header                      *)
(* (SERVER_READ_TIMEOUT, or 5 s during Shutdown), a request's context      *)
(* (30 s), the deadline for writing its response (SERVER_WRITE_TIMEOUT,    *)
(* from the header on), the drain (SERVER_SHUTDOWN_TIMEOUT) and the ping   *)
(* of /health (3 s).  Time advances in ticks; Go acts on a clock that has  *)
(* run out before the next tick.  net/http is modelled from how run uses   *)
(* it.                                                                     *)
(***************************************************************************)
EXTENDS Config

CONSTANTS
    Req,              \* the requests of a behaviour
    Health,           \* those of them that are for /health
    RequestTimeout,   \* ticks, as the other timeouts
    HealthTimeout,
    Grace,            \* how long Shutdown waits for a new connection's header
    Timeouts,         \* what the three timeouts of ServerConfig may be set to
    NoSetting         \* what is left of the settings once they are loaded

ASSUME NoSettingAssumption == NoSetting \notin Setting
ASSUME HealthAssumption == Health \subseteq Req

\* validate looks at none of them and at no order between them.  0 is no deadline
\* for a read or a write.
ASSUME TimeoutAssumption ==
    /\ RequestTimeout \in Nat /\ HealthTimeout \in Nat /\ Grace \in Nat
    /\ Timeouts \subseteq [read : Nat, write : Nat, shutdown : Nat]

VARIABLES
    phase,      \* where main is
    setting,    \* what the process was started with, until it has been loaded
    timeout,    \* the timeouts it was started with
    signalled,  \* a signal has arrived
    listener,   \* the listening socket
    pool,       \* dbPool
    status,     \* what has become of every request
    waited,     \* how long the connection of each has been without its header
    age,        \* how long each request has run, or had when it ended
    effect,     \* its last statement: not sent, on the server, done
    drainAge    \* how long Shutdown has waited

proc == <<phase, setting, timeout, signalled, listener, pool, drainAge>>
requests == <<status, waited, age, effect>>
vars == <<proc, requests>>

Starting == {"loading", "connecting", "mounting", "starting"}

\* exited: main returns.  failed, gaveUp: os.Exit(1).  killed: by a signal.
Ended == {"exited", "failed", "gaveUp", "killed"}

Limit(r) == IF r \in Health THEN HealthTimeout ELSE RequestTimeout

\* unheard: the connection was closed before it said what it is for.
Status == {"none", "connected", "unheard", "running", "confirmed", "refused", "lost", "dropped"}

TypeOK ==
    /\ phase \in Starting \cup {"serving", "draining", "closing"} \cup Ended
    /\ setting \in {NoSetting} \cup Setting
    /\ signalled \in BOOLEAN
    /\ listener \in {"unopened", "open", "closed", "broken"}
    /\ pool \in {"none", "open", "closed"}
    /\ status \in [Req -> Status]
    /\ waited \in [Req -> Nat]
    /\ age \in [Req -> Nat]
    /\ effect \in [Req -> {"none", "sent", "done"}]
    /\ timeout \in Timeouts
    /\ drainAge \in 0..timeout.shutdown

Init ==
    /\ phase = "loading"
    /\ setting \in Setting
    /\ timeout \in Timeouts
    /\ signalled = FALSE
    /\ listener = "unopened"
    /\ pool = "none"
    /\ status = [r \in Req |-> "none"]
    /\ waited = [r \in Req |-> 0]
    /\ age = [r \in Req |-> 0]
    /\ effect = [r \in Req |-> "none"]
    /\ drainAge = 0

Connected == {r \in Req : status[r] = "connected"}
Running == {r \in Req : status[r] = "running"}
Open == Connected \cup Running

----------------------------------------------------------------------------
(* main and run.                                                           *)

\* What becomes of request r when the process ends.
Left(r) ==
    CASE r \in Running -> "dropped"
      [] r \in Connected -> "unheard"
      [] OTHER -> status[r]

\* The process ends: requests that are still running never get an answer.
End(how) ==
    /\ phase' = how
    /\ status' = [r \in Req |-> Left(r)]
    /\ UNCHANGED <<timeout, listener, waited, age, effect, drainAge>>

\* A setting that has been loaded is not asked for again.
LoadConfig ==
    /\ phase = "loading"
    /\ phase' = IF Accepted(setting) THEN "connecting" ELSE "failed"
    /\ setting' = NoSetting
    /\ UNCHANGED <<timeout, signalled, listener, pool, drainAge, requests>>

\* The pool is handed on only after a ping; otherwise it is closed again.
NewDBPool ==
    /\ phase = "connecting"
    /\ \/ phase' = "mounting" /\ pool' = "open"
       \/ phase' = "failed" /\ pool' \in {"none", "closed"}
    /\ UNCHANGED <<setting, timeout, signalled, listener, drainAge, requests>>

\* os.Exit does not run the deferred Close.
Mount ==
    /\ phase = "mounting"
    /\ phase' \in {"starting", "failed"}
    /\ UNCHANGED <<setting, timeout, signalled, listener, pool, drainAge, requests>>

\* The goroutine of ListenAndServe.  After Shutdown it gives up at once.
Listen ==
    /\ phase \in {"starting", "serving", "draining"}
    /\ listener = "unopened"
    /\ IF phase = "draining" THEN listener' = "closed" ELSE listener' \in {"open", "broken"}
    /\ UNCHANGED <<phase, setting, timeout, signalled, pool, drainAge, requests>>

ListenerBreaks ==
    /\ listener = "open"
    /\ phase \notin Ended
    /\ listener' = "broken"
    /\ UNCHANGED <<phase, setting, timeout, signalled, pool, drainAge, requests>>

\* signal.NotifyContext, while the listener may be open already.
InstallHandler ==
    /\ phase = "starting"
    /\ phase' = "serving"
    /\ UNCHANGED <<setting, timeout, signalled, listener, pool, drainAge, requests>>

\* Mutant: stop() right after the first signal, so that a second one kills.
HandledOnce == phase = "serving"

\* The handler stays until run returns.
Handled == phase \in {"serving", "draining"}

Signal ==
    /\ phase \notin Ended
    /\ signalled' = TRUE
    /\ IF Handled
         THEN UNCHANGED <<phase, timeout, listener, drainAge, requests>>
         ELSE End("killed")
    /\ UNCHANGED <<setting, pool>>

\* Mutant: run waits for its requests and leaves the listener open.
KeepListening == UNCHANGED listener

CloseListener == listener' = IF listener = "open" THEN "closed" ELSE listener

\* Mutant: the select waits for ctx.Done() instead of stopCtx.Done().
NeverNotified == FALSE

Notified == signalled

\* Either case of the select may be taken when both are ready.
BeginDrain ==
    /\ phase = "serving" /\ Notified
    /\ phase' = "draining"
    /\ CloseListener
    /\ drainAge' = 0
    /\ UNCHANGED <<setting, timeout, signalled, pool, requests>>

ServeFailed ==
    /\ phase = "serving" /\ listener = "broken"
    /\ End("failed")
    /\ UNCHANGED <<setting, signalled, pool>>

\* Mutant: Shutdown is called without waiting for the requests.
Anytime == TRUE

\* A connection keeps Shutdown waiting while it may still send its header.
Drained == Open = {}

DrainDone ==
    /\ phase = "draining"
    /\ Drained
    /\ phase' = "closing"
    /\ UNCHANGED <<setting, timeout, signalled, listener, pool, drainAge, requests>>

\* Mutant: shutdownCtx is derived from stopCtx, which is done already.
DrainOverAtOnce == TRUE

\* Mutant: shutdownCtx has no timeout.
DrainNeverOver == FALSE

\* context.WithTimeout(context.Background(), cfg.Server.ShutdownTimeout)
DrainOver == drainAge = timeout.shutdown

\* main exits without closing the pool.
GiveUp ==
    /\ phase = "draining"
    /\ DrainOver
    /\ End("gaveUp")
    /\ UNCHANGED <<setting, signalled, pool>>

\* The deferred Close, and main returns.
ClosePool ==
    /\ phase = "closing"
    /\ pool' = "closed"
    /\ End("exited")
    /\ UNCHANGED <<setting, signalled>>

Main ==
    \/ LoadConfig \/ NewDBPool \/ Mount \/ InstallHandler
    \/ BeginDrain \/ ServeFailed \/ DrainDone \/ GiveUp \/ ClosePool

----------------------------------------------------------------------------
(* Requests.                                                               *)

Connect(r) ==
    /\ listener = "open" /\ phase \notin Ended
    /\ status[r] = "none"
    /\ status' = [status EXCEPT ![r] = "connected"]
    /\ UNCHANGED <<proc, waited, age, effect>>

\* The header has been read, be it after the listener was closed.
Accept(r) ==
    /\ status[r] = "connected"
    /\ status' = [status EXCEPT ![r] = "running"]
    /\ UNCHANGED <<proc, waited, age, effect>>

\* The read deadline, and what Shutdown makes of a connection that is silent.
Silent(r) ==
    \/ 0 < timeout.read /\ waited[r] >= timeout.read
    \/ phase = "draining" /\ waited[r] >= Grace

\* The connection is closed; a client may do that whenever it likes.
HangUp(r) ==
    /\ status[r] = "connected"
    /\ status' = [status EXCEPT ![r] = "unheard"]
    /\ UNCHANGED <<proc, waited, age, effect>>

\* The statement that decides a request, or the ping of /health, is sent.
Send(r) ==
    /\ status[r] = "running"
    /\ effect[r] = "none"
    /\ effect' = [effect EXCEPT ![r] = "sent"]
    /\ UNCHANGED <<proc, status, waited, age>>

\* What is on the server may be done after the request, or the process, ended.
Apply(r) ==
    /\ effect[r] = "sent"
    /\ effect' = [effect EXCEPT ![r] = "done"]
    /\ UNCHANGED <<proc, status, waited, age>>

\* The response is written when the handler returns.  After the write deadline
\* nobody gets it, the 504 of middleware.Timeout least of all.
Response(r) ==
    IF 0 < timeout.write /\ age[r] >= timeout.write THEN "lost"
    ELSE IF effect[r] = "done" THEN "confirmed" ELSE "refused"

Finish(r) ==
    /\ status[r] = "running"
    /\ status' = [status EXCEPT ![r] = Response(r)]
    /\ UNCHANGED <<proc, waited, age, effect>>

\* Mutant: /health pings with the context of its request.
RequestOverdue(r) == age[r] >= RequestTimeout

\* The context of the request, or of the ping, is done: the handler returns.
Overdue(r) == age[r] >= Limit(r)

\* The bound on waiting: beyond both of its deadlines it makes no difference.
MoreWaiting(r) == waited[r] < Grace \/ waited[r] < timeout.read

Tick ==
    /\ Open # {}
    /\ \A r \in Running : ~ Overdue(r)
    /\ \A r \in Connected : ~ Silent(r)
    /\ phase = "draining" => ~ DrainOver
    /\ waited' = [r \in Req |-> IF r \in Connected /\ MoreWaiting(r) THEN waited[r] + 1 ELSE waited[r]]
    /\ age' = [r \in Req |-> IF r \in Running THEN age[r] + 1 ELSE age[r]]
    /\ drainAge' = IF phase = "draining" THEN drainAge + 1 ELSE drainAge
    /\ UNCHANGED <<phase, setting, timeout, signalled, listener, pool, status, effect>>

----------------------------------------------------------------------------
Next ==
    \/ Main
    \/ Listen \/ ListenerBreaks \/ Signal
    \/ \E r \in Req : \/ Connect(r) \/ HangUp(r) \/ Accept(r)
                     \/ Send(r) \/ Apply(r) \/ Finish(r)
    \/ Tick

Spec == Init /\ [][Next]_vars

(***************************************************************************)
(* main goes on when it can, time passes, a handler whose context is done  *)
(* returns and net/http closes a connection whose time is up.  Nothing is  *)
(* assumed of clients, signals or the database.                            *)
(***************************************************************************)
Fairness ==
    /\ WF_vars(Main)
    /\ WF_vars(Tick)
    /\ \A r \in Req : WF_vars(Overdue(r) /\ Finish(r)) /\ WF_vars(Silent(r) /\ HangUp(r))

FairSpec == Spec /\ Fairness

----------------------------------------------------------------------------
(* Properties, and the inductive invariant they follow from.               *)

\* The process waits only for connections it accepted before the drain began,
\* those whose header it has not read yet among them, and goes on when none of
\* them is left.
AcceptedBeforeDrain ==
    /\ phase = "draining" => \A r \in Open : waited[r] + age[r] >= drainAge
    /\ phase = "closing" => Open = {}

\* Shutdown "drains in-flight requests cleanly": not all of them, since a request
\* may run longer than the drain.  But what it gives up on came a whole drain
\* ago, and if a response has its deadline a header's time before the end of the
\* drain, as with the defaults, it had missed that and could not be answered.
CutsOffOnlyTheLost ==
    phase = "gaveUp" => \A r \in Req : status[r] = "dropped" =>
        /\ waited[r] + age[r] >= timeout.shutdown
        /\ timeout.write \in 1..(timeout.shutdown - Grace) => age[r] >= timeout.write

\* A process that ends cleanly has let every request end, and the pool stays open
\* for those that run: it is there before the first and closed after the last.
PoolOutlivesRequests ==
    /\ Running # {} => pool = "open"
    /\ phase = "exited" => pool = "closed" /\ \A r \in Req : status[r] # "dropped"

\* /health answers in time, whatever the database does, unless the deadline of
\* all responses is set to no more than its ping may take.
HealthIsTold == \A r \in Health : status[r] = "lost" => timeout.write \in 1..HealthTimeout

\* A signal cuts requests off only in the moment between the start of the
\* listener and the installation of the handler; a second signal does not end
\* the drain.
SignalsCutOnlyTheStart ==
    [][ phase' = "killed" /\ Running # {} => phase = "starting" ]_vars

\* A signal ends the process.
SignalEndsProcess == signalled ~> phase \in Ended

\* Where main can be, and what it has done by then.
PhasesInPlace ==
    /\ phase \in {"loading", "connecting"} => pool = "none"
    /\ phase \in {"mounting", "starting", "serving", "draining", "closing"} => pool = "open"
    /\ phase \in {"loading", "connecting", "mounting"} => listener = "unopened"
    /\ listener = "open" => phase \in {"starting", "serving"} \cup Ended
    /\ phase \in {"draining", "closing"} => listener # "open"
    /\ Open # {} => phase \in {"starting", "serving", "draining"}
    /\ phase \notin Ended => \A r \in Req : status[r] # "dropped"
    /\ \A r \in Req : /\ age[r] <= Limit(r)
                      /\ status[r] \in {"none", "connected"} => age[r] = 0

\* Whatever is read during the drain is read in the time a header has.
HeadersInTime ==
    phase = "draining" => /\ \A r \in Connected : drainAge <= Grace
                          /\ \A r \in Running : age[r] + Grace >= drainAge

ServerInv ==
    /\ TypeOK /\ PhasesInPlace /\ HeadersInTime
    /\ AcceptedBeforeDrain /\ CutsOffOnlyTheLost /\ PoolOutlivesRequests /\ HealthIsTold

=============================================================================
