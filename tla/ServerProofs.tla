----------------------------- MODULE ServerProofs -----------------------------
(***************************************************************************)
(* What holds of Server for every number of requests and whatever the      *)
(* timeouts are set to.                                                    *)
(***************************************************************************)
EXTENDS Server, TLAPS

----------------------------------------------------------------------------
(* Helpers.                                                                *)

\* A limit is a number of ticks, and /health has the shorter one.
LEMMA Limits ==
    ASSUME NEW r \in Req
    PROVE  /\ Limit(r) \in Nat
           /\ r \in Health => Limit(r) = HealthTimeout
BY TimeoutAssumption DEF Limit

\* The timeouts of a process are numbers of ticks.
LEMMA TimeoutsAreTicks ==
    ASSUME TypeOK
    PROVE  timeout.read \in Nat /\ timeout.write \in Nat /\ timeout.shutdown \in Nat
BY TimeoutAssumption DEF TypeOK

\* What End makes of the connections.
LEMMA EndDrops ==
    ASSUME TypeOK, NEW how, End(how)
    PROVE  /\ Running' = {} /\ Open' = {}
           /\ status' \in [Req -> Status]
           /\ \A r \in Req : /\ r \in Running => status'[r] = "dropped"
                             /\ r \notin Running => status'[r] \in {status[r], "unheard"}
<1>1. \A r \in Req : Left(r) \in Status \ {"running", "connected"}
    BY DEF TypeOK, Left, Running, Connected, Status
<1>2. \A r \in Req : /\ r \in Running => Left(r) = "dropped"
                     /\ r \notin Running => Left(r) \in {status[r], "unheard"}
    BY DEF Left, Running, Connected
<1> QED
    BY <1>1, <1>2 DEF End, Running, Connected, Open

\* A step of request r.
RequestStepOf(r) ==
    Connect(r) \/ HangUp(r) \/ Accept(r) \/ Send(r) \/ Apply(r) \/ Finish(r)

\* The steps of a process, by the part of it that takes them.
LEMMA StepKinds ==
    ASSUME [Next]_vars
    PROVE  \/ UNCHANGED vars
           \/ Main
           \/ Listen \/ ListenerBreaks \/ Signal
           \/ \E r \in Req : RequestStepOf(r)
           \/ Tick
BY DEF Next, RequestStepOf

----------------------------------------------------------------------------
(* The invariant.                                                          *)

\* The invariant holds when the process starts.
LEMMA ServerInvInit == Init => ServerInv
<1> SUFFICES ASSUME Init PROVE ServerInv
    OBVIOUS
<1>1. TypeOK
  <2>1. timeout \in Timeouts /\ drainAge \in 0..timeout.shutdown
      BY TimeoutAssumption DEF Init
  <2>2. setting \in {NoSetting} \cup Setting
      BY DEF Init
  <2> QED
      BY <2>1, <2>2 DEF Init, TypeOK, Starting, Status
<1>2. Running = {} /\ Open = {}
    BY DEF Init, Running, Connected, Open
<1>3. PhasesInPlace /\ HeadersInTime
    BY <1>2, Limits DEF Init, PhasesInPlace, HeadersInTime, Ended
<1>4. AcceptedBeforeDrain /\ CutsOffOnlyTheLost /\ PoolOutlivesRequests /\ HealthIsTold
    BY <1>2, HealthAssumption
    DEF Init, AcceptedBeforeDrain, CutsOffOnlyTheLost, PoolOutlivesRequests, HealthIsTold
<1> QED
    BY <1>1, <1>3, <1>4 DEF ServerInv

\* The steps of main and of the listener that end nothing.
LEMMA GoingOnStep ==
    ASSUME ServerInv,
           \/ LoadConfig \/ NewDBPool \/ Mount \/ InstallHandler \/ BeginDrain \/ DrainDone
           \/ Listen \/ ListenerBreaks
    PROVE  ServerInv'
<1> USE DEF ServerInv, requests, Running, Connected, Open
<1>1. TypeOK'
    BY TimeoutsAreTicks
    DEF TypeOK, Starting, Ended, LoadConfig, NewDBPool, Mount, InstallHandler, BeginDrain,
        CloseListener, DrainDone, Listen, ListenerBreaks
<1>2. UNCHANGED <<timeout, status, waited, age>>
    BY DEF LoadConfig, NewDBPool, Mount, InstallHandler, BeginDrain, DrainDone, Listen,
           ListenerBreaks
<1>3. /\ \A r \in Req : /\ age'[r] <= Limit(r)
                        /\ status'[r] \in {"none", "connected"} => age'[r] = 0
      /\ phase' \notin Ended => \A r \in Req : status'[r] # "dropped"
    BY <1>2
    DEF PhasesInPlace, Ended, LoadConfig, NewDBPool, Mount, InstallHandler, BeginDrain,
        DrainDone, Listen, ListenerBreaks
<1>4. HealthIsTold'
    BY <1>2 DEF HealthIsTold
<1>5. CASE LoadConfig \/ NewDBPool \/ Mount
    BY <1>1, <1>2, <1>3, <1>4, <1>5
    DEF LoadConfig, NewDBPool, Mount, PhasesInPlace, HeadersInTime, AcceptedBeforeDrain,
        CutsOffOnlyTheLost, PoolOutlivesRequests, Ended
<1>6. CASE InstallHandler \/ Listen \/ ListenerBreaks
    BY <1>1, <1>2, <1>3, <1>4, <1>6
    DEF InstallHandler, Listen, ListenerBreaks, PhasesInPlace, HeadersInTime,
        AcceptedBeforeDrain, CutsOffOnlyTheLost, PoolOutlivesRequests, Ended
<1>7. CASE BeginDrain
  <2>1. \A r \in Req : /\ waited'[r] + age'[r] >= drainAge'
                       /\ age'[r] + Grace >= drainAge'
                       /\ drainAge' <= Grace
      BY <1>2, <1>7, TimeoutAssumption DEF TypeOK, BeginDrain
  <2> QED
      BY <1>1, <1>2, <1>3, <1>4, <1>7, <2>1
      DEF BeginDrain, CloseListener, PhasesInPlace, HeadersInTime, AcceptedBeforeDrain,
          CutsOffOnlyTheLost, PoolOutlivesRequests, Ended
<1>8. CASE DrainDone
    BY <1>1, <1>2, <1>3, <1>4, <1>8
    DEF DrainDone, Drained, PhasesInPlace, HeadersInTime, AcceptedBeforeDrain,
        CutsOffOnlyTheLost, PoolOutlivesRequests, Ended
<1> QED
    BY <1>5, <1>6, <1>7, <1>8

\* What any end leaves in place.
LEMMA EndStep ==
    ASSUME ServerInv, NEW how \in Ended, End(how), UNCHANGED setting,
           signalled' \in BOOLEAN, pool' \in {"none", "open", "closed"}
    PROVE  TypeOK' /\ PhasesInPlace' /\ HeadersInTime' /\ AcceptedBeforeDrain' /\ HealthIsTold'
<1> USE DEF ServerInv
<1>1. TypeOK'
    BY EndDrops DEF TypeOK, End
<1>2. PhasesInPlace'
    BY EndDrops DEF PhasesInPlace, End, Ended
<1>3. AcceptedBeforeDrain' /\ HeadersInTime'
    BY DEF AcceptedBeforeDrain, HeadersInTime, End, Ended
<1>4. HealthIsTold'
  <2>1. ASSUME NEW r \in Health, status'[r] = "lost"
        PROVE  timeout'.write \in 1..HealthTimeout
    <3>1. status[r] = "lost"
        BY <2>1, EndDrops, HealthAssumption
    <3> QED
        BY <3>1 DEF HealthIsTold, End
  <2> QED
      BY <2>1 DEF HealthIsTold
<1> QED
    BY <1>1, <1>2, <1>3, <1>4

\* What a process gives up on came a drain ago, its header in time.
LEMMA GiveUpStep ==
    ASSUME ServerInv, GiveUp
    PROVE  CutsOffOnlyTheLost'
<1> USE DEF ServerInv
<1>1. End("gaveUp")
    BY DEF GiveUp
<1>2. ASSUME NEW r \in Req, status'[r] = "dropped"
      PROVE  /\ waited'[r] + age'[r] >= timeout'.shutdown
             /\ timeout'.write \in 1..(timeout'.shutdown - Grace) => age'[r] >= timeout'.write
  <2>1. r \in Running /\ r \in Open
      BY <1>1, <1>2, EndDrops DEF PhasesInPlace, GiveUp, Ended, Open
  <2>2. /\ waited[r] + age[r] >= drainAge /\ age[r] + Grace >= drainAge
        /\ drainAge = timeout.shutdown
      BY <2>1 DEF GiveUp, DrainOver, AcceptedBeforeDrain, HeadersInTime
  <2>3. UNCHANGED <<timeout, waited, age>>
      BY <1>1 DEF End
  <2> QED
      BY <2>2, <2>3, TimeoutAssumption, TimeoutsAreTicks DEF TypeOK
<1> QED
    BY <1>2 DEF CutsOffOnlyTheLost

\* The steps that end the process.
LEMMA EndingStep ==
    ASSUME ServerInv, ServeFailed \/ GiveUp \/ ClosePool \/ Signal
    PROVE  ServerInv'
<1> USE DEF ServerInv
<1>1. CASE ServeFailed
  <2>1. End("failed") /\ UNCHANGED <<setting, signalled, pool>>
      BY <1>1 DEF ServeFailed
  <2>2. TypeOK' /\ PhasesInPlace' /\ HeadersInTime' /\ AcceptedBeforeDrain' /\ HealthIsTold'
      BY <2>1, EndStep DEF Ended, TypeOK
  <2> QED
      BY <2>1, <2>2, EndDrops DEF End, CutsOffOnlyTheLost, PoolOutlivesRequests
<1>2. CASE GiveUp
  <2>1. End("gaveUp") /\ UNCHANGED <<setting, signalled, pool>>
      BY <1>2 DEF GiveUp
  <2>2. TypeOK' /\ PhasesInPlace' /\ HeadersInTime' /\ AcceptedBeforeDrain' /\ HealthIsTold'
      BY <2>1, EndStep DEF Ended, TypeOK
  <2> QED
      BY <1>2, <2>1, <2>2, EndDrops, GiveUpStep DEF End, PoolOutlivesRequests
<1>3. CASE ClosePool
  <2>1. End("exited") /\ UNCHANGED <<setting, signalled>> /\ pool' = "closed"
      BY <1>3 DEF ClosePool
  <2>2. TypeOK' /\ PhasesInPlace' /\ HeadersInTime' /\ AcceptedBeforeDrain' /\ HealthIsTold'
      BY <2>1, EndStep DEF Ended, TypeOK
  <2>3. Running = {}
      BY <1>3 DEF ClosePool, AcceptedBeforeDrain, Open
  <2>4. \A r \in Req : status'[r] # "dropped"
      BY <1>3, <2>1, <2>3, EndDrops DEF ClosePool, PhasesInPlace, Ended
  <2> QED
      BY <2>1, <2>2, <2>4, EndDrops DEF End, CutsOffOnlyTheLost, PoolOutlivesRequests
<1>4. CASE Signal
  <2>1. CASE Handled
      BY <1>4, <2>1
      DEF Signal, requests, Running, Connected, Open, TypeOK, PhasesInPlace, HeadersInTime,
          AcceptedBeforeDrain, CutsOffOnlyTheLost, PoolOutlivesRequests, HealthIsTold
  <2>2. CASE ~ Handled
    <3>1. End("killed") /\ UNCHANGED <<setting, pool>> /\ signalled' = TRUE
        BY <1>4, <2>2 DEF Signal
    <3>2. TypeOK' /\ PhasesInPlace' /\ HeadersInTime' /\ AcceptedBeforeDrain' /\ HealthIsTold'
        BY <3>1, EndStep DEF Ended, TypeOK
    <3> QED
        BY <3>1, <3>2, EndDrops DEF End, CutsOffOnlyTheLost, PoolOutlivesRequests
  <2> QED
      BY <2>1, <2>2
<1> QED
    BY <1>1, <1>2, <1>3, <1>4

\* The steps of one request.
LEMMA RequestStep ==
    ASSUME ServerInv, NEW r \in Req, RequestStepOf(r)
    PROVE  ServerInv'
<1> USE DEF ServerInv, proc
<1>1. /\ UNCHANGED <<proc, waited, age>>
      /\ \A s \in Req \ {r} : status'[s] = status[s]
      /\ effect' \in [Req -> {"none", "sent", "done"}]
      /\ DOMAIN status' = Req /\ status' = [s \in Req |-> status'[s]]
    BY DEF RequestStepOf, Connect, HangUp, Accept, Send, Apply, Finish, TypeOK
<1>2. ASSUME status'[r] \in Status \ {"dropped"},
             status'[r] \in {"connected", "running"} =>
                \/ r \in Open
                \/ phase \in {"starting", "serving"} /\ status'[r] = "connected",
             status'[r] = "connected" =>
                \/ r \in Connected
                \/ phase \in {"starting", "serving"},
             status'[r] = "running" => r \in Open,
             status'[r] \in {"none", "connected"} => status[r] \in {"none", "connected"},
             status'[r] = "lost" /\ r \in Health => timeout.write \in 1..HealthTimeout
      PROVE  ServerInv'
  <2>1. TypeOK'
      BY <1>1, <1>2 DEF TypeOK
  <2>2. /\ Open' \subseteq Open \/ phase \in {"starting", "serving"}
        /\ Running' \subseteq Open
        /\ Connected' \subseteq Connected \/ phase \in {"starting", "serving"}
      BY <1>1, <1>2 DEF Running, Connected, Open
  <2>3. \A s \in Req : status'[s] = "dropped" => status[s] = "dropped"
      BY <1>1, <1>2
  <2>4. phase \in {"starting", "serving"} => pool = "open"
      BY DEF PhasesInPlace
  <2>5. PhasesInPlace'
    <3>1. \A s \in Req : /\ age'[s] <= Limit(s)
                        /\ status'[s] \in {"none", "connected"} => age'[s] = 0
        BY <1>1, <1>2 DEF PhasesInPlace
    <3> QED
        BY <1>1, <2>2, <2>3, <3>1 DEF PhasesInPlace
  <2>6. AcceptedBeforeDrain' /\ CutsOffOnlyTheLost'
      BY <1>1, <2>2, <2>3 DEF AcceptedBeforeDrain, CutsOffOnlyTheLost
  <2>7. PoolOutlivesRequests'
      BY <1>1, <2>2, <2>3, <2>4 DEF PoolOutlivesRequests, PhasesInPlace, Running, Open
  <2>8. HeadersInTime'
    <3>1. ASSUME phase = "draining", NEW s \in Running'
          PROVE  age[s] + Grace >= drainAge
      <4>1. s \in Open
          BY <2>2, <3>1
      <4>2. CASE s \in Running
          BY <3>1, <4>2 DEF HeadersInTime
      <4>3. CASE s \in Connected
          BY <3>1, <4>3, TimeoutAssumption DEF HeadersInTime, TypeOK, Connected
      <4> QED
          BY <4>1, <4>2, <4>3 DEF Open
    <3> QED
        BY <1>1, <2>2, <3>1 DEF HeadersInTime
  <2>9. HealthIsTold'
      BY <1>1, <1>2, HealthAssumption DEF HealthIsTold
  <2> QED
      BY <2>1, <2>5, <2>6, <2>7, <2>8, <2>9
<1>3. CASE Connect(r)
  <2>1. /\ status'[r] = "connected" /\ status[r] = "none"
        /\ phase \in {"starting", "serving"}
      BY <1>3 DEF Connect, TypeOK, PhasesInPlace, Ended
  <2> QED
      BY <1>2, <2>1 DEF Status
<1>4. CASE HangUp(r)
  <2>1. status'[r] = "unheard"
      BY <1>4 DEF HangUp, TypeOK
  <2> QED
      BY <1>2, <2>1 DEF Status
<1>5. CASE Accept(r)
  <2>1. status'[r] = "running" /\ r \in Open
      BY <1>5 DEF Accept, TypeOK, Open, Connected
  <2> QED
      BY <1>2, <2>1 DEF Status
<1>6. CASE Send(r) \/ Apply(r)
  <2>1. status'[r] = status[r] /\ (status[r] = "dropped" => phase \in Ended)
      BY <1>6 DEF Send, Apply, PhasesInPlace
  <2>2. UNCHANGED <<proc, status, waited, age>>
      BY <1>6 DEF Send, Apply
  <2> QED
      BY <1>1, <2>2
      DEF TypeOK, Running, Connected, Open, PhasesInPlace, HeadersInTime, AcceptedBeforeDrain,
          CutsOffOnlyTheLost, PoolOutlivesRequests, HealthIsTold
<1>7. CASE Finish(r)
  <2>1. status'[r] = Response(r)
      BY <1>7 DEF Finish, TypeOK
  <2>2. Response(r) \in {"confirmed", "refused", "lost"}
      BY DEF Response
  <2>3. Response(r) = "lost" => 0 < timeout.write /\ age[r] >= timeout.write
      BY DEF Response
  <2>4. r \in Health => age[r] <= HealthTimeout
      BY Limits DEF PhasesInPlace
  <2>5. Response(r) = "lost" /\ r \in Health => timeout.write \in 1..HealthTimeout
      BY <2>3, <2>4, TimeoutsAreTicks, TimeoutAssumption DEF TypeOK
  <2> QED
      BY <1>2, <2>1, <2>2, <2>5 DEF Status
<1> QED
    BY <1>3, <1>4, <1>5, <1>6, <1>7 DEF RequestStepOf

\* A tick ages the connections, the requests that run and the drain alike.
LEMMA TickStep ==
    ASSUME ServerInv, Tick
    PROVE  ServerInv'
<1> USE DEF ServerInv
<1>1. UNCHANGED <<phase, setting, timeout, signalled, listener, pool, status, effect>>
    BY DEF Tick
<1>2. Running' = Running /\ Connected' = Connected /\ Open' = Open
    BY <1>1 DEF Running, Connected, Open
<1>3. \A r \in Req : age'[r] = IF r \in Running THEN age[r] + 1 ELSE age[r]
    BY DEF Tick
<1>4. \A r \in Req : /\ age'[r] \in Nat /\ age'[r] <= Limit(r)
                     /\ status'[r] \in {"none", "connected"} => age'[r] = 0
    BY <1>1, <1>3, Limits DEF Tick, Overdue, TypeOK, PhasesInPlace, Running
<1>5. \A r \in Req : waited'[r] \in Nat /\ waited'[r] >= waited[r]
    BY DEF Tick, TypeOK
<1>6. drainAge' \in 0..timeout.shutdown
    BY TimeoutsAreTicks DEF Tick, DrainOver, TypeOK
<1>7. TypeOK'
    BY <1>1, <1>4, <1>5, <1>6 DEF TypeOK, Tick
<1>8. phase \notin Ended
    BY DEF Tick, PhasesInPlace, Ended
<1>9. ASSUME phase = "draining", NEW r \in Connected
      PROVE  waited'[r] = waited[r] + 1 /\ waited[r] < Grace
    BY <1>9, TimeoutAssumption DEF Tick, Silent, MoreWaiting, TypeOK, Connected
<1>10. AcceptedBeforeDrain'
  <2>1. ASSUME phase = "draining", NEW r \in Open PROVE waited'[r] + age'[r] >= drainAge'
    <3>1. waited[r] + age[r] >= drainAge /\ drainAge' = drainAge + 1
        BY <2>1 DEF AcceptedBeforeDrain, Tick
    <3>2. CASE r \in Running
        BY <1>3, <1>5, <3>1, <3>2 DEF TypeOK, Running
    <3>3. CASE r \in Connected
        BY <1>3, <1>4, <1>9, <2>1, <3>1, <3>3 DEF TypeOK, Running, Connected
    <3> QED
        BY <2>1, <3>2, <3>3 DEF Open
  <2> QED
      BY <1>1, <1>2, <2>1 DEF AcceptedBeforeDrain
<1>11. HeadersInTime'
  <2>1. ASSUME phase = "draining", NEW r \in Connected PROVE drainAge' <= Grace
    <3>1. waited[r] + age[r] >= drainAge /\ drainAge <= Grace /\ drainAge' = drainAge + 1
        BY <2>1 DEF AcceptedBeforeDrain, HeadersInTime, Tick, Open
    <3>2. age[r] = 0
        BY <2>1 DEF PhasesInPlace, Connected
    <3> QED
        BY <1>9, <2>1, <3>1, <3>2, TimeoutAssumption DEF TypeOK, Connected
  <2>2. ASSUME phase = "draining", NEW r \in Running PROVE age'[r] + Grace >= drainAge'
    <3>1. age[r] + Grace >= drainAge /\ drainAge' = drainAge + 1
        BY <2>2 DEF HeadersInTime, Tick
    <3> QED
        BY <1>3, <2>2, <3>1, TimeoutAssumption DEF TypeOK, Running
  <2> QED
      BY <1>1, <1>2, <2>1, <2>2 DEF HeadersInTime
<1>12. PhasesInPlace'
    BY <1>1, <1>2, <1>4 DEF PhasesInPlace
<1> QED
    BY <1>1, <1>2, <1>7, <1>8, <1>10, <1>11, <1>12
    DEF CutsOffOnlyTheLost, PoolOutlivesRequests, HealthIsTold, Ended

\* Every step keeps the invariant.
LEMMA ServerInvStep == ServerInv /\ [Next]_vars => ServerInv'
<1> SUFFICES ASSUME ServerInv, [Next]_vars PROVE ServerInv'
    OBVIOUS
<1>1. CASE UNCHANGED vars
    BY <1>1
    DEF vars, proc, requests, ServerInv, TypeOK, PhasesInPlace, HeadersInTime, Running,
        Connected, Open, AcceptedBeforeDrain, CutsOffOnlyTheLost, PoolOutlivesRequests, HealthIsTold
<1>2. CASE Main
    BY <1>2, GoingOnStep, EndingStep DEF Main
<1>3. CASE Listen \/ ListenerBreaks \/ Signal
    BY <1>3, GoingOnStep, EndingStep
<1>4. CASE \E r \in Req : RequestStepOf(r)
    BY <1>4, RequestStep
<1>5. CASE Tick
    BY <1>5, TickStep
<1> QED
    BY <1>1, <1>2, <1>3, <1>4, <1>5, StepKinds

\* The invariant holds of every behaviour.
THEOREM ServerInvHolds == Spec => []ServerInv
BY ServerInvInit, ServerInvStep, PTL DEF Spec

----------------------------------------------------------------------------
(* What follows.                                                           *)

\* Every variable keeps its type.
THEOREM TypeCorrect == Spec => []TypeOK
BY ServerInvHolds, PTL DEF ServerInv

\* Shutdown waits only for connections accepted before it was called, and for all
\* of them.
THEOREM WaitsForTheAccepted == Spec => []AcceptedBeforeDrain
BY ServerInvHolds, PTL DEF ServerInv

\* What run gives up on came a whole drain ago, and could not be answered any more
\* where a response has its deadline a header's time before the end of the drain.
THEOREM CutsOffTheLost == Spec => []CutsOffOnlyTheLost
BY ServerInvHolds, PTL DEF ServerInv

\* dbPool.Close runs after the last request.
THEOREM PoolOutlives == Spec => []PoolOutlivesRequests
BY ServerInvHolds, PTL DEF ServerInv

\* /health answers before its write deadline, where that is longer than its ping.
THEOREM HealthTold == Spec => []HealthIsTold
BY ServerInvHolds, PTL DEF ServerInv

\* A signal cuts requests off only before NotifyContext has been called.
THEOREM SignalsCutTheStart == Spec => SignalsCutOnlyTheStart
<1> DEFINE A == phase' = "killed" /\ Running # {} => phase = "starting"
<1>1. ServerInv /\ [Next]_vars => [A]_vars
  <2> SUFFICES ASSUME ServerInv, Next, phase' = "killed", Running # {}
               PROVE  phase = "starting"
      BY DEF vars
  <2>1. phase \in {"starting", "serving", "draining"}
      BY DEF ServerInv, PhasesInPlace, Open
  <2>2. Signal
      BY <2>1
      DEF Next, Main, LoadConfig, NewDBPool, Mount, InstallHandler, BeginDrain, ServeFailed,
          DrainDone, GiveUp, ClosePool, End, Listen, ListenerBreaks, Connect, HangUp, Accept,
          Send, Apply, Finish, Tick, proc
  <2>3. ~ Handled
      BY <2>1, <2>2 DEF Signal
  <2> QED
      BY <2>1, <2>3 DEF Handled
<1> QED
    BY <1>1, ServerInvHolds, PTL DEF Spec, SignalsCutOnlyTheStart

=============================================================================
