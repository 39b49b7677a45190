----------------------- MODULE ServiceLifecycleProofs -----------------------
(***************************************************************************)
(* Proofs about ServiceLifecycle, for any number of requests: that no      *)
(* request runs into a dependency which is missing or closed, that Close   *)
(* never meets one that was not created, and that its result is true.      *)
(*                                                                         *)
(* The inductive invariant says, for each place main and the closer can be *)
(* in, what has been opened, started and closed by then.                   *)
(***************************************************************************)
EXTENDS ServiceLifecycle, TLAPS

Started == main \in {"select", "close", "wait", "graceful", "not graceful"}
Closing == main \in {"wait", "graceful", "not graceful"}

\* The flags say what has been created, and once Run is past the constructors
\* that is the store and, in publishing mode only, both producers.
OpenedInOrder ==
  /\ \A d \in Dependencies : dependency[d] # "none" <=> d \in flags
  /\ main \in {"config", "mongo"} => flags = {}
  /\ main \in {"uploaded", "published"} => publishing /\ "mongo" \in flags /\ "published" \notin flags
  /\ main = "uploaded" => "uploaded" \notin flags
  /\ main = "published" => "uploaded" \in flags
  /\ main \in {"setup", "healthcheck", "checkers", "start"} \/ Started =>
       /\ "mongo" \in flags
       /\ publishing <=> "uploaded" \in flags
       /\ publishing <=> "published" \in flags
  /\ Started \/ main \in {"checkers", "start"} => "healthcheck" \in flags

\* Routes are those of the mode; requests are on routes, and come only to a
\* server that Run has started.
ServedAfterStart ==
  /\ routes = {} \/ Started \/ main \in {"healthcheck", "checkers", "start", "start failed"}
  /\ "change" \in routes => publishing
  /\ health = "running" => Started
  /\ serve # "none" => Started
  /\ \A r \in Requests : inflight[r] # Nobody => inflight[r] \in routes /\ Started

\* Where the closer is tells what is closed and stopped.
Past(places) == closer \in places \cup {"settle", "cancel", "done"}

ClosedInOrder ==
  /\ ~Closing <=> ctx = "none"
  /\ ctx = "none" <=> closer = "none"
  /\ ctx = "cancelled" => closer = "done"
  /\ dependency["mongo"] = "closed" => Past({"uploaded", "published"})
  /\ dependency["uploaded"] = "closed" => Past({"published"})
  /\ dependency["published"] = "closed" => Past({})
  /\ Past({"uploaded", "published"}) => dependency["mongo"] # "open"
  /\ Past({"published"}) => dependency["uploaded"] # "open"
  /\ Past({}) => dependency["published"] # "open"
  /\ Past({"drain", "mongo", "uploaded", "published"}) => down
  /\ Past({"shutdown", "drain", "mongo", "uploaded", "published"}) => health = "stopped"
  /\ Past({"mongo", "uploaded", "published"}) => Drained \/ (ctx = "expired" /\ hasError)

\* The result: what the closer has noted and what main makes of it.
ResultIsTrue ==
  /\ graceful => closer \in {"cancel", "done"} /\ ~hasError
  /\ closer \in {"cancel", "done"} => (graceful <=> ~hasError)
  /\ main = "graceful" => graceful
  /\ main = "not graceful" => (hasError /\ ctx = "cancelled") \/ ctx = "expired"

\* The types: the two-valued variables, and the others.
SwitchesOK ==
  /\ publishing \in BOOLEAN /\ down \in BOOLEAN
  /\ svcErrors \in BOOLEAN /\ signals \in BOOLEAN /\ asked \in BOOLEAN
  /\ hasError \in BOOLEAN /\ graceful \in BOOLEAN

ControlOK ==
  /\ main \in FailingCalls \cup {"setup", "start", "select", "close", "wait",
                                "start failed", "graceful", "not graceful"}
  /\ flags \subseteq Dependencies \cup {"healthcheck"}
  /\ dependency \in [Dependencies -> {"none", "open", "closed"}]
  /\ health \in {"none", "created", "running", "stopped"}
  /\ routes \subseteq {"read", "change"}
  /\ serve \in {"none", "ready", "listening", "returned"}
  /\ inflight \in [Requests -> {"read", "change", Nobody}]
  /\ closer \in {"none", "health", "shutdown", "drain", "mongo", "uploaded",
                 "published", "settle", "cancel", "done"}
  /\ ctx \in {"none", "active", "expired", "cancelled"}

\* A step that leaves the control variables alone keeps their types.
LEMMA ControlKept ==
  ASSUME ControlOK,
         UNCHANGED <<main, flags, dependency, health, routes, serve, closer, ctx>>,
         inflight' \in [Requests -> {"read", "change", Nobody}]
  PROVE  ControlOK'
  <1>1. /\ flags' \subseteq Dependencies \cup {"healthcheck"}
        /\ routes' \subseteq {"read", "change"}
        /\ dependency' \in [Dependencies -> {"none", "open", "closed"}]
    BY DEF ControlOK
  <1> QED  BY <1>1 DEF ControlOK

OrderInv == OpenedInOrder /\ ServedAfterStart /\ ClosedInOrder /\ ResultIsTrue
LifecycleInv == TypeOK /\ OrderInv

USE NobodyIsNoRoute DEF FailingCalls, Dependencies, Exited, startVars, serverVars, closeVars

\* Before the start nothing is open.
LEMMA LifecycleStarts == Init => LifecycleInv
  BY DEF Init, LifecycleInv, OrderInv, TypeOK, OpenedInOrder, ServedAfterStart,
         ClosedInOrder, ResultIsTrue, Started, Closing, Past, Drained

\* The steps of Run.
LEMMA StartSteps ==
  ASSUME LifecycleInv,
         \/ \E call \in FailingCalls : StartFails(call)
         \/ GetConfig
         \/ GetMongoDB
         \/ GetUploadedProducer
         \/ GetPublishedProducer
         \/ Setup
         \/ GetHealthCheck
         \/ RegisterCheckers
         \/ Start
  PROVE  OrderInv'
  <1> USE DEF LifecycleInv, OrderInv, TypeOK, OpenedInOrder, ServedAfterStart,
              ClosedInOrder, ResultIsTrue, Started, Closing, Past, Drained, Ended
  <1>1. ASSUME NEW call \in FailingCalls, StartFails(call)
        PROVE  OrderInv'
    BY <1>1 DEF StartFails
  <1>2. CASE GetConfig
    BY <1>2 DEF GetConfig
  <1>3. CASE GetMongoDB
    BY <1>3 DEF GetMongoDB, Open
  <1>4. CASE GetUploadedProducer
    BY <1>4 DEF GetUploadedProducer, Open
  <1>5. CASE GetPublishedProducer
    BY <1>5 DEF GetPublishedProducer, Open
  <1>6. CASE Setup
    BY <1>6 DEF Setup
  <1>7. CASE GetHealthCheck
    BY <1>7 DEF GetHealthCheck
  <1>8. CASE RegisterCheckers
    BY <1>8 DEF RegisterCheckers
  <1>9. CASE Start
    BY <1>9 DEF Start
  <1> QED  BY <1>1, <1>2, <1>3, <1>4, <1>5, <1>6, <1>7, <1>8, <1>9

\* The steps of the server and its requests, and a signal.
LEMMA ServerSteps ==
  ASSUME LifecycleInv,
         \/ Listen
         \/ ListenAndServeReturns
         \/ \E r \in Requests : RequestArrives(r)
         \/ \E r \in Requests : RequestEnds(r)
         \/ OSSignal
  PROVE  OrderInv'
  <1> USE DEF LifecycleInv, OrderInv, TypeOK, OpenedInOrder, ServedAfterStart,
              ClosedInOrder, ResultIsTrue, Started, Closing, Past, Drained, Ended
  <1>1. CASE Listen
    BY <1>1 DEF Listen
  <1>2. CASE ListenAndServeReturns
    BY <1>2 DEF ListenAndServeReturns
  <1>3. ASSUME NEW r \in Requests, RequestArrives(r)
        PROVE  OrderInv'
    BY <1>3 DEF RequestArrives
  <1>4. ASSUME NEW r \in Requests, RequestEnds(r)
        PROVE  OrderInv'
    <2>1. /\ inflight' \in [Requests -> {"read", "change", Nobody}]
          /\ \A q \in Requests : inflight'[q] # Nobody => inflight'[q] = inflight[q]
      BY <1>4 DEF RequestEnds
    <2>2. ServedAfterStart'
      BY <1>4, <2>1 DEF RequestEnds
    <2>3. Drained => Drained'
      BY <2>1
    <2> QED  BY <1>4, <2>2, <2>3 DEF RequestEnds
  <1>5. CASE OSSignal
    <2>1. OpenedInOrder' /\ ServedAfterStart'
      BY <1>5 DEF OSSignal
    <2>2. ClosedInOrder' /\ ResultIsTrue'
      BY <1>5 DEF OSSignal
    <2> QED  BY <2>1, <2>2
  <1> QED  BY <1>1, <1>2, <1>3, <1>4, <1>5

\* The steps of main from its select to its exit, and the timeout.
LEMMA MainSteps ==
  ASSUME LifecycleInv,
         \/ Wake
         \/ Close
         \/ TimeoutExpires
         \/ CloseReturns
  PROVE  OrderInv'
  <1> USE DEF LifecycleInv, OrderInv, TypeOK, OpenedInOrder, ServedAfterStart,
              ClosedInOrder, ResultIsTrue, Started, Closing, Past, Drained, Ended
  <1>1. CASE Wake
    BY <1>1 DEF Wake
  <1>2. CASE Close
    BY <1>2 DEF Close
  <1>3. CASE TimeoutExpires
    BY <1>3 DEF TimeoutExpires
  <1>4. CASE CloseReturns
    BY <1>4 DEF CloseReturns
  <1> QED  BY <1>1, <1>2, <1>3, <1>4

\* The steps of the closer.
LEMMA CloserSteps ==
  ASSUME LifecycleInv,
         \/ StopHealthCheck
         \/ Shutdown
         \/ ShutdownReturns
         \/ CloseMongoDB
         \/ CloseUploadedProducer
         \/ ClosePublishedProducer
         \/ Settle
         \/ Cancel
  PROVE  OrderInv'
  <1> USE DEF LifecycleInv, OrderInv, TypeOK, OpenedInOrder, ServedAfterStart,
              ClosedInOrder, ResultIsTrue, Started, Closing, Past, Drained, Ended
  <1>1. CASE StopHealthCheck
    BY <1>1 DEF StopHealthCheck
  <1>2. CASE Shutdown
    BY <1>2 DEF Shutdown
  <1>3. CASE ShutdownReturns
    BY <1>3 DEF ShutdownReturns
  <1>4. CASE CloseMongoDB
    BY <1>4 DEF CloseMongoDB, CloseDependency
  <1>5. CASE CloseUploadedProducer
    BY <1>5 DEF CloseUploadedProducer, CloseDependency
  <1>6. CASE ClosePublishedProducer
    <2>1. OpenedInOrder' /\ ServedAfterStart'
      BY <1>6 DEF ClosePublishedProducer, CloseDependency
    <2>2. ClosedInOrder' /\ ResultIsTrue'
      BY <1>6 DEF ClosePublishedProducer, CloseDependency
    <2> QED  BY <2>1, <2>2
  <1>7. CASE Settle
    BY <1>7 DEF Settle
  <1>8. CASE Cancel
    BY <1>8 DEF Cancel
  <1> QED  BY <1>1, <1>2, <1>3, <1>4, <1>5, <1>6, <1>7, <1>8

\* Every step keeps the types.
LEMMA StepTypes == TypeOK /\ [Next]_vars => TypeOK'
  <1> SUFFICES ASSUME TypeOK, [Next]_vars
               PROVE  SwitchesOK' /\ ControlOK'
    BY DEF TypeOK, SwitchesOK, ControlOK
  <1>a. SwitchesOK /\ ControlOK
    BY DEF TypeOK, SwitchesOK, ControlOK
  <1>1. CASE Main
    <2>1. SwitchesOK'
      BY <1>a, <1>1, Zenon DEF SwitchesOK, Main, StartFails, GetConfig,
            GetMongoDB, Open, GetUploadedProducer, GetPublishedProducer, Setup,
            GetHealthCheck, RegisterCheckers, Start, Wake, Close, CloseReturns
    <2>2. ControlOK'
      <3>1. ASSUME NEW call \in FailingCalls, StartFails(call)
            PROVE  ControlOK'
        BY <1>a, <3>1 DEF ControlOK, StartFails
      <3>2. CASE GetConfig
        BY <1>a, <3>2 DEF ControlOK, GetConfig
      <3>3. CASE GetMongoDB
        BY <1>a, <3>3 DEF ControlOK, GetMongoDB, Open
      <3>4. CASE GetUploadedProducer
        BY <1>a, <3>4 DEF ControlOK, GetUploadedProducer, Open
      <3>5. CASE GetPublishedProducer
        BY <1>a, <3>5 DEF ControlOK, GetPublishedProducer, Open
      <3>6. CASE Setup
        BY <1>a, <3>6 DEF ControlOK, Setup
      <3>7. CASE GetHealthCheck
        BY <1>a, <3>7 DEF ControlOK, GetHealthCheck
      <3>8. CASE RegisterCheckers
        BY <1>a, <3>8 DEF ControlOK, RegisterCheckers
      <3>9. CASE Start
        BY <1>a, <3>9 DEF ControlOK, Start
      <3>10. CASE Wake
        BY <1>a, <3>10 DEF ControlOK, Wake
      <3>11. CASE Close
        BY <1>a, <3>11 DEF ControlOK, Close
      <3>12. CASE CloseReturns
        BY <1>a, <3>12 DEF ControlOK, CloseReturns
      <3> QED  BY <1>1, <3>1, <3>2, <3>3, <3>4, <3>5, <3>6, <3>7, <3>8, <3>9, <3>10, <3>11, <3>12 DEF Main
    <2> QED  BY <2>1, <2>2
  <1>2. CASE Closer
    <2>1. SwitchesOK'
      BY <1>a, <1>2, Zenon DEF SwitchesOK, Closer, StopHealthCheck, Shutdown,
            ShutdownReturns, CloseMongoDB, CloseDependency,
            CloseUploadedProducer, ClosePublishedProducer, Settle, Cancel
    <2>2. ControlOK'
      <3>1. CASE StopHealthCheck
        BY <1>a, <3>1 DEF ControlOK, StopHealthCheck
      <3>2. CASE Shutdown
        BY <1>a, <3>2 DEF ControlOK, Shutdown
      <3>3. CASE ShutdownReturns
        BY <1>a, <3>3 DEF ControlOK, ShutdownReturns
      <3>4. CASE CloseMongoDB
        BY <1>a, <3>4 DEF ControlOK, CloseMongoDB, CloseDependency
      <3>5. CASE CloseUploadedProducer
        BY <1>a, <3>5 DEF ControlOK, CloseUploadedProducer, CloseDependency
      <3>6. CASE ClosePublishedProducer
        BY <1>a, <3>6 DEF ControlOK, ClosePublishedProducer, CloseDependency
      <3>7. CASE Settle
        BY <1>a, <3>7 DEF ControlOK, Settle
      <3>8. CASE Cancel
        BY <1>a, <3>8 DEF ControlOK, Cancel
      <3> QED  BY <1>2, <3>1, <3>2, <3>3, <3>4, <3>5, <3>6, <3>7, <3>8 DEF Closer
    <2> QED  BY <2>1, <2>2
  <1>3. CASE Server
    <2>1. SwitchesOK'
      BY <1>a, <1>3, Zenon DEF SwitchesOK, Server, Listen, ListenAndServeReturns,
            RequestArrives, RequestEnds
    <2>2. ControlOK'
      <3>1. CASE Listen
        BY <1>a, <3>1 DEF ControlOK, Listen
      <3>2. CASE ListenAndServeReturns
        BY <1>a, <3>2 DEF ControlOK, ListenAndServeReturns
      <3>3. ASSUME NEW r \in Requests, RequestArrives(r)
            PROVE  ControlOK'
        BY <1>a, <3>3 DEF ControlOK, RequestArrives
      <3>4. ASSUME NEW r \in Requests, RequestEnds(r)
            PROVE  ControlOK'
        <4>1. inflight' \in [Requests -> {"read", "change", Nobody}]
          BY <1>a, <3>4 DEF ControlOK, RequestEnds
        <4> QED  BY <1>a, <3>4, <4>1, ControlKept DEF RequestEnds
      <3> QED  BY <1>3, <3>1, <3>2, <3>3, <3>4 DEF Server
    <2> QED  BY <2>1, <2>2
  <1>4. CASE OSSignal \/ TimeoutExpires \/ UNCHANGED vars
    <2>1. SwitchesOK'
      BY <1>a, <1>4, Zenon DEF SwitchesOK, OSSignal, TimeoutExpires, vars
    <2>2. CASE OSSignal
      <3>1. inflight' \in [Requests -> {"read", "change", Nobody}]
        BY <1>a, <2>2 DEF ControlOK, OSSignal
      <3> QED  BY <1>a, <2>1, <2>2, <3>1, ControlKept DEF OSSignal
    <2>3. CASE TimeoutExpires
      BY <1>a, <2>1, <2>3 DEF ControlOK, TimeoutExpires
    <2>4. CASE UNCHANGED vars
      <3>1. inflight' \in [Requests -> {"read", "change", Nobody}]
        BY <1>a, <2>4 DEF ControlOK, vars
      <3> QED  BY <1>a, <2>1, <2>4, <3>1, ControlKept DEF vars
    <2> QED  BY <1>4, <2>2, <2>3, <2>4
  <1> QED  BY <1>1, <1>2, <1>3, <1>4 DEF Next

\* The invariant is inductive.
LEMMA LifecycleInvariance == Spec => []LifecycleInv
  <1>1. LifecycleInv /\ [Next]_vars => LifecycleInv'
    <2> SUFFICES ASSUME LifecycleInv, [Next]_vars
                 PROVE  OrderInv'
      BY StepTypes DEF LifecycleInv
    <2>1. CASE Main
      BY <2>1, StartSteps, MainSteps DEF Main
    <2>2. CASE Closer
      BY <2>2, CloserSteps DEF Closer
    <2>3. CASE Server
      BY <2>3, ServerSteps DEF Server
    <2>4. CASE OSSignal \/ TimeoutExpires
      BY <2>4, ServerSteps, MainSteps
    <2>5. CASE UNCHANGED vars
      <3> USE <2>5 DEF LifecycleInv, OrderInv, Started, Closing, Past, Drained, vars
      <3>1. OpenedInOrder'
        BY DEF OpenedInOrder
      <3>2. ServedAfterStart'
        BY DEF ServedAfterStart
      <3>3. ClosedInOrder' /\ ResultIsTrue'
        BY DEF ClosedInOrder, ResultIsTrue
      <3> QED  BY <3>1, <3>2, <3>3
    <2> QED  BY <2>1, <2>2, <2>3, <2>4, <2>5 DEF Next
  <1> QED  BY <1>1, LifecycleStarts, PTL DEF Spec

----------------------------------------------------------------------------

\* The types of the lifecycle, for any number of requests in flight.
THEOREM LifecycleTypes == Spec => []TypeOK
  <1>1. LifecycleInv => TypeOK
    BY DEF LifecycleInv
  <1> QED  BY <1>1, LifecycleInvariance, PTL

\* Every request in flight finds the store and, on a route that changes images,
\* the producers open, unless the shutdown has run out of time.
THEOREM DependenciesOutliveRequests == Spec => []RequestsHaveDependencies
  <1>1. LifecycleInv => RequestsHaveDependencies
    <2> SUFFICES ASSUME LifecycleInv,
                        NEW r \in Requests, inflight[r] # Nobody,
                        NEW d \in Needs(inflight[r]), ctx # "expired"
                 PROVE  dependency[d] = "open"
      BY DEF RequestsHaveDependencies
    <2>a. inflight[r] \in routes /\ Started
      BY DEF LifecycleInv, OrderInv, ServedAfterStart
    <2>1. Started /\ (d \in {"uploaded", "published"} => publishing)
      BY <2>a DEF LifecycleInv, OrderInv, TypeOK, ServedAfterStart, Needs
    <2>2. d \in Dependencies /\ dependency[d] # "none"
      BY <2>1 DEF LifecycleInv, OrderInv, OpenedInOrder, Needs
    <2>3. ~Past({"mongo", "uploaded", "published"})
      BY DEF LifecycleInv, OrderInv, ClosedInOrder, Drained
    <2>4. dependency[d] # "closed"
      BY <2>2, <2>3 DEF LifecycleInv, OrderInv, ClosedInOrder, Past
    <2> QED  BY <2>2, <2>4 DEF LifecycleInv, OrderInv, TypeOK
  <1> QED  BY <1>1, LifecycleInvariance, PTL

\* The goroutine of Close never calls Close on a producer that was not created,
\* although it looks at the flag of the other one.
THEOREM ClosesWhatIsOpen == Spec => OnlyOpenIsClosed
  <1>1. LifecycleInv /\ [Next]_vars =>
          [\A d \in Dependencies : dependency'[d] = "closed" /\ dependency[d] # "closed"
             => dependency[d] = "open"]_vars
    <2> SUFFICES ASSUME LifecycleInv, Next,
                        NEW d \in Dependencies,
                        dependency'[d] = "closed", dependency[d] # "closed"
                 PROVE  dependency[d] = "open"
      OBVIOUS
    <2> USE DEF LifecycleInv, TypeOK
    <2>1. CASE Main
      BY <2>1 DEF Main, StartFails, GetConfig, GetMongoDB, GetUploadedProducer,
                  GetPublishedProducer, Open, Setup, GetHealthCheck, RegisterCheckers,
                  Start, Wake, Close, CloseReturns
    <2>2. CASE Closer
      <3>1. d = closer
        BY <2>2 DEF Closer, StopHealthCheck, Shutdown, ShutdownReturns, CloseMongoDB,
                    CloseUploadedProducer, ClosePublishedProducer, CloseDependency,
                    Settle, Cancel
      <3>2. "uploaded" \in flags \/ (d = "mongo" /\ "mongo" \in flags)
        <4>1. CloseMongoDB \/ CloseUploadedProducer \/ ClosePublishedProducer
          BY <2>2 DEF Closer, StopHealthCheck, Shutdown, ShutdownReturns, Settle, Cancel
        <4>2. CASE CloseMongoDB
          BY <3>1, <4>2 DEF CloseMongoDB, CloseDependency
        <4>3. ASSUME CloseUploadedProducer \/ ClosePublishedProducer, "uploaded" \notin flags
              PROVE  FALSE
          <5>1. UNCHANGED dependency
            BY <4>3 DEF CloseUploadedProducer, ClosePublishedProducer, CloseDependency
          <5> QED  BY <5>1
        <4> QED  BY <4>1, <4>2, <4>3
      <3>3. Started
        BY <3>1 DEF OrderInv, ClosedInOrder, Closing, Started
      <3>4. d \in flags
        BY <3>2, <3>3 DEF OrderInv, OpenedInOrder
      <3> QED  BY <3>4 DEF OrderInv, OpenedInOrder
    <2>3. CASE Server \/ OSSignal \/ TimeoutExpires
      BY <2>3 DEF Server, Listen, ListenAndServeReturns, RequestArrives, RequestEnds,
                  OSSignal, TimeoutExpires
    <2> QED  BY <2>1, <2>2, <2>3 DEF Next
  <1> QED  BY <1>1, LifecycleInvariance, PTL DEF Spec, OnlyOpenIsClosed

\* Close answers nil only when everything is closed, whichever way the timeout
\* and the closing goroutine race.
THEOREM CloseTellsTheTruth == Spec => []GracefulMeansClosed
  <1>1. LifecycleInv => GracefulMeansClosed
    <2> SUFFICES ASSUME LifecycleInv, main = "graceful"
                 PROVE  /\ ~hasError
                        /\ \A d \in Dependencies : dependency[d] # "open"
                        /\ Drained
                        /\ health = "stopped"
      BY DEF GracefulMeansClosed
    <2>1. closer \in {"cancel", "done"} /\ ~hasError
      BY DEF LifecycleInv, OrderInv, ResultIsTrue
    <2> QED  BY <2>1 DEF LifecycleInv, OrderInv, ClosedInOrder, Past
  <1> QED  BY <1>1, LifecycleInvariance, PTL

\* Within its time it answers an error only when something has failed, and not
\* before the closer has tried to close everything.
THEOREM ErrorsAreReal == Spec => []ErrorMeansTrouble
  <1>1. LifecycleInv => ErrorMeansTrouble
    <2> SUFFICES ASSUME LifecycleInv, main = "not graceful", ctx # "expired"
                 PROVE  /\ hasError /\ closer = "done"
                        /\ \A d \in Dependencies : dependency[d] # "open"
                        /\ health = "stopped"
      BY DEF ErrorMeansTrouble
    <2>1. hasError /\ ctx = "cancelled"
      BY DEF LifecycleInv, OrderInv, ResultIsTrue
    <2>2. closer = "done"
      BY <2>1 DEF LifecycleInv, OrderInv, ClosedInOrder
    <2>3. QED
      BY <2>1, <2>2 DEF LifecycleInv, OrderInv, ClosedInOrder, Past, Dependencies
  <1> QED  BY <1>1, LifecycleInvariance, PTL

\* A start that fails has served nothing.
THEOREM FailedStartIsSilent == Spec => []FailedStartServesNothing
  <1>1. LifecycleInv => FailedStartServesNothing
    BY DEF LifecycleInv, OrderInv, ServedAfterStart, FailedStartServesNothing, Started, Drained
  <1> QED  BY <1>1, LifecycleInvariance, PTL
=============================================================================
