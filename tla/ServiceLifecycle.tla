-------------------------- MODULE ServiceLifecycle --------------------------
(***************************************************************************)
(* One instance of the service from start to exit (main.go, package        *)
(* service): run reads the configuration, opens the dependencies one by    *)
(* one, starts the health check and the HTTP server, waits for a signal or *)
(* a fatal error, and closes everything within a time limit.               *)
(*                                                                         *)
(* Three goroutines: main, the one that serves HTTP (in Run) and the one   *)
(* that closes (in Close), beside the requests in flight.  A control       *)
(* variable names what its goroutine does next.  Once main has returned    *)
(* the process is gone and nothing moves.                                  *)
(***************************************************************************)

CONSTANTS
  Requests,   \* slots for the HTTP requests in flight
  Nobody      \* the value of a slot not in use

Dependencies == {"mongo", "uploaded", "published"}

\* What a handler uses: the read handlers the store, the others the store and
\* the producers.
Needs(route) == IF route = "read" THEN {"mongo"} ELSE Dependencies

ASSUME NobodyIsNoRoute == Nobody \notin {"read", "change"}

VARIABLES
  main,        \* the next call of run, or how it has returned
  publishing,  \* IsPublishing, as the configuration says
  flags,       \* the ExternalServiceList: what has been created
  dependency,  \* the store and the two producers: "none", "open" or "closed"
  health,      \* the health check: "none", "created", "running" or "stopped"
  routes,      \* the kinds of route Setup has registered
  serve,       \* the goroutine that runs ListenAndServe
  down,        \* whether Shutdown has been called on the server
  inflight,    \* the route each request slot is being handled by
  svcErrors,   \* whether a fatal error is in the channel, whose capacity is 1
  signals,     \* whether a signal is in the channel, whose capacity is 1
  asked,       \* whether the process was ever sent a signal (history)
  closer,      \* the next call of the goroutine started by Close
  ctx,         \* the context of Close: "none", "active", "expired", "cancelled"
  hasError,    \* hasShutdownError
  graceful     \* gracefulShutdown, which main and the closer share

startVars == <<publishing, flags, dependency, health, routes>>
serverVars == <<serve, down, inflight>>
closeVars == <<closer, ctx, hasError, graceful>>
vars == <<main, startVars, serverVars, svcErrors, signals, asked, closeVars>>

Init ==
  /\ main = "config"
  /\ publishing = FALSE
  /\ flags = {}
  /\ dependency = [d \in Dependencies |-> "none"]
  /\ health = "none"
  /\ routes = {}
  /\ serve = "none" /\ down = FALSE
  /\ inflight = [r \in Requests |-> Nobody]
  /\ svcErrors = FALSE /\ signals = FALSE /\ asked = FALSE
  /\ closer = "none" /\ ctx = "none"
  /\ hasError = FALSE /\ graceful = FALSE

\* How run returns: with an error of the start, or with the result of Close.
Exited == main \in {"start failed", "graceful", "not graceful"}

----------------------------------------------------------------------------
(* The start.  Every constructor may fail, and run then returns at once.   *)

StartFails(call) ==
  /\ main = call
  /\ main' = "start failed"
  /\ UNCHANGED <<startVars, serverVars, svcErrors, signals, asked, closeVars>>

GetConfig ==
  /\ main = "config"
  /\ main' = "mongo"
  /\ publishing' \in BOOLEAN
  /\ UNCHANGED <<flags, dependency, health, routes, serverVars,
                 svcErrors, signals, asked, closeVars>>

\* The flag of a dependency is set only when its constructor succeeds.
Open(d, next) ==
  /\ main = d
  /\ main' = next
  /\ flags' = flags \cup {d}
  /\ dependency' = [dependency EXCEPT ![d] = "open"]
  /\ UNCHANGED <<publishing, health, routes, serverVars,
                 svcErrors, signals, asked, closeVars>>

GetMongoDB == Open("mongo", IF publishing THEN "uploaded" ELSE "setup")
GetUploadedProducer == Open("uploaded", "published")
GetPublishedProducer == Open("published", "setup")

\* Setup registers nothing when the URL of the API does not parse; Run takes
\* the nil API it returns and goes on.
Setup ==
  /\ main = "setup"
  /\ main' = "healthcheck"
  /\ routes' \in {{}, IF publishing THEN {"read", "change"} ELSE {"read"}}
  /\ UNCHANGED <<publishing, flags, dependency, health, serverVars,
                 svcErrors, signals, asked, closeVars>>

\* Mutant: the health check is started before its checks are registered.
GetAndStartHealthCheck ==
  /\ main = "healthcheck"
  /\ main' = "checkers"
  /\ flags' = flags \cup {"healthcheck"}
  /\ health' = "running"
  /\ UNCHANGED <<publishing, dependency, routes, serverVars,
                 svcErrors, signals, asked, closeVars>>

GetHealthCheck ==
  /\ main = "healthcheck"
  /\ main' = "checkers"
  /\ flags' = flags \cup {"healthcheck"}
  /\ health' = "created"
  /\ UNCHANGED <<publishing, dependency, routes, serverVars,
                 svcErrors, signals, asked, closeVars>>

RegisterCheckers ==
  /\ main = "checkers"
  /\ main' = "start"
  /\ UNCHANGED <<startVars, serverVars, svcErrors, signals, asked, closeVars>>

\* The health check is started, the errors of the producers are logged (in
\* publishing mode only) and the server gets a goroutine.
Start ==
  /\ main = "start"
  /\ main' = "select"
  /\ health' = "running"
  /\ serve' = "ready"
  /\ UNCHANGED <<publishing, flags, dependency, routes, down, inflight,
                 svcErrors, signals, asked, closeVars>>

----------------------------------------------------------------------------
(* The server and its requests, as net/http has them: a server that has    *)
(* been shut down takes no request, whether or not it was listening.       *)

Listen ==
  /\ ~Exited /\ serve = "ready" /\ ~down
  /\ serve' = "listening"
  /\ UNCHANGED <<main, startVars, down, inflight, svcErrors, signals, asked, closeVars>>

\* ListenAndServe returns, because the port is taken, accepting fails or the
\* server is shut down; its error is sent to the channel of capacity one.
ListenAndServeReturns ==
  /\ ~Exited /\ serve \in {"ready", "listening"}
  /\ ~svcErrors
  /\ serve' = "returned"
  /\ svcErrors' = TRUE
  /\ UNCHANGED <<main, startVars, down, inflight, signals, asked, closeVars>>

\* Mutant: a path without a route is handled instead of refused.
UnroutedRequestArrives(r) ==
  /\ ~Exited /\ serve = "listening" /\ ~down
  /\ inflight[r] = Nobody
  /\ \E route \in routes \cup {"unknown"} : inflight' = [inflight EXCEPT ![r] = route]
  /\ UNCHANGED <<main, startVars, serve, down, svcErrors, signals, asked, closeVars>>

RequestArrives(r) ==
  /\ ~Exited /\ serve = "listening" /\ ~down
  /\ inflight[r] = Nobody
  /\ \E route \in routes : inflight' = [inflight EXCEPT ![r] = route]
  /\ UNCHANGED <<main, startVars, serve, down, svcErrors, signals, asked, closeVars>>

RequestEnds(r) ==
  /\ ~Exited /\ inflight[r] # Nobody
  /\ inflight' = [inflight EXCEPT ![r] = Nobody]
  /\ UNCHANGED <<main, startVars, serve, down, svcErrors, signals, asked, closeVars>>

----------------------------------------------------------------------------
(* The main goroutine, once the service runs.                              *)

\* Mutant: a channel without a buffer, which loses a signal nobody waits for.
SignalIfAwaited ==
  /\ ~Exited
  /\ signals' = (main = "select")
  /\ asked' = TRUE
  /\ UNCHANGED <<main, startVars, serverVars, svcErrors, closeVars>>

\* An interrupt or SIGTERM, at any time: signal.Notify puts it in the channel
\* or, when there is one already, drops it.
OSSignal ==
  /\ ~Exited
  /\ signals' = TRUE
  /\ asked' = TRUE
  /\ UNCHANGED <<main, startVars, serverVars, svcErrors, closeVars>>

\* The select of run.
Wake ==
  /\ main = "select"
  /\ \/ svcErrors /\ svcErrors' = FALSE /\ UNCHANGED signals
     \/ signals /\ signals' = FALSE /\ UNCHANGED svcErrors
  /\ main' = "close"
  /\ UNCHANGED <<startVars, serverVars, asked, closeVars>>

\* Close arms the timeout and leaves the work to a goroutine.
Close ==
  /\ main = "close"
  /\ main' = "wait"
  /\ ctx' = "active"
  /\ closer' = "health"
  /\ UNCHANGED <<startVars, serverVars, svcErrors, signals, asked, hasError, graceful>>

TimeoutExpires ==
  /\ ~Exited /\ ctx = "active"
  /\ ctx' = "expired"
  /\ UNCHANGED <<main, startVars, serverVars, svcErrors, signals, asked,
                 closer, hasError, graceful>>

Ended == ctx \in {"expired", "cancelled"}

\* Main waits for the end of the context, then reads what the closer may be
\* writing.  cancel() orders the write before the read; after a timeout nothing
\* does, and a write that was made may or may not be seen.
CloseReturns ==
  /\ main = "wait"
  /\ Ended
  /\ \/ graceful /\ main' = "graceful"
     \/ (~graceful \/ ctx = "expired") /\ main' = "not graceful"
  /\ UNCHANGED <<startVars, serverVars, svcErrors, signals, asked, closeVars>>

----------------------------------------------------------------------------
(* The goroutine of Close.  Each call may block: nothing says it returns.  *)

StopHealthCheck ==
  /\ ~Exited /\ closer = "health"
  /\ closer' = "shutdown"
  /\ health' = IF "healthcheck" \in flags THEN "stopped" ELSE health
  /\ UNCHANGED <<main, publishing, flags, dependency, routes, serverVars,
                 svcErrors, signals, asked, ctx, hasError, graceful>>

\* Shutdown stops the listener at once and waits for the requests in flight.
Shutdown ==
  /\ ~Exited /\ closer = "shutdown"
  /\ closer' = "drain"
  /\ down' = TRUE
  /\ UNCHANGED <<main, startVars, serve, inflight, svcErrors, signals, asked,
                 ctx, hasError, graceful>>

Drained == \A r \in Requests : inflight[r] = Nobody

\* Mutant: Shutdown does not wait for the requests in flight.
ShutdownReturnsAtOnce ==
  /\ ~Exited /\ closer = "drain"
  /\ closer' = "mongo"
  /\ hasError' \in {hasError, TRUE}
  /\ UNCHANGED <<main, startVars, serverVars, svcErrors, signals, asked, ctx, graceful>>

\* It returns nil or the error of closing the listener when they are done, and
\* an error when the context ends first.  (api.Close, which follows, does nothing.)
ShutdownReturns ==
  /\ ~Exited /\ closer = "drain"
  /\ closer' = "mongo"
  /\ \/ Drained /\ hasError' \in {hasError, TRUE}
     \/ Ended /\ hasError' = TRUE
  /\ UNCHANGED <<main, startVars, serverVars, svcErrors, signals, asked, ctx, graceful>>

\* Mutant: an error of the last call is taken for all of them.
KeepLastError(d, flag, next) ==
  /\ ~Exited /\ closer = d
  /\ closer' = next
  /\ IF flag \in flags
     THEN /\ dependency' = [dependency EXCEPT ![d] = "closed"]
          /\ hasError' \in BOOLEAN
     ELSE UNCHANGED <<dependency, hasError>>
  /\ UNCHANGED <<main, publishing, flags, health, routes, serverVars,
                 svcErrors, signals, asked, ctx, graceful>>

\* The closing of one dependency, under a flag; an error is noted and the
\* next one is closed all the same.
CloseDependency(d, flag, next) ==
  /\ ~Exited /\ closer = d
  /\ closer' = next
  /\ IF flag \in flags
     THEN /\ dependency' = [dependency EXCEPT ![d] = "closed"]
          /\ hasError' \in {hasError, TRUE}
     ELSE UNCHANGED <<dependency, hasError>>
  /\ UNCHANGED <<main, publishing, flags, health, routes, serverVars,
                 svcErrors, signals, asked, ctx, graceful>>

CloseMongoDB == CloseDependency("mongo", "mongo", "uploaded")
CloseUploadedProducer == CloseDependency("uploaded", "uploaded", "published")
\* Mutant: a flag that is set in every mode.
ClosePublishedProducerAlways == CloseDependency("published", "mongo", "settle")
\* The flag is that of the other producer.
ClosePublishedProducer == CloseDependency("published", "uploaded", "settle")

\* Mutant: the context is cancelled before the result is set.
CancelThenSettle ==
  /\ ~Exited /\ closer = "settle"
  /\ IF ctx = "active"
     THEN ctx' = "cancelled" /\ UNCHANGED <<closer, graceful>>
     ELSE closer' = "cancel" /\ graceful' = ~hasError /\ UNCHANGED ctx
  /\ UNCHANGED <<main, startVars, serverVars, svcErrors, signals, asked, hasError>>

Settle ==
  /\ ~Exited /\ closer = "settle"
  /\ closer' = "cancel"
  /\ graceful' = ~hasError
  /\ UNCHANGED <<main, startVars, serverVars, svcErrors, signals, asked, ctx, hasError>>

\* The deferred cancel, which has no effect on a context that has expired.
Cancel ==
  /\ ~Exited /\ closer = "cancel"
  /\ closer' = "done"
  /\ ctx' = IF ctx = "active" THEN "cancelled" ELSE ctx
  /\ UNCHANGED <<main, startVars, serverVars, svcErrors, signals, asked, hasError, graceful>>

----------------------------------------------------------------------------

FailingCalls == {"config", "mongo", "uploaded", "published", "healthcheck", "checkers"}

Main ==
  \/ \E call \in FailingCalls : StartFails(call)
  \/ GetConfig \/ GetMongoDB \/ GetUploadedProducer \/ GetPublishedProducer
  \/ Setup \/ GetHealthCheck \/ RegisterCheckers \/ Start
  \/ Wake \/ Close \/ CloseReturns

Closer ==
  \/ StopHealthCheck \/ Shutdown \/ ShutdownReturns
  \/ CloseMongoDB \/ CloseUploadedProducer \/ ClosePublishedProducer
  \/ Settle \/ Cancel

Server ==
  \/ Listen \/ ListenAndServeReturns
  \/ \E r \in Requests : RequestArrives(r) \/ RequestEnds(r)

Next == Main \/ Closer \/ Server \/ OSSignal \/ TimeoutExpires

Spec == Init /\ [][Next]_vars

\* Main is scheduled, its calls return, and time passes.  Nothing is assumed of
\* the requests, of the server or of the calls that close.
Fairness == WF_vars(Main) /\ WF_vars(TimeoutExpires)

FairSpec == Spec /\ Fairness

----------------------------------------------------------------------------
(* Properties.                                                             *)

TypeOK ==
  /\ main \in FailingCalls \cup {"setup", "start", "select", "close", "wait",
                                "start failed", "graceful", "not graceful"}
  /\ publishing \in BOOLEAN
  /\ flags \subseteq Dependencies \cup {"healthcheck"}
  /\ dependency \in [Dependencies -> {"none", "open", "closed"}]
  /\ health \in {"none", "created", "running", "stopped"}
  /\ routes \subseteq {"read", "change"}
  /\ serve \in {"none", "ready", "listening", "returned"}
  /\ down \in BOOLEAN
  /\ inflight \in [Requests -> {"read", "change", Nobody}]
  /\ svcErrors \in BOOLEAN /\ signals \in BOOLEAN /\ asked \in BOOLEAN
  /\ closer \in {"none", "health", "shutdown", "drain", "mongo", "uploaded",
                 "published", "settle", "cancel", "done"}
  /\ ctx \in {"none", "active", "expired", "cancelled"}
  /\ hasError \in BOOLEAN /\ graceful \in BOOLEAN

\* A request never runs into a dependency that was not created (the routes that
\* change images exist only where the producers do) or that is closed already:
\* incoming requests stop before outbound connections are closed, and only a
\* shutdown that has run out of time goes on with requests in flight.
RequestsHaveDependencies ==
  \A r \in Requests : inflight[r] # Nobody =>
    \A d \in Needs(inflight[r]) : dependency[d] = "open" \/ ctx = "expired"

\* Only what is open gets closed.  The published producer goes by the flag of
\* the uploaded one: Close of a producer that was never created would be a nil
\* dereference.
OnlyOpenIsClosed ==
  [][\A d \in Dependencies :
       dependency'[d] = "closed" /\ dependency[d] # "closed" => dependency[d] = "open"]_vars

\* Close returns nil only if everything that was created has been closed without
\* an error, no request is left and no health check runs, even when the timeout
\* expires while the closer is finishing.
GracefulMeansClosed ==
  main = "graceful" =>
    /\ ~hasError
    /\ \A d \in Dependencies : dependency[d] # "open"
    /\ Drained
    /\ health = "stopped"

\* Within its time Close reports an error only after the closer has tried
\* everything and something has failed: the main goroutine does not overtake it,
\* and no failure keeps a dependency from being closed.  (Once the time is out it
\* may report one though all went well, because it may not see the result.)
ErrorMeansTrouble ==
  main = "not graceful" /\ ctx # "expired" =>
    /\ hasError /\ closer = "done"
    /\ \A d \in Dependencies : dependency[d] # "open"
    /\ health = "stopped"

\* A start that fails leaves no server listening, no request and no health
\* check behind that would use what was opened.
FailedStartServesNothing ==
  main = "start failed" => serve = "none" /\ Drained /\ health # "running"

\* A process that is told to stop, even while it is still starting, or whose
\* server has failed, exits, whatever blocks during the shutdown.
StopsWhenAsked == (asked \/ serve = "returned") ~> Exited
=============================================================================
