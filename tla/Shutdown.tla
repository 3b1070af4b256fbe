------------------------------ MODULE Shutdown ------------------------------
(***************************************************************************)
(* The life of the process, main of src/cmd/app/main.go.                   *)
(*                                                                         *)
(*   open PostgreSQL, MongoDB, Redis, the producer --> from now on signals *)
(*     are caught --> three servers and an orchestrator in an errgroup     *)
(*   signal, or a server fails --> the context of the group is cancelled   *)
(*     --> the orchestrator stops each server in a goroutine of its own,   *)
(*         and waits for the three or for five seconds                     *)
(*     --> when all four have returned: exit with 1 if there was an error, *)
(*         or else close what was opened, the last first, and end          *)
(*                                                                         *)
(* What net/http, grpc-go, errgroup and the pools do is external: Shutdown *)
(* and GracefulStop refuse new requests and wait for those in service,     *)
(* ListenAndServe returns at once while Serve waits for the stop to end,   *)
(* and the pools of the two databases wait for connections in use.         *)
(***************************************************************************)
EXTENDS Integers, FiniteSets

CONSTANTS
    HttpServers,  \* the HTTP server and the server of the metrics
    Grpc,         \* the gRPC server
    Requests,     \* the requests that clients make
    NoServer

Servers == HttpServers \cup {Grpc}

ASSUME ShutdownAssumption ==
    /\ IsFiniteSet(HttpServers) /\ Cardinality(HttpServers) = 2
    /\ Grpc \notin HttpServers
    /\ NoServer \notin Servers

(* How many of the stores are open: PostgreSQL, MongoDB, Redis, producer.  *)
Heights == 0..4

VARIABLES
    main,       \* the main goroutine
    height,     \* the stores that are open
    exit,       \* "no", or how the process has ended
    server,     \* server[s]: the goroutine that serves
    stopper,    \* stopper[s]: the goroutine that stops s
    orch,       \* the orchestrator
    wg,         \* the counter of its WaitGroup
    timedOut,   \* the context of the five seconds
    forced,     \* whether grpcServer.Stop was called
    cancelled,  \* the context of the group
    groupErr,   \* the error of the group
    at,         \* at[r]: the server that is serving r
    asked,      \* the requests that were made
    failed,     \* history: the servers that failed
    early       \* history: gRPC was stopped before it served

life == <<main, height, exit>>
orchestra == <<orch, wg, timedOut, forced>>
group == <<cancelled, groupErr>>
clients == <<at, asked>>
history == <<failed, early>>
vars == <<life, server, stopper, orchestra, group, clients, history>>

ShutdownTypeOK ==
    /\ main \in {"opening", "serving", "closing"} /\ height \in Heights
    /\ exit \in {"no", "ok", "failure", "killed"}
    /\ server \in [Servers -> {"new", "serving", "returned"}]
    /\ stopper \in [Servers -> {"new", "stopping", "done"}]
    /\ orch \in {"waiting", "stopping", "done"}
    /\ wg \in 0..3
    /\ timedOut \in BOOLEAN /\ forced \in BOOLEAN
    /\ cancelled \in BOOLEAN /\ groupErr \in BOOLEAN
    /\ at \in [Requests -> Servers \cup {NoServer}]
    /\ asked \subseteq Requests
    /\ failed \subseteq Servers
    /\ early \in BOOLEAN

Init ==
    /\ main = "opening" /\ height = 0 /\ exit = "no"
    /\ server = [s \in Servers |-> "new"]
    /\ stopper = [s \in Servers |-> "new"]
    /\ orch = "waiting"
    /\ wg = 0
    /\ timedOut = FALSE /\ forced = FALSE
    /\ cancelled = FALSE /\ groupErr = FALSE
    /\ at = [r \in Requests |-> NoServer]
    /\ asked = {}
    /\ failed = {}
    /\ early = FALSE
-----------------------------------------------------------------------------
In(phase) == main = phase /\ exit = "no"

(* A store is opened; after the producer, signals are caught.              *)
Open ==
    /\ In("opening")
    /\ IF height < 4 THEN height' = height + 1 /\ main' = main
                     ELSE height' = height /\ main' = "serving"
    /\ UNCHANGED <<exit, server, stopper, orchestra, group, clients, history>>

(* A database or Redis cannot be reached: main returns.  The producer      *)
(* connects when it writes.                                                *)
OpenFails ==
    /\ In("opening") /\ height < 3
    /\ main' = "closing"
    /\ UNCHANGED <<height, exit, server, stopper, orchestra, group, clients, history>>

(* The deferred calls, the last store first.                               *)
Close ==
    /\ In("closing")
    /\ IF height > 0 THEN height' = height - 1 /\ exit' = exit
                     ELSE height' = height /\ exit' = "ok"
    /\ UNCHANGED <<main, server, stopper, orchestra, group, clients, history>>

(* SIGINT or SIGTERM: it cancels the context while it is caught, and kills *)
(* before that, and again after the deferred stop.                         *)
Signal ==
    \/ /\ In("serving") /\ ~cancelled
       /\ cancelled' = TRUE
       /\ UNCHANGED <<life, groupErr, server, stopper, orchestra, clients, history>>
    \/ /\ In("opening") \/ In("closing")
       /\ exit' = "killed"
       /\ UNCHANGED <<main, height, server, stopper, orchestra, group, clients, history>>
-----------------------------------------------------------------------------
ServedBy(s) == {r \in Requests : at[r] = s}

(* A goroutine of the group returns nil, or an error, which cancels.       *)
Returns(s, isError) ==
    /\ server' = [server EXCEPT ![s] = "returned"]
    /\ groupErr' = (groupErr \/ isError)
    /\ cancelled' = (cancelled \/ isError)
    /\ UNCHANGED <<life, stopper, orchestra, clients>>

ToldToStop(s) == stopper[s] # "new" \/ (s = Grpc /\ forced)

(* It can listen no more or not at all: the address is in use, or Accept   *)
(* fails.  ListenAndServe does not try when it was told to stop.           *)
CanFail(s) ==
    \/ server[s] = "new" /\ (s = Grpc \/ ~ToldToStop(s))
    \/ server[s] = "serving" /\ ~ToldToStop(s)

(* ListenAndServe of a server that was already shut down is told so, which *)
(* is no error here; Serve of a gRPC server that was stopped is an error.  *)
Start(s) ==
    /\ In("serving") /\ server[s] = "new"
    /\ \/ /\ ~ToldToStop(s)
          /\ server' = [server EXCEPT ![s] = "serving"]
          /\ UNCHANGED <<life, stopper, orchestra, group, clients, history>>
       \/ /\ ToldToStop(s)
          /\ Returns(s, s = Grpc)
          /\ early' = (early \/ s = Grpc)
          /\ UNCHANGED failed

(* Faulty: the goroutine returns nil whatever Serve returned.              *)
FailsSilently(s) ==
    /\ In("serving") /\ CanFail(s)
    /\ Returns(s, FALSE)
    /\ failed' = failed \cup {s}
    /\ UNCHANGED early

(* It returns the error.                                                   *)
Fails(s) ==
    /\ In("serving") /\ CanFail(s)
    /\ Returns(s, TRUE)
    /\ failed' = failed \cup {s}
    /\ UNCHANGED early

(* Serve of gRPC returns when the stop has ended.                          *)
ServeReturns ==
    /\ In("serving") /\ server[Grpc] = "serving"
    /\ stopper[Grpc] = "done" \/ forced
    /\ Returns(Grpc, FALSE)
    /\ UNCHANGED history
-----------------------------------------------------------------------------
(* Faulty: two of the goroutines are counted.                              *)
BeginWithTwo ==
    /\ In("serving") /\ cancelled /\ orch = "waiting"
    /\ orch' = "stopping"
    /\ wg' = 2
    /\ UNCHANGED <<life, server, stopper, timedOut, forced, group, clients, history>>

(* The orchestrator wakes up: wg.Add(3), and the five seconds begin.       *)
BeginShutdown ==
    /\ In("serving") /\ cancelled /\ orch = "waiting"
    /\ orch' = "stopping"
    /\ wg' = 3
    /\ UNCHANGED <<life, server, stopper, timedOut, forced, group, clients, history>>

(* Shutdown or GracefulStop is called; ListenAndServe returns.             *)
Stop(s) ==
    /\ exit = "no" /\ orch # "waiting" /\ stopper[s] = "new"
    /\ stopper' = [stopper EXCEPT ![s] = "stopping"]
    /\ server' = IF s \in HttpServers /\ server[s] = "serving"
                 THEN [server EXCEPT ![s] = "returned"] ELSE server
    /\ UNCHANGED <<life, orchestra, group, clients, history>>

(* It returns when nothing is in service; Shutdown also when its context   *)
(* ends, GracefulStop also when the server is stopped by force.            *)
Stopped(s) ==
    /\ exit = "no" /\ stopper[s] = "stopping"
    /\ \/ ServedBy(s) = {}
       \/ s \in HttpServers /\ timedOut
       \/ s = Grpc /\ forced
    /\ stopper' = [stopper EXCEPT ![s] = "done"]
    /\ wg' = wg - 1
    /\ UNCHANGED <<life, server, orch, timedOut, forced, group, clients, history>>

(* Five seconds have passed.                                               *)
TimeOut ==
    /\ In("serving") /\ orch = "stopping" /\ ~timedOut
    /\ timedOut' = TRUE
    /\ UNCHANGED <<life, server, stopper, orch, wg, forced, group, clients, history>>

(* Faulty: done is closed without waiting.                                 *)
DoneAtOnce ==
    /\ In("serving") /\ orch = "stopping"
    /\ orch' = "done"
    /\ UNCHANGED <<life, server, stopper, wg, timedOut, forced, group, clients, history>>

(* The select: done ...                                                    *)
AllStopped ==
    /\ In("serving") /\ orch = "stopping" /\ wg = 0
    /\ orch' = "done"
    /\ UNCHANGED <<life, server, stopper, wg, timedOut, forced, group, clients, history>>

(* Faulty: it gives up, and leaves the gRPC server as it is.               *)
GiveUp ==
    /\ In("serving") /\ orch = "stopping" /\ timedOut
    /\ orch' = "done"
    /\ UNCHANGED <<life, server, stopper, wg, timedOut, forced, group, clients, history>>

(* ... or the timeout, and grpcServer.Stop.                                *)
ForceStop ==
    /\ In("serving") /\ orch = "stopping" /\ timedOut
    /\ orch' = "done"
    /\ forced' = TRUE
    /\ UNCHANGED <<life, server, stopper, wg, timedOut, group, clients, history>>

(* g.Wait returns; os.Exit(1), or main begins to return.                   *)
Exit ==
    /\ In("serving") /\ orch = "done"
    /\ \A s \in Servers : server[s] = "returned"
    /\ IF groupErr THEN exit' = "failure" /\ main' = main
                   ELSE exit' = exit /\ main' = "closing"
    /\ UNCHANGED <<height, server, stopper, orchestra, group, clients, history>>
-----------------------------------------------------------------------------
InService == {r \in Requests : at[r] # NoServer}

(* A request comes to a server that is not being stopped ...               *)
Ask(r, s) ==
    /\ exit = "no" /\ r \notin asked
    /\ server[s] = "serving" /\ ~ToldToStop(s)
    /\ at' = [at EXCEPT ![r] = s]
    /\ asked' = asked \cup {r}
    /\ UNCHANGED <<life, server, stopper, orchestra, group, history>>

(* ... and is served, sooner or later or never, or becomes a web socket,   *)
(* which Shutdown does not wait for.                                       *)
Finish(r) ==
    /\ exit = "no" /\ at[r] # NoServer
    /\ at' = [at EXCEPT ![r] = NoServer]
    /\ UNCHANGED <<life, server, stopper, orchestra, group, asked, history>>

Group ==
    \/ \E s \in Servers : Start(s) \/ Stop(s) \/ Stopped(s)
    \/ ServeReturns \/ BeginShutdown \/ TimeOut \/ AllStopped \/ ForceStop \/ Exit

Next ==
    \/ Open \/ OpenFails \/ Close
    \/ Group
    \/ Signal
    \/ \E s \in Servers : Fails(s)
    \/ \E r \in Requests : Finish(r) \/ \E s \in Servers : Ask(r, s)

(* The producer and Redis are closed at once, but a database only when its *)
(* connections are free, which a request in service may be using.          *)
ClosesForSure == Close /\ (height > 2 \/ InService = {})

(* The goroutines run and time passes.  Nothing is said of the requests.   *)
Fairness ==
    /\ WF_vars(ServeReturns) /\ WF_vars(BeginShutdown) /\ WF_vars(TimeOut)
    /\ WF_vars(AllStopped) /\ WF_vars(ForceStop) /\ WF_vars(Exit)
    /\ WF_vars(ClosesForSure)
    /\ \A s \in Servers : WF_vars(Start(s)) /\ WF_vars(Stop(s)) /\ WF_vars(Stopped(s))

Spec == Init /\ [][Next]_vars /\ Fairness
-----------------------------------------------------------------------------
(* Within the five seconds no request is cut off, neither by the end of    *)
(* the process nor by the closing of a store that it may be using.  (The   *)
(* consumers and the goroutines that push to the sockets are not waited    *)
(* for, and end with the process; they are not part of this.)              *)
NothingIsCutOffInTime ==
    /\ main = "serving" => height = 4
    /\ main = "closing" \/ exit # "no" => timedOut \/ InService = {}

(* The process exits with 1 if a server failed, even when a signal came    *)
(* first; and with 0 if none did.  Two cases are as they are and not       *)
(* judged: a signal that stops gRPC before it serves is told as a failure  *)
(* (early), and a store that cannot be opened ends in 0.                   *)
ExitCodeTellsFailure ==
    exit # "no" => (exit = "failure" <=> failed # {} \/ early)

(* After a signal, or the failure of a server, the process exits, whatever *)
(* requests hang in any of the servers -- but for one that keeps main from *)
(* closing a database.                                                     *)
ProcessExits ==
    cancelled \/ failed # {} ~> exit # "no" \/ (main = "closing" /\ InService # {})
=============================================================================
