--------------------------- MODULE ShutdownProofs ---------------------------
(***************************************************************************)
(* Of the life of the process, for any requests: types, that nothing is    *)
(* cut off within the five seconds, and that the exit code tells whether a *)
(* server failed.                                                          *)
(*                                                                         *)
(* The counter of the WaitGroup is the number of servers that have not     *)
(* been stopped (Counts); when it is zero, all were stopped, and each had  *)
(* nothing in service or had used up the five seconds (Stops).  The group  *)
(* has an error if and only if a server returned one (Errors).             *)
(***************************************************************************)
EXTENDS Shutdown, TLAPS, FiniteSetTheorems

Left == {s \in Servers : stopper[s] # "done"}

NothingStarted ==
    /\ orch = "waiting" /\ ~groupErr /\ ~cancelled
    /\ \A s \in Servers : server[s] = "new"
    /\ \A r \in Requests : at[r] = NoServer

Phases ==
    /\ main = "opening" => NothingStarted /\ exit \in {"no", "killed"}
    /\ main = "serving" => height = 4 /\ exit \in {"no", "failure"}
    /\ main = "closing" => NothingStarted \/ orch = "done"
    /\ main = "closing" => ~groupErr /\ exit # "failure"
    /\ main = "closing" => \A s \in Servers : server[s] # "serving"
    /\ exit = "failure" => groupErr /\ orch = "done"

Errors == groupErr <=> failed # {} \/ early

Counts ==
    /\ orch = "waiting" => wg = 0 /\ ~forced /\ \A s \in Servers : stopper[s] = "new"
    /\ orch # "waiting" => wg = Cardinality(Left)

Stops ==
    /\ forced => timedOut
    /\ orch = "done" => timedOut \/ Left = {}
    /\ \A s \in Servers : stopper[s] = "done" => timedOut \/ ServedBy(s) = {}

ShutdownInv == ShutdownTypeOK /\ Phases /\ Errors /\ Counts /\ Stops

(* There are three servers.                                                *)
LEMMA ThreeServers == IsFiniteSet(Servers) /\ Cardinality(Servers) = 3
BY FS_AddElement, ShutdownAssumption DEF Servers

(* Those that are left are at most three.                                  *)
LEMMA LeftAreFew == IsFiniteSet(Left) /\ Cardinality(Left) \in 0..3
<1>1. Left \in SUBSET Servers
  BY DEF Left
<1> QED  BY <1>1, ThreeServers, FS_Subset, FS_CardinalityType

(* At the start nothing has begun.                                         *)
LEMMA ShutdownInit == Init => ShutdownInv
<1> SUFFICES ASSUME Init PROVE  ShutdownInv
  OBVIOUS
<1> USE DEF Init
<1>1. ShutdownTypeOK
  <2>1. server \in [Servers -> {"new", "serving", "returned"}]
    OBVIOUS
  <2>2. stopper \in [Servers -> {"new", "stopping", "done"}]
    OBVIOUS
  <2>3. at \in [Requests -> Servers \cup {NoServer}]
    OBVIOUS
  <2>4. height \in Heights /\ wg \in 0..3
    BY DEF Heights
  <2>5. /\ timedOut \in BOOLEAN /\ forced \in BOOLEAN
        /\ cancelled \in BOOLEAN /\ groupErr \in BOOLEAN /\ early \in BOOLEAN
    OBVIOUS
  <2> QED  BY <2>1, <2>2, <2>3, <2>4, <2>5 DEF ShutdownTypeOK
<1>2. Phases /\ Errors
  BY DEF Phases, NothingStarted, Errors
<1>3. Counts /\ Stops
  BY DEF Counts, Stops
<1> QED  BY <1>1, <1>2, <1>3 DEF ShutdownInv
-----------------------------------------------------------------------------
(* Every step keeps the types; the counter is decreased only for a server  *)
(* that is still left, and so is not zero.                                 *)
LEMMA ShutdownTypes ==
    ShutdownInv /\ [Next]_vars => ShutdownTypeOK'
<1> SUFFICES ASSUME ShutdownInv, [Next]_vars PROVE  ShutdownTypeOK'
  OBVIOUS
<1> USE ShutdownAssumption
        DEF ShutdownInv, ShutdownTypeOK, life, orchestra, group, clients, history
<1>1. CASE Open \/ OpenFails \/ Close
  BY <1>1 DEF Open, OpenFails, Close, In, Heights
<1>2. CASE Signal
  BY <1>2 DEF Signal, In
<1>3. ASSUME NEW s \in Servers, Fails(s) PROVE  ShutdownTypeOK'
  BY <1>3 DEF Fails, Returns
<1>4. ASSUME NEW s \in Servers, Start(s) PROVE  ShutdownTypeOK'
  BY <1>4 DEF Start, Returns
<1>5. ASSUME NEW s \in Servers, Stop(s) PROVE  ShutdownTypeOK'
  BY <1>5 DEF Stop
<1>6. ASSUME NEW s \in Servers, Stopped(s) PROVE  ShutdownTypeOK'
  <2>1. s \in Left /\ orch # "waiting" /\ wg = Cardinality(Left)
    BY <1>6 DEF Stopped, Left, Counts
  <2>2. wg # 0
    BY <2>1, LeftAreFew, FS_EmptySet
  <2>3. wg' \in 0..3
    BY <1>6, <2>2 DEF Stopped
  <2> QED  BY <1>6, <2>3 DEF Stopped
<1>7. CASE ServeReturns
  BY <1>7 DEF ServeReturns, Returns, Servers
<1>8. CASE BeginShutdown \/ TimeOut \/ AllStopped \/ ForceStop
  <2>1. timedOut' \in BOOLEAN /\ forced' \in BOOLEAN
    BY <1>8 DEF BeginShutdown, TimeOut, AllStopped, ForceStop
  <2> QED  BY <1>8, <2>1 DEF BeginShutdown, TimeOut, AllStopped, ForceStop
<1>9. CASE Exit
  BY <1>9 DEF Exit
<1>10. ASSUME NEW r \in Requests, Finish(r) PROVE  ShutdownTypeOK'
  BY <1>10 DEF Finish
<1>11. ASSUME NEW r \in Requests, NEW s \in Servers, Ask(r, s) PROVE  ShutdownTypeOK'
  BY <1>11 DEF Ask
<1>12. CASE UNCHANGED vars
  BY <1>12 DEF vars
<1> QED
  BY <1>1, <1>2, <1>3, <1>4, <1>5, <1>6, <1>7, <1>8, <1>9, <1>10, <1>11, <1>12
  DEF Next, Group
-----------------------------------------------------------------------------
(* The phases of main: nothing starts before it serves, and it closes only *)
(* when nothing was started or the orchestrator is done.                   *)
LEMMA PhasesStep ==
    ShutdownInv /\ [Next]_vars => Phases'
<1> SUFFICES ASSUME ShutdownInv, [Next]_vars PROVE  Phases'
  OBVIOUS
<1> USE DEF ShutdownInv, Phases, NothingStarted, life, orchestra, group, clients, history
<1>1. CASE Open \/ OpenFails \/ Close
  BY <1>1 DEF Open, OpenFails, Close, In, ShutdownTypeOK, Heights
<1>2. CASE Signal
  BY <1>2 DEF Signal, In
<1>3. ASSUME NEW s \in Servers, Fails(s) PROVE  Phases'
  BY <1>3 DEF Fails, Returns, In
<1>4. ASSUME NEW s \in Servers, Start(s) PROVE  Phases'
  BY <1>4 DEF Start, Returns, In
<1>5. ASSUME NEW s \in Servers, Stop(s) PROVE  Phases'
  BY <1>5 DEF Stop, ShutdownTypeOK
<1>6. ASSUME NEW s \in Servers, Stopped(s) PROVE  Phases'
  BY <1>6 DEF Stopped
<1>7. CASE ServeReturns
  BY <1>7 DEF ServeReturns, Returns, In
<1>8. CASE BeginShutdown \/ TimeOut \/ AllStopped \/ ForceStop
  BY <1>8 DEF BeginShutdown, TimeOut, AllStopped, ForceStop, In
<1>9. CASE Exit
  BY <1>9 DEF Exit, In
<1>10. ASSUME NEW r \in Requests, Finish(r) PROVE  Phases'
  BY <1>10 DEF Finish, ShutdownTypeOK
<1>11. ASSUME NEW r \in Requests, NEW s \in Servers, Ask(r, s) PROVE  Phases'
  BY <1>11 DEF Ask
<1>12. CASE UNCHANGED vars
  BY <1>12 DEF vars
<1> QED
  BY <1>1, <1>2, <1>3, <1>4, <1>5, <1>6, <1>7, <1>8, <1>9, <1>10, <1>11, <1>12
  DEF Next, Group

(* The group has an error when, and only when, a server returned one.      *)
LEMMA ErrorsStep ==
    ShutdownInv /\ [Next]_vars => Errors'
<1> SUFFICES ASSUME ShutdownInv, [Next]_vars PROVE  Errors'
  OBVIOUS
<1> USE DEF ShutdownInv, ShutdownTypeOK, Errors, life, orchestra, group, clients, history
<1>1. ASSUME NEW s \in Servers, Fails(s) PROVE  Errors'
  BY <1>1 DEF Fails, Returns
<1>2. ASSUME NEW s \in Servers, Start(s) PROVE  Errors'
  BY <1>2 DEF Start, Returns
<1>3. CASE ServeReturns
  BY <1>3 DEF ServeReturns, Returns
<1>4. CASE Signal
  BY <1>4 DEF Signal
<1>5. ASSUME UNCHANGED <<groupErr, history>> PROVE  Errors'
  BY <1>5
<1>6. ASSUME NEW s \in Servers, Stop(s) \/ Stopped(s)
      PROVE  UNCHANGED <<groupErr, history>>
  BY <1>6 DEF Stop, Stopped
<1>7. ASSUME NEW r \in Requests, Finish(r) \/ \E s \in Servers : Ask(r, s)
      PROVE  UNCHANGED <<groupErr, history>>
  BY <1>7 DEF Finish, Ask
<1>8. ASSUME \/ Open \/ OpenFails \/ Close \/ BeginShutdown \/ TimeOut \/ AllStopped
             \/ ForceStop \/ Exit \/ UNCHANGED vars
      PROVE  UNCHANGED <<groupErr, history>>
  BY <1>8 DEF Open, OpenFails, Close, BeginShutdown, TimeOut, AllStopped, ForceStop, Exit, vars
<1> QED  BY <1>1, <1>2, <1>3, <1>4, <1>5, <1>6, <1>7, <1>8 DEF Next, Group
-----------------------------------------------------------------------------
(* The counter of the WaitGroup counts the servers that are left.          *)
LEMMA CountsStep ==
    ShutdownInv /\ [Next]_vars => Counts'
<1> SUFFICES ASSUME ShutdownInv, [Next]_vars PROVE  Counts'
  OBVIOUS
<1> USE DEF ShutdownInv, Counts, life, orchestra, group, clients, history
<1>1. ASSUME UNCHANGED <<orch, wg, forced, stopper>> PROVE  Counts'
  BY <1>1 DEF Left
<1>2. CASE BeginShutdown
  <2>1. Left = Servers /\ Left' = Left
    BY <1>2 DEF BeginShutdown, Left
  <2>2. Cardinality(Left)' = 3
    BY <2>1, ThreeServers
  <2> QED  BY <1>2, <2>2 DEF BeginShutdown
<1>3. ASSUME NEW s \in Servers, Stop(s) PROVE  Counts'
  <2>1. Left' = Left
    BY <1>3 DEF Stop, Left, ShutdownTypeOK
  <2>2. orch # "waiting" /\ UNCHANGED <<orch, wg>>
    BY <1>3 DEF Stop
  <2> QED  BY <2>1, <2>2
<1>4. ASSUME NEW s \in Servers, Stopped(s) PROVE  Counts'
  <2>1. s \in Left /\ Left' = Left \ {s}
    BY <1>4 DEF Stopped, Left, ShutdownTypeOK
  <2>2. Cardinality(Left)' = Cardinality(Left) - 1
    BY <2>1, LeftAreFew, FS_RemoveElement
  <2>3. orch # "waiting" /\ orch' = orch /\ wg' = wg - 1
    BY <1>4 DEF Stopped
  <2> QED  BY <2>2, <2>3
<1>5. ASSUME AllStopped \/ ForceStop PROVE  Counts'
  BY <1>5 DEF AllStopped, ForceStop, Left
<1>6. ASSUME NEW s \in Servers, Fails(s) \/ Start(s)
      PROVE  UNCHANGED <<orch, wg, forced, stopper>>
  BY <1>6 DEF Fails, Start, Returns
<1>7. ASSUME NEW r \in Requests, Finish(r) \/ \E s \in Servers : Ask(r, s)
      PROVE  UNCHANGED <<orch, wg, forced, stopper>>
  BY <1>7 DEF Finish, Ask
<1>8. ASSUME \/ Open \/ OpenFails \/ Close \/ Signal \/ ServeReturns \/ TimeOut \/ Exit
             \/ UNCHANGED vars
      PROVE  UNCHANGED <<orch, wg, forced, stopper>>
  BY <1>8 DEF Open, OpenFails, Close, Signal, ServeReturns, Returns, TimeOut, Exit, vars
<1> QED  BY <1>1, <1>2, <1>3, <1>4, <1>5, <1>6, <1>7, <1>8 DEF Next, Group

(* A server that was stopped serves nothing, unless the time is over.      *)
LEMMA StopsStep ==
    ShutdownInv /\ [Next]_vars => Stops'
<1> SUFFICES ASSUME ShutdownInv, [Next]_vars PROVE  Stops'
  OBVIOUS
<1> USE DEF ShutdownInv, ShutdownTypeOK, Stops, Left, ServedBy, life, orchestra, group,
            clients, history
<1>1. ASSUME UNCHANGED <<orch, timedOut, forced, stopper, at>> PROVE  Stops'
  BY <1>1
<1>2. CASE BeginShutdown \/ TimeOut \/ ForceStop
  BY <1>2 DEF BeginShutdown, TimeOut, ForceStop
<1>3. CASE AllStopped
  <2>1. Cardinality(Left) = 0
    BY <1>3 DEF AllStopped, Counts
  <2>2. Left = {}
    BY <2>1, LeftAreFew, FS_EmptySet
  <2> QED  BY <1>3, <2>2 DEF AllStopped
<1>4. ASSUME NEW s \in Servers, Stop(s) PROVE  Stops'
  BY <1>4 DEF Stop
<1>5. ASSUME NEW s \in Servers, Stopped(s) PROVE  Stops'
  BY <1>5 DEF Stopped
<1>6. ASSUME NEW r \in Requests, Finish(r) PROVE  Stops'
  BY <1>6, ShutdownAssumption DEF Finish
<1>7. ASSUME NEW r \in Requests, NEW s \in Servers, Ask(r, s) PROVE  Stops'
  BY <1>7 DEF Ask, ToldToStop
<1>8. ASSUME NEW s \in Servers, Fails(s) \/ Start(s)
      PROVE  UNCHANGED <<orch, timedOut, forced, stopper, at>>
  BY <1>8 DEF Fails, Start, Returns
<1>9. ASSUME \/ Open \/ OpenFails \/ Close \/ Signal \/ ServeReturns \/ Exit
             \/ UNCHANGED vars
      PROVE  UNCHANGED <<orch, timedOut, forced, stopper, at>>
  BY <1>9 DEF Open, OpenFails, Close, Signal, ServeReturns, Returns, Exit, vars
<1> QED  BY <1>1, <1>2, <1>3, <1>4, <1>5, <1>6, <1>7, <1>8, <1>9 DEF Next, Group
-----------------------------------------------------------------------------
(* The invariant of the process.                                           *)
THEOREM ShutdownInvariant == Spec => []ShutdownInv
<1>1. ShutdownInv /\ [Next]_vars => ShutdownInv'
  BY ShutdownTypes, PhasesStep, ErrorsStep, CountsStep, StopsStep DEF ShutdownInv
<1> QED  BY ShutdownInit, <1>1, PTL DEF Spec

(* The variables of the process have their types: the counter of the       *)
(* WaitGroup never goes below zero, which would be a panic.                *)
THEOREM ShutdownTypeCorrect == Spec => []ShutdownTypeOK
<1>1. ShutdownInv => ShutdownTypeOK
  BY DEF ShutdownInv
<1> QED  BY <1>1, ShutdownInvariant, PTL

(* Neither the end of the process nor the closing of a store cuts off a    *)
(* request, unless the five seconds are over.                              *)
THEOREM RequestsAreNotCutOff == Spec => []NothingIsCutOffInTime
<1>1. ShutdownInv => NothingIsCutOffInTime
  <2> SUFFICES ASSUME ShutdownInv PROVE  NothingIsCutOffInTime
    OBVIOUS
  <2>1. main = "serving" => height = 4
    BY DEF ShutdownInv, Phases
  <2>2. ASSUME main = "closing" \/ exit # "no" PROVE  NothingStarted \/ orch = "done"
    BY <2>2 DEF ShutdownInv, ShutdownTypeOK, Phases
  <2>3. NothingStarted => InService = {}
    BY DEF NothingStarted, InService
  <2>4. ASSUME orch = "done", ~timedOut PROVE  InService = {}
    <3>1. \A s \in Servers : ServedBy(s) = {}
      BY <2>4 DEF ShutdownInv, Stops, Left
    <3> QED  BY <3>1 DEF ShutdownInv, ShutdownTypeOK, ServedBy, InService
  <2> QED  BY <2>1, <2>2, <2>3, <2>4 DEF NothingIsCutOffInTime, ShutdownInv, ShutdownTypeOK
<1> QED  BY <1>1, ShutdownInvariant, PTL

(* The process exits with 1 if and only if a server failed, or gRPC was    *)
(* stopped before it served.                                               *)
THEOREM ExitCodesAreRight == Spec => []ExitCodeTellsFailure
<1>1. ShutdownInv => ExitCodeTellsFailure
  BY DEF ShutdownInv, ShutdownTypeOK, Phases, NothingStarted, Errors, ExitCodeTellsFailure
<1> QED  BY <1>1, ShutdownInvariant, PTL
=============================================================================
