-------------------------- MODULE ServerShutdownProofs --------------------------
(***************************************************************************)
(* Proofs about ServerShutdown, for any number of requests and             *)
(* connections: the server uses the publisher only as RabbitPublisher      *)
(* says, so what is proved of the publisher holds of the server, and a     *)
(* clean shutdown leaves no connection behind.                             *)
(***************************************************************************)
EXTENDS ServerShutdown, RabbitPublisherProofs

\* Once every request has been seen off no handler runs again.
DrainedIsQuiet ==
  clean => phase \in {"closing", "stopping", "exited"}
           /\ \A g \in Goroutines : handler[g] = "none"

\* When the publisher has been closed with no handler left, it stays closed.
QuietIsClosed == clean /\ phase \in {"stopping", "exited"} => current = NoConn

\* The inductive invariant.  CleanExit needs the publisher's own invariant (an
\* open connection is cached, or somebody is installing it) and these two.
SInv ==
  /\ IInv
  /\ ServerTypeOK
  /\ DrainedIsQuiet
  /\ QuietIsClosed

-----------------------------------------------------------------------------
(* The publisher inside the server *)

LEMMA ServerStep == [ServerNext]_serverVars => [Next]_vars
<1> SUFFICES ASSUME [ServerNext]_serverVars PROVE [Next]_vars
  OBVIOUS
<1>1. ASSUME NEW g \in Goroutines, StartPublish(g) \/ PublishStep(g) PROVE Next
  BY <1>1 DEF StartPublish, PublishStep, Next
<1>2. ASSUME NEW g \in Goroutines, Accept(g) \/ UseStore(g) \/ LeaveStore(g) \/ Finish(g)
      PROVE UNCHANGED vars
  BY <1>2 DEF Accept, UseStore, LeaveStore, Finish, Become
<1>3. ASSUME NEW c \in Conns, LoseConnection(c) PROVE Next
  BY <1>3 DEF LoseConnection, Next
<1>4. ASSUME Signal \/ Drained \/ GiveUp \/ Exit PROVE UNCHANGED vars
  BY <1>4 DEF Signal, Drained, GiveUp, Exit
<1>5. ASSUME ClosePublisher PROVE Next \/ UNCHANGED vars
  BY <1>5 DEF ClosePublisher, Next
<1>6. CASE UNCHANGED serverVars
  BY <1>6 DEF serverVars
<1> QED
  BY <1>1, <1>2, <1>3, <1>4, <1>5, <1>6 DEF ServerNext, RequestStep, MainStep

\* The server never uses the publisher in a way that RabbitPublisher does not
\* know: main closes it once, handlers publish (main.go:41-107).
THEOREM PublisherInside == ServerSpec => Spec
<1>1. ServerInit => Init
  BY DEF ServerInit
<1> QED
  BY <1>1, ServerStep, PTL DEF ServerSpec, Spec

-----------------------------------------------------------------------------
(* The invariant *)

LEMMA ServerInitSInv == ServerInit => SInv
<1> SUFFICES ASSUME ServerInit PROVE SInv
  OBVIOUS
<1>1. IInv
  BY InitIInv DEF ServerInit
<1>2. ServerTypeOK
  BY <1>1 DEF IInv, ServerTypeOK, ServerInit, Phases, Running, Init
<1>3. DrainedIsQuiet /\ QuietIsClosed
  BY DEF ServerInit, DrainedIsQuiet, QuietIsClosed
<1> QED
  BY <1>1, <1>2, <1>3 DEF SInv

\* A step of g in Publish: only a handler that works takes one.
LEMMA StepRuns ==
  ASSUME NEW g \in Goroutines, Step(g)
  PROVE  Running(g) /\ \A h \in Goroutines : h # g /\ Running(h)' => Running(h)
<1>1. Running(g)
  BY DEF Step, UseCached, Discard, Dial, DialFails, SetUp, SetUpFails, Install,
         Send, SendFails, Reset, Return, Running
<1>2. \E label : pc' = [pc EXCEPT ![g] = label]
  BY DEF Step, UseCached, Discard, Dial, DialFails, SetUp, SetUpFails, Install,
         Send, SendFails, Reset, Return, Goto, Fail
<1>3. \A h \in Goroutines : h # g /\ Running(h)' => Running(h)
  BY <1>2 DEF Running
<1> QED
  BY <1>1, <1>3

LEMMA ServerNextSInv == SInv /\ [ServerNext]_serverVars => SInv'
<1> SUFFICES ASSUME SInv, [ServerNext]_serverVars PROVE SInv'
  OBVIOUS
<1>1. IInv' /\ TypeOK'
  BY ServerStep, NextIInv DEF SInv, IInv
<1> SUFFICES (ServerTypeOK /\ DrainedIsQuiet /\ QuietIsClosed)'
  BY <1>1 DEF SInv
<1> USE <1>1 DEF SInv, ServerTypeOK, Phases, DrainedIsQuiet, QuietIsClosed
<1>2. ASSUME NEW g \in Goroutines, Accept(g) \/ UseStore(g) \/ LeaveStore(g) \/ Finish(g)
      PROVE (ServerTypeOK /\ DrainedIsQuiet /\ QuietIsClosed)'
  BY <1>2 DEF Accept, UseStore, LeaveStore, Finish, Become, Running, vars
<1>3. ASSUME NEW g \in Goroutines, StartPublish(g)
      PROVE (ServerTypeOK /\ DrainedIsQuiet /\ QuietIsClosed)'
  BY <1>3 DEF StartPublish, Begin, Goto, Running, mainVars, IInv, TypeOK
<1>4. ASSUME NEW g \in Goroutines, PublishStep(g)
      PROVE (ServerTypeOK /\ DrainedIsQuiet /\ QuietIsClosed)'
  <2>1. handler[g] = "working" /\ ~clean
    BY <1>4, StepRuns DEF PublishStep
  <2> QED
    BY <1>4, <2>1, StepRuns DEF PublishStep, mainVars
<1>5. ASSUME NEW c \in Conns, LoseConnection(c)
      PROVE (ServerTypeOK /\ DrainedIsQuiet /\ QuietIsClosed)'
  BY <1>5 DEF LoseConnection, Lose, mainVars, Running
<1>6. ASSUME Signal \/ Drained \/ GiveUp \/ Exit
      PROVE (ServerTypeOK /\ DrainedIsQuiet /\ QuietIsClosed)'
  <2>1. UNCHANGED <<pc, current, handler>> /\ \A g \in Goroutines : Running(g)' = Running(g)
    BY <1>6 DEF Signal, Drained, GiveUp, Exit, vars, Running
  <2>2. CASE Signal
    BY <2>1, <2>2 DEF Signal, Enter
  <2>3. CASE Drained
    BY <2>1, <2>3 DEF Drained, Enter
  <2>4. CASE GiveUp
    BY <2>1, <2>4 DEF GiveUp, Enter
  <2>5. CASE Exit
    BY <2>1, <2>5 DEF Exit, Enter
  <2> QED
    BY <1>6, <2>2, <2>3, <2>4, <2>5
<1>7. ASSUME ClosePublisher
      PROVE (ServerTypeOK /\ DrainedIsQuiet /\ QuietIsClosed)'
  BY <1>7 DEF ClosePublisher, Enter, Close, CloseLocked, vars, Running
<1>8. CASE UNCHANGED serverVars
  BY <1>8 DEF serverVars, mainVars, vars, Running
<1> QED
  BY <1>2, <1>3, <1>4, <1>5, <1>6, <1>7, <1>8 DEF ServerNext, RequestStep, MainStep

\* The inductive invariant of the server holds in every reachable state.
THEOREM ServerInvariant == ServerSpec => []SInv
  BY ServerInitSInv, ServerNextSInv, PTL DEF ServerSpec

\* Every variable of the server keeps its type, and only a working handler
\* publishes (main.go:41-110).
THEOREM ServerTypeCorrect == ServerSpec => []ServerTypeOK
<1>1. SInv => ServerTypeOK
  BY DEF SInv
<1> QED
  BY <1>1, ServerInvariant, PTL

\* A shutdown that saw every request off leaves no connection open
\* (main.go:103-109).
THEOREM CleanExitLeavesNothing == ServerSpec => []CleanExit
<1>1. SInv => CleanExit
  <2> SUFFICES ASSUME SInv, clean, phase \in {"stopping", "exited"}
               PROVE  (\A c \in Conns : ~Alive(c)) /\ \A g \in Goroutines : ~Running(g)
    BY DEF CleanExit
  <2>1. \A g \in Goroutines : ~Running(g)
    BY DEF SInv, ServerTypeOK, DrainedIsQuiet
  <2>2. ASSUME NEW c \in Conns, Alive(c) PROVE FALSE
    <3>1. current = NoConn
      BY DEF SInv, QuietIsClosed
    <3>2. mu # Free /\ pc[mu] \in {"setUp", "install"}
      BY <2>2, <3>1, NoConnAssumption DEF SInv, IInv, NoConnectionLeaked
    <3>3. mu \in Goroutines
      BY <3>2 DEF SInv, IInv, TypeOK
    <3> QED
      BY <2>1, <3>2, <3>3 DEF Running
  <2> QED
    BY <2>1, <2>2
<1> QED
  BY <1>1, ServerInvariant, PTL
=============================================================================
