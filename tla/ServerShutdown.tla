---------------------------- MODULE ServerShutdown ----------------------------
(***************************************************************************)
(* The end of a server process: main of go/cmd/server/main.go, with the    *)
(* requests that are in progress when the signal comes.  The module        *)
(* composes main with the event publisher of RabbitPublisher; a goroutine  *)
(* of Goroutines serves one request at a time, uses the database, and      *)
(* publishes.                                                              *)
(*                                                                         *)
(* main waits for the requests, but not for ever: after 30 seconds it goes *)
(* on, closes the publisher under the requests that are left, and then the *)
(* database pool, which waits until its connections are returned.          *)
(*                                                                         *)
(* http.Server.Shutdown and pgxpool.Pool.Close are external: the first     *)
(* stops accepting and returns when no request is in progress or when its  *)
(* context ends, the second refuses new users and waits for the others.    *)
(***************************************************************************)
EXTENDS RabbitPublisher

VARIABLES
  phase,      \* where main is
  handler,    \* handler[g]: "none" if g serves no request, "querying" if it
              \* holds a connection of the pool, else "working"
  clean       \* has Shutdown seen every request off?

mainVars == <<phase, handler, clean>>

serverVars == <<vars, mainVars>>

Phases == {"serving", "draining", "closing", "stopping", "exited"}

ServerTypeOK ==
  /\ TypeOK
  /\ phase \in Phases
  /\ handler \in [Goroutines -> {"none", "working", "querying"}]
  /\ clean \in BOOLEAN
  /\ \A g \in Goroutines : Running(g) => handler[g] = "working"

ServerInit ==
  /\ Init
  /\ phase = "serving"
  /\ handler = [g \in Goroutines |-> "none"]
  /\ clean = FALSE

-----------------------------------------------------------------------------
(* Requests.  Until the process exits they go on, whatever main does. *)

Become(g, state) ==
  /\ phase # "exited"
  /\ handler' = [handler EXCEPT ![g] = state]
  /\ UNCHANGED <<vars, phase, clean>>

\* The listener is open: a request comes in.
Accept(g) ==
  /\ phase = "serving"
  /\ handler[g] = "none"
  /\ Become(g, "working")

\* A query or a transaction takes a connection from the pool ...
UseStore(g) ==
  /\ handler[g] = "working" /\ ~Running(g)
  /\ phase # "stopping"
  /\ Become(g, "querying")

\* ... and gives it back.
LeaveStore(g) ==
  /\ handler[g] = "querying"
  /\ Become(g, "working")

\* The handler publishes an event ...
StartPublish(g) ==
  /\ phase # "exited"
  /\ handler[g] = "working"
  /\ Begin(g)
  /\ UNCHANGED mainVars

\* ... as RabbitPublisher does.
PublishStep(g) ==
  /\ phase # "exited"
  /\ Step(g)
  /\ UNCHANGED mainVars

\* The answer is written.
Finish(g) ==
  /\ handler[g] = "working" /\ ~Running(g)
  /\ Become(g, "none")

-----------------------------------------------------------------------------
(* main *)

Enter(next) == phase' = next

\* SIGINT or SIGTERM: Shutdown closes the listener.
Signal ==
  /\ phase = "serving"
  /\ Enter("draining")
  /\ UNCHANGED <<vars, handler, clean>>

\* Mutant: server.Close, which does not wait for requests.
Drained_Close ==
  /\ phase = "draining"
  /\ Enter("closing")
  /\ clean' = TRUE
  /\ UNCHANGED <<vars, handler>>

\* Shutdown returns: no request is in progress.
Drained ==
  /\ phase = "draining"
  /\ \A g \in Goroutines : handler[g] = "none"
  /\ Enter("closing")
  /\ clean' = TRUE
  /\ UNCHANGED <<vars, handler>>

\* The 30 seconds are over: the error is logged and main goes on.
GiveUp ==
  /\ phase = "draining"
  /\ Enter("closing")
  /\ UNCHANGED <<vars, handler, clean>>

\* publisher.Close, when it gets mu; then main returns, and its deferred
\* store.Close closes the pool to new users.
ClosePublisher ==
  /\ phase = "closing"
  /\ \/ Close
     \/ mu = Free /\ current = NoConn /\ UNCHANGED vars
  /\ Enter("stopping")
  /\ UNCHANGED <<handler, clean>>

\* Every connection of the pool is back: store.Close returns, the process ends,
\* and with it every goroutine.
Exit ==
  /\ phase = "stopping"
  /\ \A g \in Goroutines : handler[g] # "querying"
  /\ Enter("exited")
  /\ UNCHANGED <<vars, handler, clean>>

LoseConnection(c) ==
  /\ phase # "exited"
  /\ Lose(c)
  /\ UNCHANGED mainVars

RequestStep(g) == LeaveStore(g) \/ PublishStep(g) \/ Finish(g)

MainStep == Drained \/ GiveUp \/ ClosePublisher \/ Exit

ServerNext ==
  \/ \E g \in Goroutines :
       Accept(g) \/ UseStore(g) \/ StartPublish(g) \/ RequestStep(g)
  \/ \E c \in Conns : LoseConnection(c)
  \/ Signal \/ MainStep

\* The database answers, and sync.Mutex hands itself to a goroutine that has
\* waited long enough: whoever can go on again and again does.  main waits for
\* time, for mu and for the pool; nothing makes a signal come.
ServerFairness ==
  /\ \A g \in Goroutines : SF_serverVars(RequestStep(g))
  /\ SF_serverVars(MainStep)

ServerSpec == ServerInit /\ [][ServerNext]_serverVars /\ ServerFairness
-----------------------------------------------------------------------------
(* Properties *)

\* When Shutdown has seen every request off, the process leaves nothing behind:
\* once the publisher is closed nobody dials again, so no connection stays open
\* (main.go:103-109).
CleanExit ==
  clean /\ phase \in {"stopping", "exited"} =>
    /\ \A c \in Conns : ~Alive(c)
    /\ \A g \in Goroutines : ~Running(g)

\* A signal ends the process, whatever the requests are doing: neither a
\* goroutine that dials with mu held nor one that holds a connection of the
\* pool keeps main for ever (main.go:95-109, publisher.go:293-344).
ShutdownEnds == phase = "draining" ~> phase = "exited"

\* Every publish returns, whatever becomes of the connection, unless the
\* process ends first (publisher.go:266-344).
PublishReturns ==
  \A g \in Goroutines : Running(g) ~> ~Running(g) \/ phase = "exited"
=============================================================================
