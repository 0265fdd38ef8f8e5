---------------------------- MODULE RabbitPublisher ----------------------------
(***************************************************************************)
(* The event publisher of go/internal/events/publisher.go: goroutines that *)
(* call Publish on one RabbitPublisher, which caches a connection and its  *)
(* channel, dials when there is none, and resets the cache when a publish  *)
(* fails.  mu guards the cache (ensureChannel, reset, Close) but not the   *)
(* use of the channel: that happens after mu is released.                  *)
(*                                                                         *)
(* The broker and the AMQP library are external.  A connection is one      *)
(* element of Conns with its one channel; the channel may be closed by the *)
(* broker, or lost with the connection.  Of the library the model uses     *)
(* that closing a lost connection returns an error and that publishing on  *)
(* a channel that is not open does too.                                    *)
(***************************************************************************)
EXTENDS FiniteSets

CONSTANTS Goroutines,   \* the callers of Publish
          Conns,        \* the connections that may ever be dialled (a bound)
          NoConn,       \* no connection
          Free          \* nobody holds mu

ASSUME NoConnAssumption == NoConn \notin Conns
ASSUME FreeAssumption == Free \notin Goroutines

VARIABLES
  mu,         \* the holder of the mutex
  current,    \* p.conn and p.channel
  link,       \* link[c]: what has become of connection c and its channel
  pc,         \* pc[g]: where g is in Publish
  channel,    \* channel[g]: the channel that ensureChannel has returned to g
  result,     \* result[g]: what Publish is about to return
  excused,    \* history: excused[g] if something may have spoilt g's publish
  unnoticed   \* history: was a channel lost since the last publish began?

vars == <<mu, current, link, pc, channel, result, excused, unnoticed>>

Links == {"unused", "open", "channelLost", "connLost", "closed"}

PCs == {"idle", "ensure", "dial", "setUp", "install", "send", "reset", "return"}

\* Types; and whoever dials, sets up or installs holds mu, and nobody else does
\* between steps (publisher.go:299-338).
TypeOK ==
  /\ mu \in Goroutines \cup {Free}
  /\ current \in Conns \cup {NoConn}
  /\ link \in [Conns -> Links]
  /\ pc \in [Goroutines -> PCs]
  /\ channel \in [Goroutines -> Conns \cup {NoConn}]
  /\ result \in [Goroutines -> {"none", "ok", "error"}]
  /\ excused \in [Goroutines -> BOOLEAN]
  /\ unnoticed \in BOOLEAN
  /\ \A g \in Goroutines : mu = g <=> pc[g] \in {"dial", "setUp", "install"}
  /\ \A g \in Goroutines : pc[g] \in {"setUp", "install", "send"} => channel[g] # NoConn

Init ==
  /\ mu = Free
  /\ current = NoConn
  /\ link = [c \in Conns |-> "unused"]
  /\ pc = [g \in Goroutines |-> "idle"]
  /\ channel = [g \in Goroutines |-> NoConn]
  /\ result = [g \in Goroutines |-> "none"]
  /\ excused = [g \in Goroutines |-> FALSE]
  /\ unnoticed = FALSE

Goto(g, label) == pc' = [pc EXCEPT ![g] = label]

\* Publish will return an error.
Fail(g) ==
  /\ Goto(g, "return")
  /\ result' = [result EXCEPT ![g] = "error"]

\* The connection (as opposed to its channel) still stands.
Alive(c) == link[c] \in {"open", "channelLost"}

Running(g) == pc[g] # "idle"

\* Something happens that may spoil every publish that is running.
ExcuseRunning == excused' = [g \in Goroutines |-> excused[g] \/ Running(g)]

\* Publish marshals the envelope and enters ensureChannel.  Its failure is
\* excused from the start if others are running, which are excused from now on,
\* or if it is the first to begin after a loss.
Begin(g) ==
  /\ pc[g] = "idle"
  /\ Goto(g, "ensure")
  /\ excused' = [h \in Goroutines |->
       IF h = g THEN unnoticed \/ \E q \in Goroutines : Running(q)
                ELSE excused[h] \/ Running(h)]
  /\ unnoticed' = FALSE
  /\ UNCHANGED <<mu, current, link, channel, result>>

\* p.channel is there and is open.
CachedIsOpen == \E c \in Conns : c = current /\ link[c] = "open"

\* ensureChannel, first part: the cached channel is open and is returned.
UseCached(g) ==
  /\ pc[g] = "ensure" /\ mu = Free
  /\ CachedIsOpen
  /\ channel' = [channel EXCEPT ![g] = current]
  /\ Goto(g, "send")
  /\ UNCHANGED <<mu, current, link, result, excused, unnoticed>>

\* Mutant: the cache is emptied without closing what it held.
CloseLocked_Forget == current' = NoConn /\ UNCHANGED link

\* Mutant: closeLocked returns at the first error and keeps the pointers.
CloseLocked_KeepOnError ==
  IF current # NoConn /\ Alive(current)
  THEN /\ current' = NoConn
       /\ link' = [link EXCEPT ![current] = "closed"]
  ELSE UNCHANGED <<current, link>>

\* closeLocked closes the channel and the connection and forgets both, also
\* when closing fails.
CloseLocked ==
  /\ current' = NoConn
  /\ link' = IF current # NoConn /\ Alive(current)
             THEN [link EXCEPT ![current] = "closed"]
             ELSE link

\* It returns an error when the connection was lost (or closed) before.
CloseReturnsError == current # NoConn /\ ~Alive(current)

\* Mutant: mu is released before dialling, which may take 5 seconds.
Discard_DialsUnlocked(g) ==
  /\ pc[g] = "ensure" /\ mu = Free
  /\ ~CachedIsOpen
  /\ CloseLocked
  /\ \/ CloseReturnsError /\ Fail(g)
     \/ ~CloseReturnsError /\ Goto(g, "dial") /\ UNCHANGED result
  /\ UNCHANGED <<mu, channel, excused, unnoticed>>

\* ensureChannel, first part: no usable channel is cached.  What is cached is
\* closed; an error of that ends the call, otherwise it dials, holding mu.
Discard(g) ==
  /\ pc[g] = "ensure" /\ mu = Free
  /\ ~CachedIsOpen
  /\ CloseLocked
  /\ \/ CloseReturnsError /\ Fail(g) /\ UNCHANGED mu
     \/ ~CloseReturnsError /\ Goto(g, "dial") /\ mu' = g /\ UNCHANGED result
  /\ UNCHANGED <<channel, excused, unnoticed>>

\* amqp.DialConfig succeeds: there is a connection that only g knows.
Dial(g) ==
  /\ pc[g] = "dial"
  /\ \E c \in Conns :
       /\ link[c] = "unused"
       /\ link' = [link EXCEPT ![c] = "open"]
       /\ channel' = [channel EXCEPT ![g] = c]
  /\ Goto(g, "setUp")
  /\ UNCHANGED <<mu, current, result, excused, unnoticed>>

\* Mutant: the failure path does not release the mutex.
DialFails_KeepsLock(g) ==
  /\ pc[g] = "dial"
  /\ Fail(g)
  /\ excused' = [excused EXCEPT ![g] = TRUE]
  /\ UNCHANGED <<mu, current, link, channel, unnoticed>>

\* It fails: mu is released.
DialFails(g) ==
  /\ pc[g] = "dial"
  /\ mu' = Free
  /\ Fail(g)
  /\ excused' = [excused EXCEPT ![g] = TRUE]
  /\ UNCHANGED <<current, link, channel, unnoticed>>

\* conn.Channel and ExchangeDeclare succeed, on a connection that still stands.
SetUp(g) ==
  /\ pc[g] = "setUp"
  /\ link[channel[g]] = "open"
  /\ Goto(g, "install")
  /\ UNCHANGED <<mu, current, link, channel, result, excused, unnoticed>>

\* Mutant: the connection is not closed.
SetUpFails_Forgets(g) ==
  /\ pc[g] = "setUp"
  /\ mu' = Free
  /\ Fail(g)
  /\ excused' = [excused EXCEPT ![g] = TRUE]
  /\ UNCHANGED <<current, link, channel, unnoticed>>

\* One of them fails: the connection is closed, if it still stands, and an error
\* of that is ignored; mu is released.
SetUpFails(g) ==
  /\ pc[g] = "setUp"
  /\ link' = IF Alive(channel[g]) THEN [link EXCEPT ![channel[g]] = "closed"] ELSE link
  /\ mu' = Free
  /\ Fail(g)
  /\ excused' = [excused EXCEPT ![g] = TRUE]
  /\ UNCHANGED <<current, channel, unnoticed>>

\* The new connection is put into the cache and mu is released.
Install(g) ==
  /\ pc[g] = "install"
  /\ current' = channel[g]
  /\ mu' = Free
  /\ Goto(g, "send")
  /\ UNCHANGED <<link, channel, result, excused, unnoticed>>

\* PublishWithContext, under pubMu: the channel that g holds is open ...
Send(g) ==
  /\ pc[g] = "send"
  /\ link[channel[g]] = "open"
  /\ Goto(g, "return")
  /\ result' = [result EXCEPT ![g] = "ok"]
  /\ UNCHANGED <<mu, current, link, channel, excused, unnoticed>>

\* ... or it is not: an error, and reset.
SendFails(g) ==
  /\ pc[g] = "send"
  /\ link[channel[g]] # "open"
  /\ Goto(g, "reset")
  /\ UNCHANGED <<mu, current, link, channel, result, excused, unnoticed>>

\* reset closes what is cached NOW, be it the channel that failed or another.
Reset(g) ==
  /\ pc[g] = "reset" /\ mu = Free
  /\ CloseLocked
  /\ Fail(g)
  /\ UNCHANGED <<mu, channel, excused, unnoticed>>

Return(g) ==
  /\ pc[g] = "return"
  /\ Goto(g, "idle")
  /\ channel' = [channel EXCEPT ![g] = NoConn]
  /\ result' = [result EXCEPT ![g] = "none"]
  /\ excused' = [excused EXCEPT ![g] = FALSE]
  /\ UNCHANGED <<mu, current, link, unnoticed>>

\* The broker closes a channel, or a connection is lost, at any time.
Lose(c) ==
  /\ \/ link[c] = "open" /\ link' = [link EXCEPT ![c] = "channelLost"]
     \/ Alive(c) /\ link' = [link EXCEPT ![c] = "connLost"]
  /\ ExcuseRunning
  /\ unnoticed' = TRUE
  /\ UNCHANGED <<mu, current, pc, channel, result>>

\* Close, perhaps with handlers still running.
Close ==
  /\ mu = Free
  /\ current # NoConn
  /\ CloseLocked
  /\ ExcuseRunning
  /\ UNCHANGED <<mu, pc, channel, result, unnoticed>>

Step(g) ==
  \/ UseCached(g) \/ Discard(g) \/ Dial(g) \/ DialFails(g)
  \/ SetUp(g) \/ SetUpFails(g) \/ Install(g)
  \/ Send(g) \/ SendFails(g) \/ Reset(g) \/ Return(g)

Next ==
  \/ \E g \in Goroutines : Begin(g) \/ Step(g)
  \/ \E c \in Conns : Lose(c)
  \/ Close

Spec == Init /\ [][Next]_vars
-----------------------------------------------------------------------------
(* Properties *)

\* No connection is forgotten open: one that stands is cached, or in the hands of
\* the holder of mu, who sets it up, closes it when that fails, or caches it.  Two
\* goroutines that find no channel do not both dial (publisher.go:299-362).
NoConnectionLeaked ==
  \A c \in Conns : Alive(c) =>
    \/ c = current
    \/ mu # Free /\ pc[mu] \in {"setUp", "install"} /\ channel[mu] = c

\* A loss costs no more than the publishes that it or other publishes overlap,
\* and the first one after it: a later one that runs alone does not fail
\* because of what the loss left in the cache (publisher.go:311, 346-362).
FailureIsExcused == \A g \in Goroutines : result[g] = "error" => excused[g]
=============================================================================
