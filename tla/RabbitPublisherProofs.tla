------------------------- MODULE RabbitPublisherProofs -------------------------
(***************************************************************************)
(* Proofs about RabbitPublisher: its types and its mutex, that it leaks no *)
(* connection, and that a lost connection costs no publish but the ones it *)
(* overlaps and the first after it.  For any number of goroutines and      *)
(* connections.                                                            *)
(***************************************************************************)
EXTENDS RabbitPublisher, TLAPS

\* Whoever dials has emptied the cache before, and holds mu since.
DialsWithEmptyCache ==
  \A g \in Goroutines : pc[g] \in {"dial", "setUp", "install"} => current = NoConn

\* Two goroutines that publish at the same time excuse each other.
OverlapIsExcused ==
  \A g, h \in Goroutines : g # h /\ Running(g) /\ Running(h) => excused[g]

\* What is cached, or about to be, is not open any more.
CacheIsStale ==
  \E c \in Conns :
    /\ c = current \/ \E g \in Goroutines : pc[g] = "install" /\ channel[g] = c
    /\ link[c] # "open"

\* A stale cache is unnoticed, or somebody is about to empty it ...
StaleIsSeen ==
  CacheIsStale => unnoticed \/ \E h \in Goroutines : pc[h] = "ensure"

\* ... and whoever runs into it is excused.
StaleIsExcused ==
  CacheIsStale => \A g \in Goroutines : pc[g] = "ensure" => excused[g]

\* Whoever holds a channel that was closed is excused, and whoever has failed.
ChannelLossIsExcused ==
  \A g \in Goroutines :
    /\ pc[g] \in {"install", "send"} /\ link[channel[g]] # "open" => excused[g]
    /\ pc[g] = "reset" => excused[g]
    /\ pc[g] = "idle" => result[g] = "none"

\* The inductive invariant.  The leak needs the second part: Install overwrites
\* current and must not overwrite an open connection.  The excuses need all the
\* others: which failure a publish meets was decided before it met it.
IInv ==
  /\ TypeOK
  /\ NoConnectionLeaked
  /\ DialsWithEmptyCache
  /\ OverlapIsExcused
  /\ StaleIsSeen
  /\ StaleIsExcused
  /\ ChannelLossIsExcused
  /\ FailureIsExcused

\* The invariant holds when the server starts.
LEMMA InitIInv == Init => IInv
<1> SUFFICES ASSUME Init PROVE IInv
  OBVIOUS
<1> USE NoConnAssumption, FreeAssumption DEF Init
<1>1. TypeOK
  BY DEF TypeOK, Links, PCs
<1>2. NoConnectionLeaked /\ DialsWithEmptyCache
  BY DEF NoConnectionLeaked, DialsWithEmptyCache, Alive
<1>3. OverlapIsExcused
  BY DEF OverlapIsExcused, Running
<1>4. StaleIsSeen /\ StaleIsExcused
  BY DEF StaleIsSeen, StaleIsExcused, CacheIsStale
<1>5. ChannelLossIsExcused /\ FailureIsExcused
  BY DEF ChannelLossIsExcused, FailureIsExcused
<1> QED
  BY <1>1, <1>2, <1>3, <1>4, <1>5 DEF IInv

\* Every step preserves the invariant.
LEMMA NextIInv == IInv /\ [Next]_vars => IInv'
<1> SUFFICES ASSUME IInv, [Next]_vars PROVE IInv'
  OBVIOUS
<1> USE NoConnAssumption, FreeAssumption
    DEF IInv, TypeOK, Links, PCs, NoConnectionLeaked, DialsWithEmptyCache,
        OverlapIsExcused, CacheIsStale, StaleIsSeen, StaleIsExcused,
        ChannelLossIsExcused, FailureIsExcused, Running, Alive, Goto, Fail
<1>1. ASSUME NEW g \in Goroutines, Begin(g) PROVE IInv'
  <2>1. TypeOK'
    <3>1. pc' \in [Goroutines -> PCs] /\ excused' \in [Goroutines -> BOOLEAN]
      BY <1>1 DEF Begin
    <3>2. \A h \in Goroutines : pc'[h] = IF h = g THEN "ensure" ELSE pc[h]
      BY <1>1 DEF Begin
    <3>3. pc[g] = "idle" /\ unnoticed' = FALSE
          /\ UNCHANGED <<mu, current, link, channel, result>>
      BY <1>1 DEF Begin
    <3>4. \A h \in Goroutines : mu' = h <=> pc'[h] \in {"dial", "setUp", "install"}
      BY <3>2, <3>3
    <3>5. \A h \in Goroutines : pc'[h] \in {"setUp", "install", "send"} => channel'[h] # NoConn
      BY <3>2, <3>3
    <3> QED
      BY <3>1, <3>3, <3>4, <3>5
  <2>2. (NoConnectionLeaked /\ DialsWithEmptyCache)'
    BY <1>1 DEF Begin
  <2>3. OverlapIsExcused'
    BY <1>1 DEF Begin
  <2>4. (StaleIsSeen /\ StaleIsExcused)'
    BY <1>1 DEF Begin
  <2>5. (ChannelLossIsExcused /\ FailureIsExcused)'
    BY <1>1 DEF Begin
  <2> QED
    BY <2>1, <2>2, <2>3, <2>4, <2>5
<1>2. ASSUME NEW g \in Goroutines, UseCached(g) PROVE IInv'
  BY <1>2 DEF UseCached, CachedIsOpen
<1>3. ASSUME NEW g \in Goroutines, Discard(g) PROVE IInv'
  <2>1. TypeOK'
    BY <1>3 DEF Discard, CachedIsOpen, CloseLocked, CloseReturnsError
  <2>2. (NoConnectionLeaked /\ DialsWithEmptyCache)'
    BY <1>3 DEF Discard, CachedIsOpen, CloseLocked, CloseReturnsError
  <2>3. OverlapIsExcused'
    BY <1>3 DEF Discard, CachedIsOpen, CloseLocked, CloseReturnsError
  <2>4. (StaleIsSeen /\ StaleIsExcused)'
    BY <1>3 DEF Discard, CachedIsOpen, CloseLocked, CloseReturnsError
  <2>5. (ChannelLossIsExcused /\ FailureIsExcused)'
    BY <1>3 DEF Discard, CachedIsOpen, CloseLocked, CloseReturnsError
  <2> QED
    BY <2>1, <2>2, <2>3, <2>4, <2>5
<1>4. ASSUME NEW g \in Goroutines, Dial(g) PROVE IInv'
  <2>1. TypeOK'
    BY <1>4 DEF Dial
  <2>2. (NoConnectionLeaked /\ DialsWithEmptyCache)'
    BY <1>4 DEF Dial
  <2>3. OverlapIsExcused'
    BY <1>4 DEF Dial
  <2>4. (StaleIsSeen /\ StaleIsExcused)'
    BY <1>4 DEF Dial
  <2>5. (ChannelLossIsExcused /\ FailureIsExcused)'
    BY <1>4 DEF Dial
  <2> QED
    BY <2>1, <2>2, <2>3, <2>4, <2>5
<1>5. ASSUME NEW g \in Goroutines, DialFails(g) PROVE IInv'
  BY <1>5 DEF DialFails
<1>6. ASSUME NEW g \in Goroutines, Install(g) PROVE IInv'
  <2>1. TypeOK'
    BY <1>6 DEF Install
  <2>2. (NoConnectionLeaked /\ DialsWithEmptyCache)'
    BY <1>6 DEF Install
  <2>3. OverlapIsExcused'
    BY <1>6 DEF Install
  <2>4. (StaleIsSeen /\ StaleIsExcused)'
    BY <1>6 DEF Install
  <2>5. (ChannelLossIsExcused /\ FailureIsExcused)'
    BY <1>6 DEF Install
  <2> QED
    BY <2>1, <2>2, <2>3, <2>4, <2>5
<1>7. ASSUME NEW g \in Goroutines, Send(g) PROVE IInv'
  BY <1>7 DEF Send
<1>8. ASSUME NEW g \in Goroutines, SendFails(g) PROVE IInv'
  BY <1>8 DEF SendFails
<1>9. ASSUME NEW g \in Goroutines, Reset(g) PROVE IInv'
  <2>1. TypeOK'
    BY <1>9 DEF Reset, CloseLocked
  <2>2. (NoConnectionLeaked /\ DialsWithEmptyCache)'
    BY <1>9 DEF Reset, CloseLocked
  <2>3. OverlapIsExcused'
    BY <1>9 DEF Reset, CloseLocked
  <2>4. (StaleIsSeen /\ StaleIsExcused)'
    BY <1>9 DEF Reset, CloseLocked
  <2>5. (ChannelLossIsExcused /\ FailureIsExcused)'
    BY <1>9 DEF Reset, CloseLocked
  <2> QED
    BY <2>1, <2>2, <2>3, <2>4, <2>5
<1>10. ASSUME NEW g \in Goroutines, Return(g) PROVE IInv'
  BY <1>10 DEF Return
<1>11. ASSUME NEW c \in Conns, Lose(c) PROVE IInv'
  <2>1. TypeOK'
    BY <1>11 DEF Lose, ExcuseRunning
  <2>2. (NoConnectionLeaked /\ DialsWithEmptyCache)'
    BY <1>11 DEF Lose, ExcuseRunning
  <2>3. OverlapIsExcused'
    BY <1>11 DEF Lose, ExcuseRunning
  <2>4. (StaleIsSeen /\ StaleIsExcused)'
    BY <1>11 DEF Lose, ExcuseRunning
  <2>5. (ChannelLossIsExcused /\ FailureIsExcused)'
    BY <1>11 DEF Lose, ExcuseRunning
  <2> QED
    BY <2>1, <2>2, <2>3, <2>4, <2>5
<1>12. CASE Close
  <2>1. TypeOK'
    BY <1>12 DEF Close, CloseLocked, ExcuseRunning
  <2>2. (NoConnectionLeaked /\ DialsWithEmptyCache)'
    BY <1>12 DEF Close, CloseLocked, ExcuseRunning
  <2>3. OverlapIsExcused'
    BY <1>12 DEF Close, CloseLocked, ExcuseRunning
  <2>4. (StaleIsSeen /\ StaleIsExcused)'
    BY <1>12 DEF Close, CloseLocked, ExcuseRunning
  <2>5. (ChannelLossIsExcused /\ FailureIsExcused)'
    BY <1>12 DEF Close, CloseLocked, ExcuseRunning
  <2> QED
    BY <2>1, <2>2, <2>3, <2>4, <2>5
<1>13. CASE UNCHANGED vars
  BY <1>13 DEF vars
<1>14. ASSUME NEW g \in Goroutines, SetUp(g) PROVE IInv'
  <2>1. TypeOK'
    BY <1>14 DEF SetUp
  <2>2. (NoConnectionLeaked /\ DialsWithEmptyCache)'
    BY <1>14 DEF SetUp
  <2>3. OverlapIsExcused'
    BY <1>14 DEF SetUp
  <2>4. (StaleIsSeen /\ StaleIsExcused)'
    BY <1>14 DEF SetUp
  <2>5. (ChannelLossIsExcused /\ FailureIsExcused)'
    BY <1>14 DEF SetUp
  <2> QED
    BY <2>1, <2>2, <2>3, <2>4, <2>5
<1>15. ASSUME NEW g \in Goroutines, SetUpFails(g) PROVE IInv'
  <2>1. TypeOK'
    BY <1>15 DEF SetUpFails
  <2>2. (NoConnectionLeaked /\ DialsWithEmptyCache)'
    BY <1>15 DEF SetUpFails
  <2>3. OverlapIsExcused'
    BY <1>15 DEF SetUpFails
  <2>4. (StaleIsSeen /\ StaleIsExcused)'
    BY <1>15 DEF SetUpFails
  <2>5. (ChannelLossIsExcused /\ FailureIsExcused)'
    BY <1>15 DEF SetUpFails
  <2> QED
    BY <2>1, <2>2, <2>3, <2>4, <2>5
<1> QED
  BY <1>1, <1>2, <1>3, <1>4, <1>5, <1>6, <1>7, <1>8, <1>9, <1>10, <1>11, <1>12, <1>13, <1>14, <1>15
  DEF Next, Step

\* The inductive invariant holds in every reachable state.
THEOREM Invariant == Spec => []IInv
  BY InitIInv, NextIInv, PTL DEF Spec

\* Every variable keeps its type, and mu protects dialling (publisher.go:299-338).
THEOREM PublisherTypeCorrect == Spec => []TypeOK
<1>1. IInv => TypeOK
  BY DEF IInv
<1> QED
  BY <1>1, Invariant, PTL

\* No connection is forgotten open (publisher.go:299-362).
THEOREM NothingLeaks == Spec => []NoConnectionLeaked
<1>1. IInv => NoConnectionLeaked
  BY DEF IInv
<1> QED
  BY <1>1, Invariant, PTL

\* A publish fails only when a loss, a failed dial, the shutdown or another
\* publish may have spoilt it (publisher.go:266-362).
THEOREM FailuresAreExcused == Spec => []FailureIsExcused
<1>1. IInv => FailureIsExcused
  BY DEF IInv
<1> QED
  BY <1>1, Invariant, PTL
=============================================================================
