---------------------------- MODULE ServiceProofs ----------------------------
(***************************************************************************)
(* Theorems about clients and daemons of one state directory, for any      *)
(* number of either, every capacity and every number of faults: there is   *)
(* one daemon at a time, it can be reached, a command is carried out once  *)
(* at most, and once when it succeeds, and while nothing fails none is     *)
(* refused.                                                                *)
(***************************************************************************)
EXTENDS Service, FiniteSetTheorems, TLAPS

-----------------------------------------------------------------------------
(* Types                                                                   *)

Conns == [to : Daemons \union {Nobody}, phase : Phases, sent : BOOLEAN]
ConnOK(r) == r \in Conns /\ (r.to = Nobody <=> r.phase = "none")
ConnsOK == conn \in [Clients -> Conns] /\ \A c \in Clients : ConnOK(conn[c])

(* TypeOK without what it says of connections.                             *)
RestOK ==
    /\ lock \in Clients \union Daemons \union {Nobody}
    /\ path \in Daemons \union {Nobody}
    /\ cpc \in [Clients -> ClientPlaces]
    /\ dpc \in [Daemons -> DaemonPlaces]
    /\ listening \subseteq Daemons /\ stopped \subseteq Daemons
    /\ requests \in [Daemons -> Seq(Clients)]
    /\ \A d \in Daemons : Len(requests[d]) <= MaxConnections
    /\ pending \in [Daemons -> Clients \union {Nobody}]
    /\ carried \in [Clients -> Nat]
    /\ faults \in 0..MaxFaults

(* The call the loop is dispatching is that of a client.                   *)
PendingInv == \A d \in Daemons : dpc[d] \in {"dispatch", "reply"} => pending[d] \in Clients

LEMMA TypesSplit == TypeOK <=> RestOK /\ ConnsOK
BY DEF TypeOK, RestOK, ConnsOK, ConnOK, Conns

LEMMA TypeInit == Init => TypeOK /\ PendingInv
BY ProcessesAssumption, NobodyAssumption, BoundsAssumption
   DEF Init, TypeOK, ClientPlaces, DaemonPlaces, Starting, Looping, Phases, NoConn, PendingInv

(* The ways in which a connection changes.                                 *)
LEMMA ConnSet ==
    ASSUME ConnsOK, NEW c \in Clients, NEW r, ConnOK(r), conn' = [conn EXCEPT ![c] = r]
    PROVE  ConnsOK'
BY DEF ConnsOK, ConnOK

LEMMA ConnGet ==
    ASSUME ConnsOK, NEW c \in Clients, conn[c].phase # "none",
           NEW phase \in Phases \ {"none"}, Get(c, phase)
    PROVE  ConnsOK'
<1> DEFINE r == [conn[c] EXCEPT !.phase = phase]
<1>1. conn[c] \in Conns /\ conn[c].to # Nobody
  BY DEF ConnsOK, ConnOK
<1>2. ConnOK(r)
  BY <1>1 DEF ConnOK, Conns
<1>3. conn' = [conn EXCEPT ![c] = r]
  BY DEF Get
<1> HIDE DEF r
<1> QED
  BY <1>2, <1>3, ConnSet

LEMMA ConnsCut ==
    ASSUME ConnsOK, conn' = [c \in Clients |-> conn'[c]],
           \A c \in Clients : \/ conn'[c] = conn[c]
                              \/ /\ conn[c].phase # "none"
                                 /\ conn'[c] = [conn[c] EXCEPT !.phase = "closed"]
    PROVE  ConnsOK'
<1> SUFFICES ASSUME NEW c \in Clients
             PROVE  ConnOK(conn'[c])
  BY DEF ConnsOK, ConnOK
<1>1. conn[c] \in Conns /\ ConnOK(conn[c])
  BY DEF ConnsOK
<1>2. CASE conn'[c] = conn[c]
  BY <1>1, <1>2
<1>3. CASE conn[c].phase # "none" /\ conn'[c] = [conn[c] EXCEPT !.phase = "closed"]
  BY <1>1, <1>3 DEF ConnOK, Conns, Phases
<1> QED
  BY <1>2, <1>3

(* A client's step changes its own place and connection, the lock, and, if *)
(* it spawns, the place of the daemon spawned.                             *)
LEMMA ClientKeepsTypes ==
    ASSUME RestOK, ConnsOK, NEW c \in Clients, ClientStep(c) \/ TimeOut(c) \/ ClientDies(c)
    PROVE  RestOK' /\ ConnsOK'
<1> USE NobodyAssumption, BoundsAssumption
<1>1. CASE Connect(c)
  <2> DEFINE r == [to |-> path, phase |-> "backlog", sent |-> FALSE]
  <2>1. path \in Daemons
    BY <1>1 DEF Connect, Answering, RestOK
  <2>2. ConnOK(r) /\ conn' = [conn EXCEPT ![c] = r]
    BY <1>1, <2>1 DEF Connect, ConnOK, Conns, Phases
  <2>3. ConnsOK'
    BY <2>2, ConnSet
  <2> QED
    BY <1>1, <2>3 DEF Connect, clientOnly, RestOK, ClientGoto, ClientPlaces
<1>2. CASE Refused(c) \/ TestLock(c) \/ ReleaseLock(c) \/ Poll(c) \/ GiveUp(c)
  <2> USE DEF Refused, TestLock, ReleaseLock, Poll, GiveUp, clientOnly, Autostart
  <2>1. ConnsOK'
    BY <1>2 DEF ConnsOK
  <2> QED
    BY <1>2, <2>1 DEF RestOK, ClientGoto, ClientPlaces
<1>3. CASE Send(c)
  <2> DEFINE r == [conn[c] EXCEPT !.sent = TRUE]
  <2>1. ConnOK(r) /\ conn' = [conn EXCEPT ![c] = r]
    BY <1>3 DEF Send, ConnsOK, ConnOK, Conns
  <2>2. ConnsOK'
    BY <2>1, ConnSet
  <2> QED
    BY <1>3, <2>2 DEF Send, clientOnly, RestOK, ClientGoto, ClientPlaces
<1>4. CASE Receive(c)
  <2>1. ConnOK(NoConn)
    BY DEF NoConn, ConnOK, Conns, Phases
  <2>2. ConnsOK'
    BY <1>4, <2>1, ConnSet DEF Receive
  <2> QED
    BY <1>4, <2>2 DEF Receive, clientOnly, RestOK, ClientGoto, ClientPlaces, AfterError
<1>5. ASSUME NEW d \in Daemons, Spawn(c, d)
      PROVE  RestOK' /\ ConnsOK'
  <2>1. ConnsOK'
    BY <1>5 DEF Spawn, ConnsOK
  <2> QED
    BY <1>5, <2>1 DEF Spawn, DaemonGoto, DaemonPlaces, Autostart, RestOK, ClientGoto, ClientPlaces
<1>6. CASE TimeOut(c) \/ ClientDies(c)
  <2>1. ConnsOK'
    BY <1>6 DEF TimeOut, ClientDies, ConnsOK
  <2>2. /\ cpc' \in [Clients -> ClientPlaces]
        /\ lock' \in Clients \union Daemons \union {Nobody}
    BY <1>6 DEF TimeOut, ClientDies, RestOK, ClientGoto, ClientPlaces
  <2>3. faults' \in 0..MaxFaults
    BY <1>6 DEF TimeOut, ClientDies, RestOK, Fault
  <2>4. UNCHANGED <<path, dpc, listening, stopped, requests, pending, carried>>
    BY <1>6 DEF TimeOut, ClientDies, clientOnly
  <2> QED
    BY <2>1, <2>2, <2>3, <2>4 DEF RestOK
<1> QED
  BY <1>1, <1>2, <1>3, <1>4, <1>5, <1>6 DEF ClientStep

LEMMA ConnectionKeepsTypes ==
    ASSUME RestOK, ConnsOK, NEW d \in Daemons, NEW c \in Clients, ConnectionStep(d, c)
    PROVE  RestOK' /\ ConnsOK'
<1> USE NobodyAssumption, BoundsAssumption
<1>1. \E phase \in Phases \ {"none"} : conn[c].phase # "none" /\ Get(c, phase)
  BY DEF ConnectionStep, Accept, Enqueue, ReadFails, WriteAnswer, HandlerStops, StopAnswers,
         Handled, Phases
<1>2. ConnsOK'
  BY <1>1, ConnGet
<1>3. CASE Accept(d, c) \/ ReadFails(d, c) \/ WriteAnswer(d, c) \/ HandlerStops(d, c)
  BY <1>2, <1>3 DEF Accept, ReadFails, WriteAnswer, HandlerStops, RestOK
<1>4. CASE Enqueue(d, c)
  <2>1. /\ requests' \in [Daemons -> Seq(Clients)]
        /\ \A e \in Daemons : Len(requests'[e]) <= MaxConnections
    BY <1>4 DEF Enqueue, RestOK
  <2>2. UNCHANGED <<lock, path, cpc, dpc, listening, stopped, pending, carried, faults>>
    BY <1>4 DEF Enqueue
  <2> QED
    BY <1>2, <2>1, <2>2 DEF RestOK
<1> QED
  BY <1>3, <1>4 DEF ConnectionStep

LEMMA DaemonKeepsTypes ==
    ASSUME RestOK, ConnsOK, PendingInv, NEW d \in Daemons,
           DaemonStep(d) \/ StartDaemon(d) \/ Fails(d) \/ Stop(d) \/ Killed(d)
    PROVE  RestOK' /\ ConnsOK'
<1> USE NobodyAssumption, BoundsAssumption
    DEF RestOK, DaemonGoto, DaemonPlaces, Starting, Looping, Fault, Deferred
<1>1. CASE StartDaemon(d) \/ Acquire(d) \/ Recover(d) \/ RemoveSocket(d) \/ Listen(d)
  <2>1. ConnsOK'
    BY <1>1 DEF StartDaemon, Acquire, Recover, RemoveSocket, Listen, ConnsOK
  <2>2. CASE StartDaemon(d) \/ Recover(d)
    BY <2>1, <2>2 DEF StartDaemon, Recover
  <2>3. CASE Acquire(d)
    BY <2>1, <2>3 DEF Acquire
  <2>4. CASE RemoveSocket(d)
    BY <2>1, <2>4 DEF RemoveSocket
  <2>5. CASE Listen(d)
    <3>1. /\ path' \in Daemons \union {Nobody} /\ listening' \subseteq Daemons
          /\ dpc' \in [Daemons -> DaemonPlaces]
      <4>1. CASE path = Nobody
        BY <2>5, <4>1 DEF Listen
      <4>2. CASE path # Nobody
        BY <2>5, <4>2 DEF Listen
      <4> QED
        BY <4>1, <4>2
    <3>2. UNCHANGED <<lock, cpc, stopped, requests, pending, carried, faults>>
      BY <2>5 DEF Listen
    <3> QED
      BY <2>1, <3>1, <3>2
  <2> QED
    BY <1>1, <2>2, <2>3, <2>4, <2>5
<1>2. CASE Take(d)
  <2>1. /\ requests' \in [Daemons -> Seq(Clients)]
        /\ \A e \in Daemons : Len(requests'[e]) <= MaxConnections
    BY <1>2 DEF Take
  <2>2. Head(requests[d]) \in Clients
    BY <1>2 DEF Take
  <2>3. ConnsOK'
    BY <1>2 DEF Take, ConnsOK
  <2> QED
    BY <1>2, <2>1, <2>2, <2>3 DEF Take
<1>3. CASE Dispatch(d)
  <2> DEFINE c == pending[d]
  <2>1. c \in Clients /\ carried[c] + 1 \in Nat /\ carried' = [carried EXCEPT ![c] = carried[c] + 1]
    BY <1>3 DEF Dispatch, PendingInv
  <2> HIDE DEF c
  <2>3. carried' \in [Clients -> Nat]
    BY <2>1
  <2>2. ConnsOK'
    BY <1>3 DEF Dispatch, ConnsOK
  <2> QED
    BY <1>3, <2>2, <2>3 DEF Dispatch
<1>4. CASE Reply(d)
  <2>1. pending[d] \in Clients
    BY <1>4 DEF Reply, PendingInv
  <2>2. ConnsOK'
    BY <1>4, <2>1, ConnGet DEF Reply, AwaitsReply, Phases, ConnsOK
  <2> QED
    BY <1>4, <2>2 DEF Reply
<1>5. CASE Fails(d) \/ Stop(d) \/ LoopEnds(d) \/ Unlock(d)
  <2>1. ConnsOK'
    BY <1>5 DEF Fails, Stop, LoopEnds, Unlock, ConnsOK
  <2>2. CASE Fails(d)
    BY <2>1, <2>2 DEF Fails
  <2>3. CASE Stop(d)
    BY <2>1, <2>3 DEF Stop
  <2>4. CASE LoopEnds(d)
    BY <2>1, <2>4 DEF LoopEnds
  <2>5. CASE Unlock(d)
    BY <2>1, <2>5 DEF Unlock
  <2> QED
    BY <1>5, <2>2, <2>3, <2>4, <2>5
<1>6. CASE ServeStops(d) \/ Close(d)
  <2>1. ConnsOK'
    <3>1. CASE d \in listening
      <4>1. conn' = [c \in Clients |-> IF conn[c].to = d /\ conn[c].phase = "backlog"
                                       THEN [conn[c] EXCEPT !.phase = "closed"] ELSE conn[c]]
        BY <1>6, <3>1 DEF ServeStops, Close, CloseListener
      <4>2. conn' = [c \in Clients |-> conn'[c]]
        BY <4>1
      <4>3. \A c \in Clients : \/ conn'[c] = conn[c]
                               \/ /\ conn[c].phase # "none"
                                  /\ conn'[c] = [conn[c] EXCEPT !.phase = "closed"]
        BY <4>1
      <4> QED
        BY <4>2, <4>3, ConnsCut
    <3>2. CASE d \notin listening
      BY <1>6, <3>2 DEF ServeStops, Close, CloseListener, ConnsOK
    <3> QED
      BY <3>1, <3>2
  <2> QED
    BY <1>6, <2>1 DEF ServeStops, Close, CloseListener
<1>7. CASE Exit(d) \/ Killed(d)
  <2>1. Gone(d) /\ faults' \in 0..MaxFaults
    BY <1>7 DEF Exit, Killed
  <2>2. conn' = [c \in Clients |-> IF conn[c].to = d /\ conn[c].phase \in Handled \union {"backlog"}
                                   THEN [conn[c] EXCEPT !.phase = "closed"] ELSE conn[c]]
    BY <2>1 DEF Gone
  <2>3. conn' = [c \in Clients |-> conn'[c]]
    BY <2>2
  <2>4. \A c \in Clients : \/ conn'[c] = conn[c]
                           \/ /\ conn[c].phase # "none"
                              /\ conn'[c] = [conn[c] EXCEPT !.phase = "closed"]
    BY <2>2 DEF Handled
  <2>5. ConnsOK'
    BY <2>3, <2>4, ConnsCut
  <2> QED
    BY <2>1, <2>5 DEF Gone
<1> QED
  BY <1>1, <1>2, <1>3, <1>4, <1>5, <1>6, <1>7 DEF DaemonStep

LEMMA PendingNext == TypeOK /\ PendingInv /\ [Next]_vars => PendingInv'
<1> SUFFICES ASSUME TypeOK, PendingInv, [Next]_vars
             PROVE  PendingInv'
  OBVIOUS
<1> USE DEF TypeOK, PendingInv, DaemonGoto
<1>1. CASE UNCHANGED <<dpc, pending>>
  BY <1>1
<1>2. ASSUME NEW c \in Clients, ClientStep(c) \/ TimeOut(c) \/ ClientDies(c)
      PROVE  PendingInv'
  <2>1. ASSUME NEW d \in Daemons, Spawn(c, d)
        PROVE  PendingInv'
    BY <2>1 DEF Spawn
  <2> QED
    BY <1>1, <1>2, <2>1 DEF ClientStep, Connect, Refused, Send, Receive, TestLock, ReleaseLock,
                            Poll, GiveUp, TimeOut, ClientDies, clientOnly
<1>3. ASSUME NEW d \in Daemons, NEW c \in Clients, ConnectionStep(d, c)
      PROVE  PendingInv'
  BY <1>1, <1>3 DEF ConnectionStep, Accept, Enqueue, ReadFails, WriteAnswer, HandlerStops
<1>4. ASSUME NEW d \in Daemons, DaemonStep(d) \/ StartDaemon(d) \/ Fails(d) \/ Stop(d) \/ Killed(d)
      PROVE  PendingInv'
  <2> USE DEF Deferred
  <2>1. CASE Acquire(d) \/ Recover(d) \/ RemoveSocket(d) \/ Listen(d) \/ StartDaemon(d)
    BY <2>1 DEF Acquire, Recover, RemoveSocket, Listen, StartDaemon
  <2>2. CASE Take(d)
    <3>1. Head(requests[d]) \in Clients
      BY <2>2 DEF Take
    <3> QED
      BY <2>2, <3>1 DEF Take
  <2>3. CASE Dispatch(d) \/ Reply(d) \/ LoopEnds(d) \/ Fails(d) \/ Stop(d)
    BY <2>3 DEF Dispatch, Reply, LoopEnds, Fails, Stop
  <2>4. CASE ServeStops(d) \/ Close(d) \/ Unlock(d) \/ Exit(d) \/ Killed(d)
    BY <2>4 DEF ServeStops, Close, Unlock, CloseListener, Exit, Killed, Gone
  <2> QED
    BY <1>4, <2>1, <2>2, <2>3, <2>4 DEF DaemonStep
<1> QED
  BY <1>1, <1>2, <1>3, <1>4 DEF Next, vars

LEMMA TypeNext == TypeOK /\ PendingInv /\ [Next]_vars => TypeOK'
<1> SUFFICES ASSUME TypeOK, PendingInv, [Next]_vars
             PROVE  TypeOK'
  OBVIOUS
<1>1. RestOK /\ ConnsOK
  BY TypesSplit
<1>2. CASE UNCHANGED vars
  BY <1>2 DEF vars, TypeOK
<1>3. CASE Next
  BY <1>1, <1>3, TypesSplit, ClientKeepsTypes, ConnectionKeepsTypes, DaemonKeepsTypes
     DEF Next, TypeOK, RestOK, ConnsOK, ConnOK, Conns
<1> QED
  BY <1>2, <1>3

LEMMA ServiceTypes == Spec => [](TypeOK /\ PendingInv)
BY TypeInit, TypeNext, PendingNext, PTL DEF Spec

-----------------------------------------------------------------------------
(* One daemon                                                              *)

(* What the lock is held for: everything between Acquire and Unlock, and a *)
(* client's test.                                                          *)
Holding(d) == dpc[d] \in Starting \union Looping \union {"close", "unlock"}

LockInv ==
    /\ \A d \in Daemons : Holding(d) => lock = d
    /\ \A c \in Clients : cpc[c] = "release" => lock = c

(* A listener that is open lies on the path, and its daemon holds the lock; *)
(* a daemon that has not been told to stop keeps it open.                  *)
SocketInv ==
    \A d \in Daemons :
        /\ d \in listening => dpc[d] \in Looping \union {"close"} /\ path = d
        /\ dpc[d] \in Looping /\ d \notin stopped => d \in listening

LEMMA LockInvNext == TypeOK /\ LockInv /\ [Next]_vars => LockInv'
<1> SUFFICES ASSUME TypeOK, LockInv, [Next]_vars
             PROVE  LockInv'
  OBVIOUS
<1> USE ProcessesAssumption, NobodyAssumption
    DEF TypeOK, LockInv, Holding, Starting, Looping, ClientGoto, DaemonGoto
<1>1. CASE UNCHANGED vars
  BY <1>1 DEF vars
<1>2. ASSUME NEW c \in Clients, ClientStep(c) \/ TimeOut(c) \/ ClientDies(c)
      PROVE  LockInv'
  <2> USE DEF clientOnly, Autostart
  <2>1. CASE Connect(c) \/ Refused(c) \/ Send(c) \/ Receive(c) \/ Poll(c) \/ GiveUp(c)
    BY <2>1 DEF Connect, Refused, Send, Receive, Poll, GiveUp, AfterError
  <2>2. CASE TestLock(c) \/ ReleaseLock(c)
    BY <2>2 DEF TestLock, ReleaseLock
  <2>3. ASSUME NEW d \in Daemons, Spawn(c, d)
        PROVE  LockInv'
    BY <2>3 DEF Spawn
  <2>4. CASE TimeOut(c) \/ ClientDies(c)
    BY <2>4 DEF TimeOut, ClientDies
  <2> QED
    BY <1>2, <2>1, <2>2, <2>3, <2>4 DEF ClientStep
<1>3. ASSUME NEW d \in Daemons, NEW c \in Clients, ConnectionStep(d, c)
      PROVE  LockInv'
  BY <1>3 DEF ConnectionStep, Accept, Enqueue, ReadFails, WriteAnswer, HandlerStops
<1>4. ASSUME NEW d \in Daemons, DaemonStep(d) \/ StartDaemon(d) \/ Fails(d) \/ Stop(d) \/ Killed(d)
      PROVE  LockInv'
  <2> USE DEF Deferred
  <2>1. CASE Acquire(d) \/ Recover(d) \/ RemoveSocket(d) \/ Listen(d) \/ StartDaemon(d)
    BY <2>1 DEF Acquire, Recover, RemoveSocket, Listen, StartDaemon
  <2>2. CASE Take(d) \/ Dispatch(d) \/ Reply(d) \/ LoopEnds(d) \/ Fails(d) \/ Stop(d)
    BY <2>2 DEF Take, Dispatch, Reply, LoopEnds, Fails, Stop
  <2>3. CASE ServeStops(d)
    BY <2>3 DEF ServeStops
  <2>4. CASE Close(d) \/ Unlock(d)
    <3>1. CASE Close(d)
      <4>1. dpc[d] = "close" /\ dpc' = [dpc EXCEPT ![d] = "unlock"]
        BY <3>1 DEF Close
      <4>2. UNCHANGED <<lock, cpc>>
        BY <3>1 DEF Close
      <4> QED
        BY <4>1, <4>2
    <3>2. CASE Unlock(d)
      BY <3>2 DEF Unlock
    <3> QED
      BY <2>4, <3>1, <3>2
  <2>5. CASE Exit(d) \/ Killed(d)
    <3>1. DaemonGoto(d, "gone") /\ UNCHANGED cpc /\ lock' = IF lock = d THEN Nobody ELSE lock
      BY <2>5 DEF Exit, Killed, Gone
    <3> QED
      BY <3>1
  <2> QED
    BY <1>4, <2>1, <2>2, <2>3, <2>4, <2>5 DEF DaemonStep
<1> QED
  BY <1>1, <1>2, <1>3, <1>4 DEF Next

LEMMA SocketInvNext == TypeOK /\ LockInv /\ SocketInv /\ [Next]_vars => SocketInv'
<1> SUFFICES ASSUME TypeOK, LockInv, SocketInv, [Next]_vars
             PROVE  SocketInv'
  OBVIOUS
<1> USE ProcessesAssumption, NobodyAssumption
    DEF TypeOK, LockInv, Holding, SocketInv, Starting, Looping, DaemonGoto
<1>1. CASE UNCHANGED vars
  BY <1>1 DEF vars
<1>2. ASSUME NEW c \in Clients, ClientStep(c) \/ TimeOut(c) \/ ClientDies(c)
      PROVE  SocketInv'
  <2>1. ASSUME NEW d \in Daemons, Spawn(c, d)
        PROVE  SocketInv'
    BY <2>1 DEF Spawn
  <2>2. CASE UNCHANGED <<path, dpc, listening, stopped>>
    BY <2>2
  <2> QED
    BY <1>2, <2>1, <2>2 DEF ClientStep, Connect, Refused, Send, Receive, TestLock, ReleaseLock,
                            Poll, GiveUp, TimeOut, ClientDies, clientOnly
<1>3. ASSUME NEW d \in Daemons, NEW c \in Clients, ConnectionStep(d, c)
      PROVE  SocketInv'
  BY <1>3 DEF ConnectionStep, Accept, Enqueue, ReadFails, WriteAnswer, HandlerStops
<1>4. ASSUME NEW d \in Daemons, DaemonStep(d) \/ StartDaemon(d) \/ Fails(d) \/ Stop(d) \/ Killed(d)
      PROVE  SocketInv'
  <2> USE DEF Deferred
  <2>1. CASE Acquire(d) \/ Recover(d) \/ RemoveSocket(d) \/ Listen(d) \/ StartDaemon(d)
    <3>1. CASE StartDaemon(d) \/ Recover(d)
      <4>1. /\ dpc[d] \in {"none", "recover"} /\ dpc' \in {[dpc EXCEPT ![d] = "lock"],
                                                         [dpc EXCEPT ![d] = "bind"]}
            /\ UNCHANGED <<path, listening, stopped>>
        BY <3>1 DEF StartDaemon, Recover
      <4> QED
        BY <4>1
    <3>2. CASE Acquire(d)
      BY <3>2 DEF Acquire
    <3>3. CASE RemoveSocket(d)
      BY <3>3 DEF RemoveSocket
    <3>4. CASE Listen(d)
      BY <3>4 DEF Listen
    <3> QED
      BY <2>1, <3>1, <3>2, <3>3, <3>4
  <2>2. CASE Take(d) \/ Dispatch(d) \/ Reply(d) \/ LoopEnds(d) \/ Fails(d) \/ Stop(d)
    BY <2>2 DEF Take, Dispatch, Reply, LoopEnds, Fails, Stop
  <2>3. CASE ServeStops(d)
    BY <2>3 DEF ServeStops, CloseListener
  <2>4. CASE Close(d)
    BY <2>4 DEF Close, CloseListener
  <2>5. CASE Unlock(d)
    BY <2>5 DEF Unlock
  <2>6. CASE Exit(d) \/ Killed(d)
    <3>1. /\ dpc' = [dpc EXCEPT ![d] = "gone"] /\ listening' = listening \ {d}
          /\ UNCHANGED <<path, stopped>>
      BY <2>6 DEF Exit, Killed, Gone
    <3> QED
      BY <3>1
  <2> QED
    BY <1>4, <2>1, <2>2, <2>3, <2>4, <2>5, <2>6 DEF DaemonStep
<1> QED
  BY <1>1, <1>2, <1>3, <1>4 DEF Next

LEMMA LockAndSocket == Spec => [](TypeOK /\ LockInv /\ SocketInv)
<1>1. Init => LockInv /\ SocketInv
  BY DEF Init, LockInv, SocketInv, Holding, Starting, Looping
<1> QED
  BY <1>1, ServiceTypes, LockInvNext, SocketInvNext, PTL DEF Spec

(* At most one daemon is between its look at the lock and the closing of   *)
(* its database, for any number of daemons started, stopped and killed,    *)
(* and its socket stays where clients look for it (Run, autostart and the  *)
(* order of Run's deferred calls).                                         *)
THEOREM OneDaemonAtATime == Spec => []OneDaemon
<1>1. LockInv /\ SocketInv => OneDaemon
  BY DEF LockInv, SocketInv, OneDaemon, Holding, Exclusive
<1> QED
  BY <1>1, LockAndSocket, PTL

-----------------------------------------------------------------------------
(* A command is carried out once                                           *)

Before == {"call", "test", "release", "spawn", "poll", "again"}
Unread(c) == cpc[c] \in Before \/ conn[c].phase \in {"backlog", "held"}
Answered(c) == conn[c].phase \in {"kept", "ok"} \/ cpc[c] = "done"
Places(d) == 1..Len(requests[d])

(* A request nobody has read has not been carried out, an answer tells of  *)
(* one that has.                                                           *)
ClientInv ==
    \A c \in Clients :
        /\ cpc[c] \in Before => conn[c].phase = "none"
        /\ Unread(c) => carried[c] = 0
        /\ Answered(c) => carried[c] = 1
        /\ carried[c] \in 0..1

(* A queued request has been read and has not been carried out, and it is  *)
(* queued once, by one daemon.                                             *)
QueueInv ==
    /\ \A d \in Daemons : \A i \in Places(d) :
          carried[requests[d][i]] = 0 /\ ~Unread(requests[d][i])
    /\ \A d, e \in Daemons : \A i \in Places(d), k \in Places(e) :
          requests[d][i] = requests[e][k] => d = e /\ i = k

(* So is the one the loop has taken, and it is in no queue any more.       *)
LoopInv ==
    \A d \in Daemons :
        /\ dpc[d] = "dispatch" =>
              /\ carried[pending[d]] = 0 /\ ~Unread(pending[d])
              /\ \A e \in Daemons : \A i \in Places(e) : requests[e][i] # pending[d]
              /\ \A e \in Daemons : dpc[e] = "dispatch" /\ pending[e] = pending[d] => e = d
        /\ dpc[d] = "reply" => carried[pending[d]] = 1

OnceInv == ClientInv /\ QueueInv /\ LoopInv

(* Most steps leave queues and counts alone and read no request.           *)
LEMMA Quiet ==
    ASSUME TypeOK, PendingInv, OnceInv,
           UNCHANGED <<requests, pending, carried>>,
           \A d \in Daemons : dpc'[d] \in {"dispatch", "reply"} => dpc'[d] = dpc[d],
           \A c \in Clients : /\ cpc'[c] \in Before => conn'[c].phase = "none"
                              /\ Unread(c)' => Unread(c)
                              /\ Answered(c)' => Answered(c)
    PROVE  OnceInv'
<1>1. ClientInv'
  BY DEF OnceInv, ClientInv
<1>2. QueueInv'
  <2>1. \A d \in Daemons : \A i \in Places(d) : requests[d][i] \in Clients
    BY DEF TypeOK, Places
  <2> QED
    BY <2>1 DEF OnceInv, QueueInv, Places
<1>3. LoopInv'
  BY DEF OnceInv, LoopInv, PendingInv, Places
<1> QED
  BY <1>1, <1>2, <1>3 DEF OnceInv

LEMMA ClientOnce ==
    ASSUME TypeOK, PendingInv, OnceInv, NEW c \in Clients,
           ClientStep(c) \/ TimeOut(c) \/ ClientDies(c)
    PROVE  OnceInv'
<1>1. UNCHANGED <<requests, pending, carried>>
  BY DEF ClientStep, Connect, Refused, Send, Receive, TestLock, ReleaseLock, Spawn, Poll, GiveUp,
         TimeOut, ClientDies, clientOnly
<1>2. \A d \in Daemons : dpc'[d] \in {"dispatch", "reply"} => dpc'[d] = dpc[d]
  <2>1. ASSUME NEW d \in Daemons, Spawn(c, d)
        PROVE  \A e \in Daemons : dpc'[e] \in {"dispatch", "reply"} => dpc'[e] = dpc[e]
    BY <2>1 DEF Spawn, DaemonGoto, TypeOK
  <2> QED
    BY <2>1 DEF ClientStep, Connect, Refused, Send, Receive, TestLock, ReleaseLock, Poll, GiveUp,
                TimeOut, ClientDies, clientOnly
<1>3. \A b \in Clients \ {c} : cpc'[b] = cpc[b] /\ conn'[b] = conn[b]
  <2> USE DEF ClientGoto, TypeOK
  <2>1. CASE Connect(c) \/ Send(c) \/ Receive(c)
    BY <2>1 DEF Connect, Send, Receive
  <2>2. CASE ~(Connect(c) \/ Send(c) \/ Receive(c))
    BY <2>2 DEF ClientStep, Refused, TestLock, ReleaseLock, Spawn, Poll, GiveUp, TimeOut, ClientDies
  <2> QED
    BY <2>1, <2>2
<1>4. /\ cpc'[c] \in Before => conn'[c].phase = "none"
      /\ Unread(c)' => Unread(c)
      /\ Answered(c)' => Answered(c)
  <2> USE DEF ClientGoto, TypeOK, Before, Unread, Answered, OnceInv, ClientInv
  <2>1. CASE Connect(c)
    BY <2>1 DEF Connect
  <2>2. CASE Refused(c) \/ TestLock(c) \/ ReleaseLock(c)
    BY <2>2 DEF Refused, TestLock, ReleaseLock, Autostart
  <2>3. CASE Send(c)
    BY <2>3 DEF Send
  <2>4. CASE Receive(c)
    BY <2>4 DEF Receive, NoConn, AfterError
  <2>5. ASSUME NEW d \in Daemons, Spawn(c, d)
        PROVE  /\ cpc'[c] \in Before => conn'[c].phase = "none"
               /\ Unread(c)' => Unread(c)
               /\ Answered(c)' => Answered(c)
    BY <2>5 DEF Spawn, Autostart
  <2>6. CASE Poll(c) \/ GiveUp(c) \/ TimeOut(c) \/ ClientDies(c)
    BY <2>6 DEF Poll, GiveUp, TimeOut, ClientDies
  <2> QED
    BY <2>1, <2>2, <2>3, <2>4, <2>5, <2>6 DEF ClientStep
<1>5. \A b \in Clients : /\ cpc'[b] \in Before => conn'[b].phase = "none"
                         /\ Unread(b)' => Unread(b)
                         /\ Answered(b)' => Answered(b)
  BY <1>3, <1>4 DEF Unread, Answered, OnceInv, ClientInv
<1> QED
  BY <1>1, <1>2, <1>5, Quiet

LEMMA EnqueueOnce ==
    ASSUME TypeOK, PendingInv, OnceInv, NEW d \in Daemons, NEW c \in Clients, Enqueue(d, c)
    PROVE  OnceInv'
<1>1. UNCHANGED <<cpc, dpc, pending, carried>>
  BY DEF Enqueue
<1>2. /\ conn[c].phase = "held" /\ conn'[c].phase = "queued"
      /\ \A b \in Clients \ {c} : conn'[b] = conn[b]
  BY DEF Enqueue, Get, TypeOK
<1>3. \A e \in Daemons : \A i \in Places(e)' :
         \/ i \in Places(e) /\ requests'[e][i] = requests[e][i]
         \/ e = d /\ i = Len(requests[d]) + 1 /\ requests'[e][i] = c
  BY DEF Enqueue, TypeOK, Places
<1>4. carried[c] = 0 /\ cpc[c] \notin Before
  BY <1>2 DEF OnceInv, ClientInv, Unread
<1>5. \A e \in Daemons : \A i \in Places(e) : requests[e][i] \in Clients \ {c}
  <2>1. \A e \in Daemons : \A i \in Places(e) : requests[e][i] \in Clients
    BY DEF TypeOK, Places
  <2>2. Unread(c)
    BY <1>2 DEF Unread
  <2> QED
    BY <2>1, <2>2 DEF OnceInv, QueueInv
<1>6. \A b \in Clients : Unread(b)' => Unread(b) /\ b # c
  BY <1>1, <1>2, <1>4 DEF Unread
<1>7. ClientInv'
  BY <1>1, <1>2, <1>4, <1>6 DEF OnceInv, ClientInv, Answered
<1>8. QueueInv'
  <2>1. \A e \in Daemons : \A i \in Places(e)' :
           carried'[requests'[e][i]] = 0 /\ ~Unread(requests[e][i])'
    BY <1>1, <1>3, <1>4, <1>5, <1>6 DEF OnceInv, QueueInv
  <2>2. ASSUME NEW e \in Daemons, NEW f \in Daemons, NEW i \in Places(e)', NEW k \in Places(f)',
               requests'[e][i] = requests'[f][k]
        PROVE  e = f /\ i = k
    BY <1>3, <1>5, <2>2 DEF OnceInv, QueueInv
  <2> QED
    BY <2>1, <2>2 DEF QueueInv
<1>9. LoopInv'
  <2>1. \A e \in Daemons : dpc[e] = "dispatch" => pending[e] \in Clients \ {c}
    BY <1>2 DEF OnceInv, LoopInv, PendingInv, Unread
  <2> QED
    BY <1>1, <1>3, <1>6, <2>1 DEF OnceInv, LoopInv, PendingInv
<1> QED
  BY <1>7, <1>8, <1>9 DEF OnceInv

LEMMA TakeOnce ==
    ASSUME TypeOK, PendingInv, OnceInv, NEW d \in Daemons, Take(d)
    PROVE  OnceInv'
<1> DEFINE c == requests[d][1]
<1>1. UNCHANGED <<cpc, conn, carried>> /\ 1 \in Places(d) /\ c \in Clients
  BY DEF Take, TypeOK, Places
<1>2. /\ pending'[d] = c /\ dpc'[d] = "dispatch"
      /\ \A e \in Daemons \ {d} : pending'[e] = pending[e] /\ dpc'[e] = dpc[e]
  BY DEF Take, TypeOK, DaemonGoto
<1>3. \A e \in Daemons : \A i \in Places(e)' :
         \/ e # d /\ i \in Places(e) /\ requests'[e][i] = requests[e][i]
         \/ e = d /\ i + 1 \in Places(d) /\ requests'[e][i] = requests[d][i + 1]
  BY DEF Take, TypeOK, Places
<1>4. \A e \in Daemons : \A i \in Places(e) : requests[e][i] \in Clients /\ i \in Nat
  BY DEF TypeOK, Places
<1> HIDE DEF c
<1>5. ClientInv'
  BY <1>1 DEF OnceInv, ClientInv, Unread, Answered
<1>6. QueueInv'
  <2>1. \A e \in Daemons : \A i \in Places(e)' :
           carried'[requests'[e][i]] = 0 /\ ~Unread(requests[e][i])'
    BY <1>1, <1>3 DEF OnceInv, QueueInv, Unread
  <2>2. ASSUME NEW e \in Daemons, NEW f \in Daemons, NEW i \in Places(e)', NEW k \in Places(f)',
               requests'[e][i] = requests'[f][k]
        PROVE  e = f /\ i = k
    <3>1. i \in Nat /\ k \in Nat
      BY DEF Places, TypeOK
    <3> QED
      BY <1>3, <2>2, <3>1 DEF OnceInv, QueueInv
  <2> QED
    BY <2>1, <2>2 DEF QueueInv
<1>7. LoopInv'
  <2>1. \A e \in Daemons : \A i \in Places(e)' : requests'[e][i] # c
    <3>1. \A i : i + 1 \in Places(d) /\ i \in Places(d)' => i + 1 # 1
      BY DEF Places, Take, TypeOK
    <3> QED
      BY <1>1, <1>3, <3>1 DEF OnceInv, QueueInv, c
  <2>2. carried[c] = 0 /\ ~Unread(c)
    BY <1>1 DEF OnceInv, QueueInv, c
  <2>3. \A e \in Daemons : dpc[e] = "dispatch" => pending[e] # c
    BY <1>1 DEF OnceInv, LoopInv, c
  <2>4. ASSUME NEW e \in Daemons, dpc[e] = "dispatch", e # d
        PROVE  \A f \in Daemons : \A i \in Places(f)' : requests'[f][i] # pending[e]
    BY <1>3, <2>4 DEF OnceInv, LoopInv
  <2> QED
    BY <1>1, <1>2, <2>1, <2>2, <2>3, <2>4 DEF OnceInv, LoopInv, Unread
<1> QED
  BY <1>5, <1>6, <1>7 DEF OnceInv

LEMMA DispatchOnce ==
    ASSUME TypeOK, PendingInv, OnceInv, NEW d \in Daemons, Dispatch(d)
    PROVE  OnceInv'
<1> DEFINE c == pending[d]
<1>1. /\ UNCHANGED <<cpc, conn, requests, pending>> /\ c \in Clients
      /\ dpc[d] = "dispatch" /\ dpc'[d] = "reply" /\ \A e \in Daemons \ {d} : dpc'[e] = dpc[e]
  BY DEF Dispatch, PendingInv, TypeOK, DaemonGoto
<1>2. carried[c] = 0 /\ ~Unread(c)
  BY <1>1 DEF OnceInv, LoopInv
<1>3. carried'[c] = 1 /\ \A b \in Clients \ {c} : carried'[b] = carried[b]
  BY <1>1, <1>2 DEF Dispatch, TypeOK
<1>4. ClientInv'
  BY <1>1, <1>2, <1>3 DEF OnceInv, ClientInv, Unread, Answered
<1>5. QueueInv'
  <2>1. \A e \in Daemons : \A i \in Places(e) : requests[e][i] \in Clients \ {c}
    BY <1>1 DEF TypeOK, Places, OnceInv, LoopInv
  <2> QED
    BY <1>1, <1>3, <2>1 DEF OnceInv, QueueInv, Unread, Places
<1>6. LoopInv'
  <2>1. \A e \in Daemons \ {d} : dpc[e] = "dispatch" => pending[e] \in Clients \ {c}
    BY <1>1 DEF OnceInv, LoopInv, PendingInv
  <2>2. \A e \in Daemons \ {d} : dpc[e] = "reply" => pending[e] \in Clients \ {c}
    BY <1>1, <1>2 DEF OnceInv, LoopInv, PendingInv
  <2> HIDE DEF c
  <2> QED
    BY <1>1, <1>3, <2>1, <2>2 DEF OnceInv, LoopInv, Unread, Places, c
<1> QED
  BY <1>4, <1>5, <1>6 DEF OnceInv

LEMMA ReplyOnce ==
    ASSUME TypeOK, PendingInv, OnceInv, NEW d \in Daemons, Reply(d)
    PROVE  OnceInv'
<1> DEFINE c == pending[d]
<1>1. /\ UNCHANGED <<cpc, requests, carried>> /\ c \in Clients /\ carried[c] = 1
      /\ dpc'[d] = "loop"
      /\ \A e \in Daemons \ {d} : dpc'[e] = dpc[e] /\ pending'[e] = pending[e]
  BY DEF Reply, PendingInv, TypeOK, DaemonGoto, OnceInv, LoopInv
<1>2. \A b \in Clients :
         \/ conn'[b] = conn[b]
         \/ b = c /\ conn[b].phase = "queued" /\ conn'[b].phase = "kept"
  <2>1. CASE AwaitsReply(d, c)
    <3>1. conn' = [conn EXCEPT ![c].phase = "kept"] /\ conn[c].phase = "queued"
      BY <2>1 DEF Reply, AwaitsReply, Get
    <3> HIDE DEF c
    <3>2. conn'[c].phase = "kept" /\ \A b \in Clients \ {c} : conn'[b] = conn[b]
      BY <1>1, <3>1 DEF TypeOK
    <3> QED
      BY <3>1, <3>2
  <2>2. CASE ~AwaitsReply(d, c)
    BY <2>2 DEF Reply
  <2> QED
    BY <2>1, <2>2
<1>3. \A b \in Clients : Unread(b)' => Unread(b)
  BY <1>1, <1>2 DEF Unread
<1> HIDE DEF c
<1>4. ClientInv'
  BY <1>1, <1>2, <1>3 DEF OnceInv, ClientInv, Answered
<1>5. QueueInv'
  <2>1. \A e \in Daemons : \A i \in Places(e) : requests[e][i] \in Clients
    BY DEF TypeOK, Places
  <2> QED
    BY <1>1, <1>3, <2>1 DEF OnceInv, QueueInv, Places
<1>6. LoopInv'
  BY <1>1, <1>3 DEF OnceInv, LoopInv, PendingInv, Places
<1> QED
  BY <1>4, <1>5, <1>6 DEF OnceInv

(* The other steps answer nobody who was not answered.                     *)
LEMMA ConnectionOnce ==
    ASSUME TypeOK, PendingInv, OnceInv, NEW d \in Daemons, NEW c \in Clients, ConnectionStep(d, c)
    PROVE  OnceInv'
<1>1. CASE Enqueue(d, c)
  BY <1>1, EnqueueOnce
<1>2. CASE Accept(d, c) \/ ReadFails(d, c) \/ WriteAnswer(d, c) \/ HandlerStops(d, c)
  <2>1. UNCHANGED <<requests, pending, carried, cpc, dpc>>
    BY <1>2 DEF Accept, ReadFails, WriteAnswer, HandlerStops
  <2>2. /\ \A b \in Clients \ {c} : conn'[b] = conn[b]
        /\ conn[c].phase # "none"
        /\ conn'[c].phase = "held" => conn[c].phase = "backlog"
        /\ conn'[c].phase = "ok" => conn[c].phase = "kept"
        /\ conn'[c].phase \in {"held", "ok", "error", "closed"}
    BY <1>2 DEF Accept, ReadFails, WriteAnswer, HandlerStops, Get, StopAnswers, Handled, TypeOK
  <2>3. \A b \in Clients : /\ cpc'[b] \in Before => conn'[b].phase = "none"
                           /\ Unread(b)' => Unread(b)
                           /\ Answered(b)' => Answered(b)
    BY <2>1, <2>2 DEF Unread, Answered, OnceInv, ClientInv
  <2> QED
    BY <2>1, <2>3, Quiet
<1> QED
  BY <1>1, <1>2 DEF ConnectionStep

LEMMA DaemonOnce ==
    ASSUME TypeOK, PendingInv, OnceInv, NEW d \in Daemons,
           DaemonStep(d) \/ StartDaemon(d) \/ Fails(d) \/ Stop(d) \/ Killed(d)
    PROVE  OnceInv'
<1>1. CASE Take(d) \/ Dispatch(d) \/ Reply(d)
  BY <1>1, TakeOnce, DispatchOnce, ReplyOnce
<1>2. CASE ~(Take(d) \/ Dispatch(d) \/ Reply(d))
  <2>1. UNCHANGED <<requests, pending, carried, cpc>>
    BY <1>2 DEF DaemonStep, StartDaemon, Fails, Stop, Killed, Acquire, Recover, RemoveSocket, Listen,
                LoopEnds, ServeStops, Close, Unlock, Exit, Gone
  <2>2. \A e \in Daemons : dpc'[e] \in {"dispatch", "reply"} => dpc'[e] = dpc[e]
    <3> USE DEF TypeOK, DaemonGoto, Deferred
    <3>1. CASE StartDaemon(d) \/ Acquire(d) \/ Recover(d) \/ RemoveSocket(d) \/ Listen(d)
      BY <3>1 DEF StartDaemon, Acquire, Recover, RemoveSocket, Listen
    <3>2. CASE Fails(d) \/ LoopEnds(d) \/ Unlock(d)
      BY <3>2 DEF Fails, LoopEnds, Unlock
    <3>3. CASE Stop(d) \/ ServeStops(d)
      BY <3>3 DEF Stop, ServeStops
    <3>4. CASE Close(d)
      <4>1. dpc' = [dpc EXCEPT ![d] = "unlock"]
        BY <3>4 DEF Close
      <4> QED
        BY <4>1
    <3>5. CASE Exit(d) \/ Killed(d)
      <4>1. dpc' = [dpc EXCEPT ![d] = "gone"]
        BY <3>5 DEF Exit, Killed, Gone
      <4> QED
        BY <4>1
    <3> QED
      BY <1>2, <3>1, <3>2, <3>3, <3>4, <3>5 DEF DaemonStep
  <2>3. \A c \in Clients : conn'[c] = conn[c] \/ (conn[c].phase # "none" /\ conn'[c].phase = "closed")
    <3>1. CASE ServeStops(d) \/ Close(d)
      <4>1. CASE d \in listening
        <5>1. conn' = [c \in Clients |-> IF conn[c].to = d /\ conn[c].phase = "backlog"
                                         THEN [conn[c] EXCEPT !.phase = "closed"] ELSE conn[c]]
          BY <3>1, <4>1 DEF ServeStops, Close, CloseListener
        <5> QED
          BY <5>1 DEF TypeOK
      <4>2. CASE d \notin listening
        BY <3>1, <4>2 DEF ServeStops, Close, CloseListener
      <4> QED
        BY <4>1, <4>2
    <3>2. CASE Exit(d) \/ Killed(d)
      <4>1. conn' = [c \in Clients |->
                        IF conn[c].to = d /\ conn[c].phase \in {"held", "queued", "kept", "backlog"}
                        THEN [conn[c] EXCEPT !.phase = "closed"] ELSE conn[c]]
        BY <3>2 DEF Exit, Killed, Gone, Handled
      <4> QED
        BY <4>1 DEF TypeOK
    <3>3. CASE ~(ServeStops(d) \/ Close(d) \/ Exit(d) \/ Killed(d))
      <4>1. UNCHANGED conn
        BY <1>2, <3>3 DEF DaemonStep, StartDaemon, Fails, Stop, Acquire, Recover, RemoveSocket, Listen,
                          LoopEnds, Unlock
      <4> QED
        BY <4>1
    <3> QED
      BY <3>1, <3>2, <3>3
  <2>4. \A c \in Clients : /\ cpc'[c] \in Before => conn'[c].phase = "none"
                           /\ Unread(c)' => Unread(c)
                           /\ Answered(c)' => Answered(c)
    BY <2>1, <2>3 DEF Unread, Answered, OnceInv, ClientInv
  <2> QED
    BY <2>1, <2>2, <2>4, Quiet
<1> QED
  BY <1>1, <1>2

LEMMA OnceNext == TypeOK /\ PendingInv /\ OnceInv /\ [Next]_vars => OnceInv'
<1> SUFFICES ASSUME TypeOK, PendingInv, OnceInv, [Next]_vars
             PROVE  OnceInv'
  OBVIOUS
<1>1. CASE UNCHANGED vars
  BY <1>1, Quiet DEF vars, Unread, Answered, OnceInv, ClientInv
<1>2. CASE Next
  BY <1>2, ClientOnce, ConnectionOnce, DaemonOnce DEF Next
<1> QED
  BY <1>1, <1>2

(* A command is carried out at most once, and once if it succeeds, for any *)
(* number of clients and daemons and whatever fails: Run calls a second    *)
(* time only when no request has been sent, and a request is read by one   *)
(* handler, queued once and taken once (Run, Call, Serve).                 *)
THEOREM CarriedOutOnce == Spec => []AtMostOnce
<1>1. Init => OnceInv
  BY NobodyAssumption DEF Init, OnceInv, ClientInv, QueueInv, LoopInv, Unread, Answered, Before, Places,
     NoConn
<1>2. OnceInv => AtMostOnce
  BY DEF OnceInv, ClientInv, AtMostOnce, Answered
<1> QED
  BY <1>1, <1>2, ServiceTypes, OnceNext, PTL DEF Spec

-----------------------------------------------------------------------------
(* Nobody is left out                                                      *)

(* The lock is let go by whoever leaves.                                   *)
LockHeld ==
    /\ lock \in Clients => cpc[lock] = "release"
    /\ lock \in Daemons => Holding(lock)

(* What holds while nothing is stopped, killed or fails: no daemon that has *)
(* had the lock lets go of it, and it finds the path empty;                *)
CalmDaemons ==
    /\ stopped = {}
    /\ \A d \in Daemons : dpc[d] \in {"none", "lock", "gone"} \union Starting \union Looping
    /\ \A d \in Daemons : dpc[d] = "listen" => path = Nobody

(* no client has failed or is about to;                                    *)
CalmClient(c) ==
    /\ cpc[c] \notin {"failed", "gaveup", "dead"}
    /\ conn[c].phase \notin {"error", "closed"}
    /\ conn[c].phase # "none" => cpc[c] \in {"send", "wait"}
CalmClients == \A c \in Clients : CalmClient(c)

(* and a client that waits has a daemon to wait for, or one on its way.    *)
SomeLoop == \E d \in Daemons : dpc[d] \in Looping
Coming == (\E d \in Daemons : Alive(d)) \/ (\E b \in Clients : cpc[b] \in {"release", "spawn"})
CalmStart ==
    /\ \A c \in Clients : cpc[c] = "again" => SomeLoop
    /\ \A c \in Clients : cpc[c] = "poll" => Coming

Calm == CalmDaemons /\ CalmClients /\ CalmStart
CalmInv == LockHeld /\ (faults = 0 => Calm)

Safe == TypeOK /\ LockInv /\ SocketInv

LEMMA LockHeldNext == Safe /\ LockHeld /\ [Next]_vars => LockHeld'
<1> SUFFICES ASSUME Safe, LockHeld, [Next]_vars
             PROVE  LockHeld'
  OBVIOUS
<1> USE ProcessesAssumption, NobodyAssumption
    DEF Safe, TypeOK, LockHeld, Holding, Starting, Looping, ClientGoto, DaemonGoto
<1>1. CASE UNCHANGED vars
  BY <1>1 DEF vars
<1>2. ASSUME NEW c \in Clients, ClientStep(c) \/ TimeOut(c) \/ ClientDies(c)
      PROVE  LockHeld'
  <2> USE DEF clientOnly, Autostart
  <2>1. CASE Connect(c) \/ Refused(c) \/ Send(c) \/ Receive(c) \/ Poll(c) \/ GiveUp(c)
    BY <2>1 DEF Connect, Refused, Send, Receive, Poll, GiveUp, AfterError
  <2>2. CASE TestLock(c) \/ ReleaseLock(c)
    BY <2>2 DEF TestLock, ReleaseLock
  <2>3. ASSUME NEW d \in Daemons, Spawn(c, d)
        PROVE  LockHeld'
    BY <2>3 DEF Spawn
  <2>4. CASE TimeOut(c) \/ ClientDies(c)
    BY <2>4 DEF TimeOut, ClientDies
  <2> QED
    BY <1>2, <2>1, <2>2, <2>3, <2>4 DEF ClientStep
<1>3. ASSUME NEW d \in Daemons, NEW c \in Clients, ConnectionStep(d, c)
      PROVE  LockHeld'
  BY <1>3 DEF ConnectionStep, Accept, Enqueue, ReadFails, WriteAnswer, HandlerStops
<1>4. ASSUME NEW d \in Daemons, DaemonStep(d) \/ StartDaemon(d) \/ Fails(d) \/ Stop(d) \/ Killed(d)
      PROVE  LockHeld'
  <2> USE DEF Deferred
  <2>1. CASE Acquire(d) \/ Recover(d) \/ RemoveSocket(d) \/ Listen(d) \/ StartDaemon(d)
    BY <2>1 DEF Acquire, Recover, RemoveSocket, Listen, StartDaemon
  <2>2. CASE Take(d) \/ Dispatch(d) \/ Reply(d) \/ LoopEnds(d) \/ Fails(d) \/ Stop(d)
    BY <2>2 DEF Take, Dispatch, Reply, LoopEnds, Fails, Stop
  <2>3. CASE ServeStops(d)
    BY <2>3 DEF ServeStops
  <2>4. CASE Close(d)
    <3>1. dpc[d] = "close" /\ dpc' = [dpc EXCEPT ![d] = "unlock"] /\ UNCHANGED <<lock, cpc>>
      BY <2>4 DEF Close
    <3> QED
      BY <3>1
  <2>5. CASE Unlock(d)
    BY <2>5 DEF Unlock
  <2>6. CASE Exit(d) \/ Killed(d)
    <3>1. DaemonGoto(d, "gone") /\ UNCHANGED cpc /\ lock' = IF lock = d THEN Nobody ELSE lock
      BY <2>6 DEF Exit, Killed, Gone
    <3> QED
      BY <3>1
  <2> QED
    BY <1>4, <2>1, <2>2, <2>3, <2>4, <2>5, <2>6 DEF DaemonStep
<1> QED
  BY <1>1, <1>2, <1>3, <1>4 DEF Next

(* A fault is counted, and a count never goes down.                        *)
LEMMA FaultsCount ==
    ASSUME TypeOK, [Next]_vars, faults' = 0
    PROVE  /\ faults = 0
           /\ UNCHANGED vars \/ (\E c \in Clients : ClientStep(c))
                \/ (\E d \in Daemons, c \in Clients : ConnectionStep(d, c))
                \/ (\E d \in Daemons : DaemonStep(d) \/ StartDaemon(d))
<1>1. ~Fault
  BY BoundsAssumption DEF Fault, TypeOK
<1>2. CASE UNCHANGED vars
  BY <1>2 DEF vars
<1>3. ASSUME NEW c \in Clients, ClientStep(c)
      PROVE  faults = 0
  BY <1>3 DEF ClientStep, Connect, Refused, Send, Receive, TestLock, ReleaseLock, Spawn, Poll, GiveUp
<1>4. ASSUME NEW d \in Daemons, NEW c \in Clients, ConnectionStep(d, c)
      PROVE  faults = 0
  BY <1>4 DEF ConnectionStep, Accept, Enqueue, ReadFails, WriteAnswer, HandlerStops
<1>5. ASSUME NEW d \in Daemons, DaemonStep(d) \/ StartDaemon(d)
      PROVE  faults = 0
  BY <1>5 DEF DaemonStep, StartDaemon, Acquire, Recover, RemoveSocket, Listen, Take, Dispatch, Reply,
              LoopEnds, ServeStops, Close, Unlock, Exit
<1> QED
  BY <1>1, <1>2, <1>3, <1>4, <1>5 DEF Next, TimeOut, ClientDies, Fails, Stop, Killed

LEMMA ClientKeepsCalm ==
    ASSUME Safe, LockHeld, Calm, NEW c \in Clients, ClientStep(c)
    PROVE  Calm'
<1> USE ProcessesAssumption, NobodyAssumption
    DEF Safe, TypeOK, ClientGoto, DaemonGoto
<1>1. \A b \in Clients \ {c} : cpc'[b] = cpc[b] /\ conn'[b] = conn[b]
  <2>1. CASE Connect(c) \/ Send(c) \/ Receive(c)
    BY <2>1 DEF Connect, Send, Receive
  <2>2. CASE ~(Connect(c) \/ Send(c) \/ Receive(c))
    BY <2>2 DEF ClientStep, Refused, TestLock, ReleaseLock, Spawn, Poll, GiveUp
  <2> QED
    BY <2>1, <2>2
<1>2. UNCHANGED stopped /\ (UNCHANGED path)
  BY DEF ClientStep, Connect, Refused, Send, Receive, TestLock, ReleaseLock, Spawn, Poll, GiveUp,
         clientOnly
<1>3. UNCHANGED dpc \/ \E d \in Daemons : Spawn(c, d)
  BY DEF ClientStep, Connect, Refused, Send, Receive, TestLock, ReleaseLock, Poll, GiveUp, clientOnly
<1>4. \A d \in Daemons : \/ dpc'[d] = dpc[d]
                         \/ dpc[d] = "none" /\ dpc'[d] = "lock"
  BY <1>3 DEF Spawn
<1>5. CalmDaemons'
  BY <1>2, <1>4 DEF Calm, CalmDaemons, Starting, Looping
<1>6. (SomeLoop => SomeLoop') /\ (\A d \in Daemons : Alive(d) => Alive(d)')
  BY <1>4 DEF SomeLoop, Alive, Looping
<1>7. SomeLoop => Answering
  BY DEF SomeLoop, Calm, CalmDaemons, SocketInv, Answering
<1>8. CalmClient(c)' /\ (cpc'[c] = "again" => SomeLoop) /\ (cpc'[c] = "poll" => Coming')
  <2> USE DEF Calm, CalmClients, CalmClient, CalmStart
  <2>1. CASE Connect(c)
    BY <2>1 DEF Connect
  <2>2. CASE Refused(c)
    BY <1>7, <2>2 DEF Refused
  <2>3. CASE Send(c)
    BY <2>3 DEF Send
  <2>4. CASE Receive(c)
    BY <2>4 DEF Receive, NoConn, AfterError
  <2>5. CASE TestLock(c)
    <3>1. CASE lock = Nobody
      BY <2>5, <3>1 DEF TestLock, Autostart
    <3>2. CASE lock # Nobody
      <4>1. UNCHANGED <<dpc, conn>> /\ cpc' = [cpc EXCEPT ![c] = "poll"] /\ cpc[c] = "test"
        BY <2>5, <3>2 DEF TestLock, clientOnly
      <4>2. CASE lock \in Clients
        BY <4>1, <4>2 DEF LockHeld, Coming
      <4>3. CASE lock \in Daemons
        BY <4>1, <4>3 DEF LockHeld, Coming, Alive, Holding, Starting, Looping
      <4> QED
        BY <3>2, <4>1, <4>2, <4>3
    <3> QED
      BY <3>1, <3>2
  <2>6. CASE ReleaseLock(c)
    BY <2>6 DEF ReleaseLock, Autostart
  <2>7. ASSUME NEW d \in Daemons, Spawn(c, d)
        PROVE  CalmClient(c)' /\ (cpc'[c] = "again" => SomeLoop) /\ (cpc'[c] = "poll" => Coming')
    BY <2>7 DEF Spawn, Autostart, Coming, Alive
  <2>8. CASE Poll(c)
    BY <2>8 DEF Poll, Answering, SomeLoop, CalmDaemons
  <2>9. ~GiveUp(c)
    BY DEF GiveUp, Coming
  <2> QED
    BY <2>1, <2>2, <2>3, <2>4, <2>5, <2>6, <2>7, <2>8, <2>9 DEF ClientStep
<1>9. Coming => Coming'
  <2>1. CASE \E d \in Daemons : Alive(d)
    BY <1>6, <2>1 DEF Coming
  <2>2. ASSUME NEW b \in Clients, cpc[b] \in {"release", "spawn"}
        PROVE  Coming'
    <3>1. CASE b # c
      BY <1>1, <2>2, <3>1 DEF Coming
    <3>2. CASE b = c
      <4>1. CASE ReleaseLock(c)
        BY <3>2, <4>1 DEF ReleaseLock, Autostart, Coming
      <4>2. ASSUME NEW d \in Daemons, Spawn(c, d)
            PROVE  Coming'
        BY <4>2 DEF Spawn, Coming, Alive
      <4> QED
        BY <2>2, <3>2, <4>1, <4>2 DEF ClientStep, Connect, Refused, Send, Receive, TestLock, Poll, GiveUp
    <3> QED
      BY <3>1, <3>2
  <2> QED
    BY <2>1, <2>2 DEF Coming
<1>10. CalmClients'
  BY <1>1, <1>8 DEF Calm, CalmClients, CalmClient
<1>11. CalmStart'
  BY <1>1, <1>6, <1>8, <1>9 DEF Calm, CalmStart
<1> QED
  BY <1>5, <1>10, <1>11 DEF Calm

(* With connections for all, Serve turns nobody away.                      *)
LEMMA RoomForAll ==
    ASSUME IsFiniteSet(Clients), Cardinality(Clients) <= MaxConnections,
           NEW d \in Daemons, NEW c \in Clients, conn[c].phase = "backlog"
    PROVE  Cardinality(Handlers(d)) < MaxConnections
<1>1. Handlers(d) \subseteq Clients \ {c}
  BY DEF Handlers, Handled
<1>2. IsFiniteSet(Clients \ {c}) /\ Cardinality(Clients \ {c}) = Cardinality(Clients) - 1
  BY FS_RemoveElement
<1>3. IsFiniteSet(Handlers(d)) /\ Cardinality(Handlers(d)) <= Cardinality(Clients \ {c})
  BY <1>1, <1>2, FS_Subset
<1>4. Cardinality(Handlers(d)) \in Nat /\ Cardinality(Clients) \in Nat
  BY <1>3, FS_CardinalityType
<1> QED
  BY <1>2, <1>3, <1>4, BoundsAssumption

LEMMA ConnectionKeepsCalm ==
    ASSUME IsFiniteSet(Clients), Cardinality(Clients) <= MaxConnections,
           Safe, Calm, NEW d \in Daemons, NEW c \in Clients, ConnectionStep(d, c)
    PROVE  Calm'
<1>1. UNCHANGED <<cpc, path, dpc, stopped>>
  BY DEF ConnectionStep, Accept, Enqueue, ReadFails, WriteAnswer, HandlerStops
<1>2. \A b \in Clients \ {c} : conn'[b] = conn[b]
  BY DEF ConnectionStep, Accept, Enqueue, ReadFails, WriteAnswer, HandlerStops, Get, Safe, TypeOK
<1>3. conn[c].phase # "none" /\ conn'[c].phase \notin {"error", "closed"}
  <2> USE DEF Get, Safe, TypeOK
  <2>1. CASE Accept(d, c)
    <3>1. Cardinality(Handlers(d)) < MaxConnections
      BY <2>1, RoomForAll DEF Accept
    <3> QED
      BY <2>1, <3>1 DEF Accept
  <2>2. CASE Enqueue(d, c) \/ WriteAnswer(d, c)
    BY <2>2 DEF Enqueue, WriteAnswer
  <2>3. ~ReadFails(d, c)
    <3>1. ReadFails(d, c) => conn[c].phase = "held" /\ cpc[c] \in Ended
      BY DEF ReadFails
    <3>2. conn[c].phase # "none" => cpc[c] \in {"send", "wait"}
      BY DEF Calm, CalmClients, CalmClient
    <3> QED
      BY <3>1, <3>2 DEF Ended
  <2>4. ~HandlerStops(d, c)
    BY DEF HandlerStops, Calm, CalmDaemons
  <2> QED
    BY <2>1, <2>2, <2>3, <2>4 DEF ConnectionStep
<1>4. CalmClients'
  BY <1>1, <1>2, <1>3 DEF Calm, CalmClients, CalmClient
<1>5. CalmDaemons' /\ CalmStart'
  BY <1>1 DEF Calm, CalmDaemons, CalmStart, SomeLoop, Coming, Alive
<1> QED
  BY <1>4, <1>5 DEF Calm

LEMMA DaemonKeepsCalm ==
    ASSUME Safe, LockHeld, Calm, NEW d \in Daemons, DaemonStep(d) \/ StartDaemon(d)
    PROVE  Calm'
<1> USE ProcessesAssumption, NobodyAssumption
<1>1. UNCHANGED cpc
  BY DEF DaemonStep, StartDaemon, Acquire, Recover, RemoveSocket, Listen, Take, Dispatch, Reply,
         LoopEnds, ServeStops, Close, Unlock, Exit, Gone
<1>2. ~LoopEnds(d) /\ ~ServeStops(d) /\ ~Close(d) /\ ~Unlock(d) /\ ~Exit(d)
  BY DEF LoopEnds, ServeStops, Close, Unlock, Exit, Calm, CalmDaemons, Starting, Looping
<1>3. UNCHANGED stopped
  BY <1>2 DEF DaemonStep, StartDaemon, Acquire, Recover, RemoveSocket, Listen, Take, Dispatch, Reply
<1>4. \A c \in Clients : conn'[c].phase = conn[c].phase \/ (conn[c].phase = "queued" /\ conn'[c].phase = "kept")
  <2>1. CASE Reply(d)
    <3>1. CASE AwaitsReply(d, pending[d])
      <4>1. conn' = [conn EXCEPT ![pending[d]].phase = "kept"] /\ conn[pending[d]].phase = "queued"
        BY <2>1, <3>1 DEF Reply, AwaitsReply, Get
      <4>2. conn \in [Clients -> Conns]
        BY DEF Safe, TypeOK, Conns
      <4> QED
        BY <4>1, <4>2 DEF Conns
    <3>2. CASE ~AwaitsReply(d, pending[d])
      BY <2>1, <3>2 DEF Reply
    <3> QED
      BY <3>1, <3>2
  <2>2. CASE ~Reply(d)
    BY <1>2, <2>2 DEF DaemonStep, StartDaemon, Acquire, Recover, RemoveSocket, Listen, Take, Dispatch
  <2> QED
    BY <2>1, <2>2
<1>5. CalmClients'
  BY <1>1, <1>4 DEF Calm, CalmClients, CalmClient
<1> DEFINE CalmPlaces == {"none", "lock", "gone"} \union Starting \union Looping
<1>6. /\ \A e \in Daemons \ {d} : dpc'[e] = dpc[e]
      /\ dpc'[d] \in CalmPlaces
      /\ dpc[d] \in Looping => dpc'[d] \in Looping
      /\ \/ dpc'[d] # "gone" /\ dpc'[d] # "none"
         \/ dpc[d] = "lock" /\ lock # Nobody
  <2> USE DEF DaemonGoto, Safe, TypeOK, Starting, Looping
  <2>1. CASE StartDaemon(d) \/ Recover(d) \/ RemoveSocket(d)
    BY <2>1 DEF StartDaemon, Recover, RemoveSocket
  <2>2. CASE Acquire(d)
    BY <2>2 DEF Acquire
  <2>3. CASE Listen(d)
    BY <2>3 DEF Listen, Calm, CalmDaemons
  <2>4. CASE Take(d) \/ Dispatch(d) \/ Reply(d)
    BY <2>4 DEF Take, Dispatch, Reply
  <2> QED
    BY <1>2, <2>1, <2>2, <2>3, <2>4 DEF DaemonStep
<1>7. \A e \in Daemons : dpc'[e] = "listen" => path' = Nobody
  <2> USE DEF DaemonGoto, Safe, TypeOK
  <2>1. CASE RemoveSocket(d)
    BY <2>1 DEF RemoveSocket
  <2>2. CASE Listen(d)
    <3>1. path = Nobody /\ dpc[d] = "listen"
      BY <2>2 DEF Listen, Calm, CalmDaemons
    <3>2. \A e \in Daemons : dpc[e] = "listen" => e = d
      BY <3>1 DEF LockInv, Holding, Starting
    <3>3. dpc' = [dpc EXCEPT ![d] = "loop"]
      BY <2>2, <3>1 DEF Listen
    <3> QED
      BY <3>2, <3>3
  <2>3. CASE ~(RemoveSocket(d) \/ Listen(d))
    <3>1. UNCHANGED path /\ dpc'[d] # "listen"
      BY <1>2, <2>3 DEF DaemonStep, StartDaemon, Acquire, Recover, Take, Dispatch, Reply
    <3> QED
      BY <1>6, <3>1 DEF Calm, CalmDaemons
  <2> QED
    BY <2>1, <2>2, <2>3
<1>8. CalmDaemons'
  BY <1>3, <1>6, <1>7 DEF Calm, CalmDaemons
<1>9. SomeLoop => SomeLoop'
  BY <1>6 DEF SomeLoop, Looping
<1>10. Coming => Coming'
  <2>1. CASE dpc'[d] # "gone" /\ dpc'[d] # "none"
    BY <1>1, <1>6, <2>1 DEF Coming, Alive
  <2>2. CASE dpc[d] = "lock" /\ lock # Nobody
    <3>1. CASE lock \in Clients
      BY <1>1, <3>1 DEF LockHeld, Coming
    <3>2. CASE lock \in Daemons
      BY <1>6, <2>2, <3>2 DEF LockHeld, Holding, Coming, Alive, Starting, Looping
    <3> QED
      BY <2>2, <3>1, <3>2 DEF Safe, TypeOK
  <2> QED
    BY <1>6, <2>1, <2>2
<1>11. CalmStart'
  BY <1>1, <1>9, <1>10 DEF Calm, CalmStart
<1> QED
  BY <1>5, <1>8, <1>11 DEF Calm

(* While nothing is stopped, killed or fails, every command that ends has  *)
(* succeeded, for any number of clients and daemons that start together,   *)
(* provided the connections Serve holds are enough for all: whoever finds  *)
(* the lock taken has a daemon to wait for, a daemon that has the lock     *)
(* comes to listen and stays, and who calls again finds it (autostart, Run *)
(* and Serve).                                                             *)
THEOREM NobodyIsLeftOut ==
    ASSUME IsFiniteSet(Clients), Cardinality(Clients) <= MaxConnections
    PROVE  Spec => []NobodyLeftOut
<1>1. Init => CalmInv
  BY NobodyAssumption DEF Init, CalmInv, LockHeld, Calm, CalmDaemons, CalmClients, CalmClient, CalmStart,
                          NoConn, SomeLoop, Coming
<1>2. Safe /\ CalmInv /\ [Next]_vars => CalmInv'
  <2> SUFFICES ASSUME Safe, CalmInv, [Next]_vars
               PROVE  CalmInv'
    OBVIOUS
  <2>1. LockHeld'
    BY LockHeldNext DEF CalmInv
  <2>2. ASSUME faults' = 0
        PROVE  Calm'
    <3>1. LockHeld /\ Calm
      BY <2>2, FaultsCount DEF CalmInv, Safe
    <3>2. CASE UNCHANGED vars
      BY <3>1, <3>2 DEF vars, Calm, CalmDaemons, CalmClients, CalmClient, CalmStart, SomeLoop, Coming, Alive
    <3> QED
      BY <2>2, <3>1, <3>2, FaultsCount, ClientKeepsCalm, ConnectionKeepsCalm, DaemonKeepsCalm DEF Safe
  <2> QED
    BY <2>1, <2>2 DEF CalmInv
<1>3. CalmInv => NobodyLeftOut
  BY DEF CalmInv, Calm, CalmClients, CalmClient, NobodyLeftOut
<1>4. Spec => []Safe
  BY LockAndSocket, PTL DEF Safe
<1> QED
  BY <1>1, <1>2, <1>3, <1>4, PTL DEF Spec
=============================================================================
