------------------------------ MODULE Service -------------------------------
(***************************************************************************)
(* Clients and daemons of one state directory: the flock on daemon.lock,   *)
(* the socket, client autostart (internal/cli/platform_linux.go), the start *)
(* and the end of a daemon and its main loop (internal/daemon/             *)
(* daemon_linux.go) and the connections between them (internal/ipc/ipc.go).*)
(* A client runs one command that submits a job.  The `status' calls with  *)
(* which a client waits for its daemon change nothing and are one step.    *)
(***************************************************************************)
EXTENDS Integers, FiniteSets, Sequences

CONSTANTS
    Clients,
    Daemons,      \* bound: daemon processes over time
    Nobody,
    MaxConnections, \* connections Serve holds, capacity of d.requests
    MaxFaults     \* bound: stops, kills, failures, clients giving up or dying

ASSUME ProcessesAssumption == Clients \intersect Daemons = {}
ASSUME NobodyAssumption == Nobody \notin Clients \union Daemons
ASSUME BoundsAssumption == MaxConnections \in Nat \ {0} /\ MaxFaults \in Nat

VARIABLES
    lock,         \* holder of the flock on daemon.lock
    path,         \* daemon whose socket lies on the path, dead or alive
    cpc,          \* cpc[c]: where client c is
    conn,         \* conn[c]: its connection: the daemon, how far it has got
    dpc,          \* dpc[d]: where daemon d's Run is
    listening,    \* daemons whose listener is open
    stopped,      \* daemons whose context is cancelled
    requests,     \* requests[d]: d.requests
    pending,      \* pending[d]: the call the loop is dispatching
    carried,      \* history: carried[c]: how often c's request was carried out
    faults

vars == <<lock, path, cpc, conn, dpc, listening, stopped, requests, pending,
          carried, faults>>

ClientPlaces == {"call", "send", "wait", "test", "release", "spawn", "poll", "again",
                 "done", "failed", "gaveup", "dead"}
Ended == {"done", "failed", "gaveup", "dead"}

(* A connection lies in the backlog, is held by a handler that reads, is   *)
(* queued until the loop replies, kept until the handler writes the reply; *)
(* the client then finds success, an error, or the connection closed.      *)
Phases == {"none", "backlog", "held", "queued", "kept", "ok", "error", "closed"}
Handled == {"held", "queued", "kept"}

Starting == {"recover", "bind", "listen"}
Looping == {"loop", "dispatch", "reply"}
DaemonPlaces == {"none", "lock", "close", "unlock", "exit", "gone"} \union Starting \union Looping

TypeOK ==
    /\ lock \in Clients \union Daemons \union {Nobody}
    /\ path \in Daemons \union {Nobody}
    /\ cpc \in [Clients -> ClientPlaces]
    /\ conn \in [Clients -> [to : Daemons \union {Nobody}, phase : Phases, sent : BOOLEAN]]
    /\ \A c \in Clients : conn[c].to = Nobody <=> conn[c].phase = "none"
    /\ dpc \in [Daemons -> DaemonPlaces]
    /\ listening \subseteq Daemons /\ stopped \subseteq Daemons
    /\ requests \in [Daemons -> Seq(Clients)]
    /\ \A d \in Daemons : Len(requests[d]) <= MaxConnections
    /\ pending \in [Daemons -> Clients \union {Nobody}]
    /\ carried \in [Clients -> Nat]
    /\ faults \in 0..MaxFaults

NoConn == [to |-> Nobody, phase |-> "none", sent |-> FALSE]

Init ==
    /\ lock = Nobody /\ path = Nobody
    /\ cpc = [c \in Clients |-> "call"]
    /\ conn = [c \in Clients |-> NoConn]
    /\ dpc = [d \in Daemons |-> "none"]
    /\ listening = {} /\ stopped = {}
    /\ requests = [d \in Daemons |-> <<>>]
    /\ pending = [d \in Daemons |-> Nobody]
    /\ carried = [c \in Clients |-> 0]
    /\ faults = 0

Fault == faults < MaxFaults /\ faults' = faults + 1
ClientGoto(c, place) == cpc' = [cpc EXCEPT ![c] = place]
DaemonGoto(d, place) == dpc' = [dpc EXCEPT ![d] = place]
Get(c, phase) == conn' = [conn EXCEPT ![c].phase = phase]

clientOnly == <<dpc, listening, stopped, requests, pending, carried>>

Alive(d) == dpc[d] \notin {"none", "gone"}

-----------------------------------------------------------------------------
(* The client                                                              *)

Answering == path \in listening

(* Call: the dial.                                                         *)
Connect(c) ==
    /\ cpc[c] \in {"call", "again"} /\ Answering
    /\ conn' = [conn EXCEPT ![c] = [to |-> path, phase |-> "backlog", sent |-> FALSE]]
    /\ ClientGoto(c, "send")
    /\ UNCHANGED <<clientOnly, lock, path, faults>>

(* ENOENT or ECONNREFUSED: autostart the first time, an error the second.  *)
Refused(c) ==
    /\ cpc[c] \in {"call", "again"} /\ ~Answering
    /\ ClientGoto(c, IF cpc[c] = "call" THEN "test" ELSE "failed")
    /\ UNCHANGED <<clientOnly, lock, path, conn, faults>>

Send(c) ==
    /\ cpc[c] = "send"
    /\ conn' = [conn EXCEPT ![c].sent = TRUE]
    /\ ClientGoto(c, "wait")
    /\ UNCHANGED <<clientOnly, lock, path, faults>>

(* Mutant: any error of the first call leads to autostart and a retry.     *)
AfterErrorRetried == "test"

AfterError == "failed"

Receive(c) ==
    /\ cpc[c] = "wait"
    /\ \/ conn[c].phase = "ok" /\ ClientGoto(c, "done")
       \/ conn[c].phase = "error" /\ ClientGoto(c, "failed")
       \/ conn[c].phase = "closed" /\ ClientGoto(c, AfterError)
    /\ conn' = [conn EXCEPT ![c] = NoConn]
    /\ UNCHANGED <<clientOnly, lock, path, faults>>

(* Mutant: the daemon is spawned with the lock still held.                 *)
AutostartHolding == [test |-> "spawn", spawn |-> "release", release |-> "poll"]

(* autostart: try the lock and, if it is free, let it go and spawn; what   *)
(* follows each step.                                                      *)
Autostart == [test |-> "release", release |-> "spawn", spawn |-> "poll"]

TestLock(c) ==
    /\ cpc[c] = "test"
    /\ IF lock = Nobody THEN lock' = c /\ ClientGoto(c, Autostart.test)
       ELSE UNCHANGED lock /\ ClientGoto(c, "poll")
    /\ UNCHANGED <<clientOnly, path, conn, faults>>

ReleaseLock(c) ==
    /\ cpc[c] = "release"
    /\ lock' = Nobody
    /\ ClientGoto(c, Autostart.release)
    /\ UNCHANGED <<clientOnly, path, conn, faults>>

Spawn(c, d) ==
    /\ cpc[c] = "spawn" /\ dpc[d] = "none"
    /\ DaemonGoto(d, "lock")
    /\ ClientGoto(c, Autostart.spawn)
    /\ UNCHANGED <<lock, path, conn, listening, stopped, requests, pending,
                   carried, faults>>

(* A status call answered: by the loop, or by a handler that sees the end. *)
Poll(c) ==
    /\ cpc[c] = "poll" /\ Answering /\ dpc[path] \in Looping
    /\ \/ ClientGoto(c, "again")
       \/ path \in stopped /\ ClientGoto(c, "failed")
    /\ UNCHANGED <<clientOnly, lock, path, conn, faults>>

(* Mutant: the time begins anew with every poll.                           *)
GiveUpNever(c) == FALSE

(* The ten seconds pass.  They are longer than any start: a client gives   *)
(* up only when no daemon is left and no client is about to start one.     *)
GiveUp(c) ==
    /\ cpc[c] = "poll"
    /\ \A d \in Daemons : ~Alive(d)
    /\ \A b \in Clients : cpc[b] \notin {"release", "spawn"}
    /\ ClientGoto(c, "gaveup")
    /\ UNCHANGED <<clientOnly, lock, path, conn, faults>>

(* The client's own time limit; the daemon does not hear of it.            *)
TimeOut(c) ==
    /\ cpc[c] \in {"send", "wait"} /\ Fault
    /\ ClientGoto(c, "failed")
    /\ UNCHANGED <<clientOnly, lock, path, conn>>

ClientDies(c) ==
    /\ cpc[c] \in {"test", "release", "spawn", "poll", "send"} /\ Fault
    /\ ClientGoto(c, "dead")
    /\ lock' = IF lock = c THEN Nobody ELSE lock
    /\ UNCHANGED <<clientOnly, path, conn>>

ClientStep(c) ==
    \/ Connect(c) \/ Refused(c) \/ Send(c) \/ Receive(c)
    \/ TestLock(c) \/ ReleaseLock(c) \/ (\E d \in Daemons : Spawn(c, d)) \/ Poll(c) \/ GiveUp(c)

-----------------------------------------------------------------------------
(* A daemon's connections (Serve and its handlers)                         *)

Handlers(d) == {c \in Clients : conn[c].to = d /\ conn[c].phase \in Handled}

Accept(d, c) ==
    /\ d \in listening /\ conn[c].to = d /\ conn[c].phase = "backlog"
    /\ Get(c, IF Cardinality(Handlers(d)) < MaxConnections THEN "held" ELSE "closed")
    /\ UNCHANGED <<cpc, lock, path, dpc, listening, stopped, requests, pending,
                   carried, faults>>

(* The handler has read the request and hands it to the loop.              *)
Enqueue(d, c) ==
    /\ Alive(d) /\ conn[c] = [to |-> d, phase |-> "held", sent |-> TRUE]
    /\ Len(requests[d]) < MaxConnections
    /\ requests' = [requests EXCEPT ![d] = Append(@, c)]
    /\ Get(c, "queued")
    /\ UNCHANGED <<cpc, lock, path, dpc, listening, stopped, pending, carried, faults>>

(* Nothing to read: the client is gone.                                    *)
ReadFails(d, c) ==
    /\ Alive(d) /\ conn[c] = [to |-> d, phase |-> "held", sent |-> FALSE]
    /\ cpc[c] \in Ended
    /\ Get(c, "error")
    /\ UNCHANGED <<cpc, lock, path, dpc, listening, stopped, requests, pending,
                   carried, faults>>

WriteAnswer(d, c) ==
    /\ Alive(d) /\ conn[c].to = d /\ conn[c].phase = "kept"
    /\ Get(c, "ok")
    /\ UNCHANGED <<cpc, lock, path, dpc, listening, stopped, requests, pending,
                   carried, faults>>

StopAnswers == {"error", "closed"}

(* The context ends while the handler waits: it answers with an error, if  *)
(* the connection is not closed first.                                     *)
HandlerStops(d, c) ==
    /\ Alive(d) /\ d \in stopped /\ conn[c].to = d /\ conn[c].phase \in Handled
    /\ \E phase \in StopAnswers : Get(c, phase)
    /\ UNCHANGED <<cpc, lock, path, dpc, listening, stopped, requests, pending,
                   carried, faults>>

ConnectionStep(d, c) ==
    \/ Accept(d, c) \/ Enqueue(d, c) \/ ReadFails(d, c) \/ WriteAnswer(d, c) \/ HandlerStops(d, c)

-----------------------------------------------------------------------------
(* The daemon (Run)                                                        *)

(* Started by hand or by the service manager; every client that may start  *)
(* one itself is left one.                                                 *)
StartDaemon(d) ==
    /\ dpc[d] = "none"
    /\ Cardinality({e \in Daemons : dpc[e] = "none"})
         > Cardinality({c \in Clients : cpc[c] \in {"call", "test", "release", "spawn"}})
    /\ DaemonGoto(d, "lock")
    /\ UNCHANGED <<cpc, lock, path, conn, listening, stopped, requests, pending,
                   carried, faults>>

Acquire(d) ==
    /\ dpc[d] = "lock"
    /\ IF lock = Nobody THEN lock' = d /\ DaemonGoto(d, "recover")
       ELSE UNCHANGED lock /\ DaemonGoto(d, "gone")
    /\ UNCHANGED <<cpc, path, conn, listening, stopped, requests, pending,
                   carried, faults>>

(* The database is opened, directories are cleaned, attempts reconciled.   *)
Recover(d) ==
    /\ dpc[d] = "recover"
    /\ DaemonGoto(d, "bind")
    /\ UNCHANGED <<cpc, lock, path, conn, listening, stopped, requests, pending,
                   carried, faults>>

RemoveSocket(d) ==
    /\ dpc[d] = "bind"
    /\ path' = Nobody
    /\ DaemonGoto(d, "listen")
    /\ UNCHANGED <<cpc, lock, conn, listening, stopped, requests, pending,
                   carried, faults>>

(* Mutant: the deferred calls in another order.                            *)
DeferredSwapped == [run |-> "unlock", unlock |-> "close", close |-> "exit"]

(* The calls Run defers, in the order in which they are made: the listener *)
(* is closed and the context cancelled, the database closed, the lock let  *)
(* go.                                                                     *)
Deferred == [run |-> "close", close |-> "unlock", unlock |-> "exit"]

(* A socket on the path is in the way.                                     *)
Listen(d) ==
    /\ dpc[d] = "listen"
    /\ IF path = Nobody
       THEN path' = d /\ listening' = listening \union {d} /\ DaemonGoto(d, "loop")
       ELSE UNCHANGED <<path, listening>> /\ DaemonGoto(d, Deferred.run)
    /\ UNCHANGED <<cpc, lock, conn, stopped, requests, pending, carried, faults>>

Take(d) ==
    /\ dpc[d] = "loop" /\ requests[d] # <<>>
    /\ pending' = [pending EXCEPT ![d] = Head(requests[d])]
    /\ requests' = [requests EXCEPT ![d] = Tail(@)]
    /\ DaemonGoto(d, "dispatch")
    /\ UNCHANGED <<cpc, lock, path, conn, listening, stopped, carried, faults>>

Dispatch(d) ==
    /\ dpc[d] = "dispatch"
    /\ carried' = [carried EXCEPT ![pending[d]] = @ + 1]
    /\ DaemonGoto(d, "reply")
    /\ UNCHANGED <<cpc, lock, path, conn, listening, stopped, requests, pending, faults>>

AwaitsReply(d, c) == conn[c].to = d /\ conn[c].phase = "queued"

(* Mutant: the reply channel has no buffer.                                *)
ReplyUnbuffered(d) ==
    /\ dpc[d] = "reply" /\ AwaitsReply(d, pending[d])
    /\ Get(pending[d], "kept")
    /\ pending' = [pending EXCEPT ![d] = Nobody]
    /\ DaemonGoto(d, "loop")
    /\ UNCHANGED <<cpc, lock, path, listening, stopped, requests, carried, faults>>

(* The channel takes the reply whether or not a handler still wants it.    *)
Reply(d) ==
    /\ dpc[d] = "reply"
    /\ IF AwaitsReply(d, pending[d]) THEN Get(pending[d], "kept") ELSE UNCHANGED conn
    /\ pending' = [pending EXCEPT ![d] = Nobody]
    /\ DaemonGoto(d, "loop")
    /\ UNCHANGED <<cpc, lock, path, listening, stopped, requests, carried, faults>>

(* A call of the start or of the loop fails: Run returns.                  *)
Fails(d) ==
    /\ dpc[d] \in Starting \union {"loop", "dispatch"} /\ Fault
    /\ DaemonGoto(d, Deferred.run)
    /\ UNCHANGED <<cpc, lock, path, conn, listening, stopped, requests, pending, carried>>

(* SIGTERM, at any time.                                                   *)
Stop(d) ==
    /\ Alive(d) /\ d \notin stopped /\ Fault
    /\ stopped' = stopped \union {d}
    /\ UNCHANGED <<cpc, lock, path, conn, dpc, listening, requests, pending, carried>>

(* The loop sees the end, unless it chooses another case of its select.    *)
LoopEnds(d) ==
    /\ dpc[d] = "loop" /\ d \in stopped
    /\ DaemonGoto(d, Deferred.run)
    /\ UNCHANGED <<cpc, lock, path, conn, listening, stopped, requests, pending,
                   carried, faults>>

(* UnixListener.Close: whatever lies on the path is unlinked, connections  *)
(* nobody has accepted are reset.                                          *)
CloseListener(d) ==
    IF d \in listening
    THEN /\ path' = Nobody
         /\ listening' = listening \ {d}
         /\ conn' = [c \in Clients |-> IF conn[c].to = d /\ conn[c].phase = "backlog"
                                       THEN [conn[c] EXCEPT !.phase = "closed"] ELSE conn[c]]
    ELSE UNCHANGED <<path, listening, conn>>

(* Serve's own reaction to the end of the context.                         *)
ServeStops(d) ==
    /\ Alive(d) /\ d \in stopped \intersect listening
    /\ CloseListener(d)
    /\ UNCHANGED <<cpc, lock, dpc, stopped, requests, pending, carried, faults>>

Close(d) ==
    /\ dpc[d] = "close"
    /\ CloseListener(d)
    /\ stopped' = stopped \union {d}
    /\ DaemonGoto(d, Deferred.close)
    /\ UNCHANGED <<cpc, lock, requests, pending, carried, faults>>

Unlock(d) ==
    /\ dpc[d] = "unlock"
    /\ lock' = IF lock = d THEN Nobody ELSE lock
    /\ DaemonGoto(d, Deferred.unlock)
    /\ UNCHANGED <<cpc, path, conn, listening, stopped, requests, pending,
                   carried, faults>>

(* The process ends, and with it its connections.                          *)
Gone(d) ==
    /\ DaemonGoto(d, "gone")
    /\ lock' = IF lock = d THEN Nobody ELSE lock
    /\ listening' = listening \ {d}
    /\ conn' = [c \in Clients |-> IF conn[c].to = d /\ conn[c].phase \in Handled \union {"backlog"}
                                  THEN [conn[c] EXCEPT !.phase = "closed"] ELSE conn[c]]
    /\ UNCHANGED <<cpc, path, stopped, requests, pending, carried>>

Exit(d) == dpc[d] = "exit" /\ Gone(d) /\ UNCHANGED faults

(* A kill leaves the socket on the path.                                   *)
Killed(d) == Alive(d) /\ Fault /\ Gone(d)

DaemonStep(d) ==
    \/ Acquire(d) \/ Recover(d) \/ RemoveSocket(d) \/ Listen(d)
    \/ Take(d) \/ Dispatch(d) \/ Reply(d) \/ LoopEnds(d)
    \/ ServeStops(d) \/ Close(d) \/ Unlock(d) \/ Exit(d)

-----------------------------------------------------------------------------
Next ==
    \/ \E c \in Clients : ClientStep(c) \/ TimeOut(c) \/ ClientDies(c)
    \/ \E d \in Daemons, c \in Clients : ConnectionStep(d, c)
    \/ \E d \in Daemons : DaemonStep(d) \/ StartDaemon(d) \/ Fails(d) \/ Stop(d) \/ Killed(d)

Spec == Init /\ [][Next]_vars

(* Every process that can go on does; nothing is said about the order in   *)
(* which the daemon's loop and its handlers find what they wait for.       *)
FairSpec ==
    /\ Spec
    /\ \A c \in Clients : WF_vars(ClientStep(c))
    /\ \A d \in Daemons : WF_vars(DaemonStep(d))
    /\ \A d \in Daemons, c \in Clients : WF_vars(ConnectionStep(d, c))

-----------------------------------------------------------------------------
(* Properties                                                              *)

(* A process that may have the database open or is about to touch the      *)
(* socket is the only one, through every start, stop, kill and lock test:  *)
(* "Acquire it before recovery or stale-socket replacement".  And a daemon *)
(* in its loop can be reached: no other process has removed or replaced    *)
(* its socket (RemoveSocket and the unlink of CloseListener).              *)
Exclusive == Starting \union Looping \union {"close"}
OneDaemon ==
    /\ \A d, e \in Daemons : dpc[d] \in Exclusive /\ dpc[e] \in Exclusive => d = e
    /\ \A d \in Daemons : dpc[d] \in Looping /\ d \notin stopped => path = d

(* One command carries out at most one submission, though Run calls again  *)
(* after an autostart; and success is reported only of a submission made.  *)
AtMostOnce ==
    \A c \in Clients : carried[c] <= 1 /\ (cpc[c] = "done" => carried[c] = 1)

(* While nothing is stopped, killed or fails, and there are connections    *)
(* for all, every command succeeds, whichever clients and daemons start    *)
(* together (TestAutostartRace).                                           *)
NobodyLeftOut == faults = 0 => \A c \in Clients : cpc[c] \notin {"failed", "gaveup"}

(* Every command comes to an end.                                          *)
CommandsEnd == \A c \in Clients : <>(cpc[c] \in Ended)

(* A daemon told to stop does, whatever its clients do meanwhile.          *)
StopsWhenTold == \A d \in Daemons : d \in stopped ~> dpc[d] = "gone"
=============================================================================
