--------------------------------- MODULE Daemon --------------------------------
(***************************************************************************)
(* The life of cogmemory processes: main.go, health/health.go and the      *)
(* connection side of rpc/server.go.  A process takes over the socket      *)
(* path, accepts connections in Serve, answers each connection's request   *)
(* lines in order in a goroutine of its own, and on SIGTERM closes the     *)
(* listener, drains and exits.  Several processes may share the path: one  *)
(* after the other under systemd, or at once when started by hand.         *)
(*                                                                         *)
(* From the net package: closing a Unix listener resets the connections    *)
(* still queued and unlinks the path, whoever's socket it names by then; a *)
(* killed process leaves its socket file behind.                           *)
(***************************************************************************)
EXTENDS Naturals, FiniteSets

CONSTANTS Inst,   \* daemon processes, each started once
          Conn,   \* client connections
          MaxReq, \* bound on the request lines of a connection
          Faults, \* subset of {"setup", "kill", "accept"}
          NoInst

ASSUME DaemonAssumption == NoInst \notin Inst /\ MaxReq \in Nat

VARIABLES supervised, \* systemd runs the processes, one at a time
          path,       \* the process whose socket the path names, or NoInst
          main,       \* main[i]: where the main goroutine of i is
          listening,  \* listening[i]: the listener of i is open
          accept,     \* accept[i]: Serve of i: "none", "loop" or "returned"
          sig,        \* sig[i]: i was sent SIGTERM or SIGINT
          late,       \* late[i]: the shutdown timeout of i has elapsed
          conn,       \* conn[c]: "none", "queued" or "open"
          peer,       \* peer[c]: the process c is connected to
          sent,       \* sent[c]: request lines c has sent
          answered,   \* answered[c]: responses written to c
          running     \* running[c]: a request of c is being dispatched

procs == <<path, main, listening, accept, sig, late>>
conns == <<conn, peer, sent, answered, running>>
vars == <<supervised, procs, conns>>

\* How a process ends: main returns, os.Exit(1) because something it was set up
\* with is no good, os.Exit(1) because another process was at the socket path, or
\* a signal.
Ended == {"stopped", "misconfigured", "failed", "killed"}

Alive(i) == main[i] \notin {"new"} \cup Ended

Init ==
    /\ supervised \in BOOLEAN
    /\ path = NoInst
    /\ main = [i \in Inst |-> "new"]
    /\ listening = [i \in Inst |-> FALSE]
    /\ accept = [i \in Inst |-> "none"]
    /\ sig = [i \in Inst |-> FALSE]
    /\ late = [i \in Inst |-> FALSE]
    /\ conn = [c \in Conn |-> "none"]
    /\ peer = [c \in Conn |-> NoInst]
    /\ sent = [c \in Conn |-> 0]
    /\ answered = [c \in Conn |-> 0]
    /\ running = [c \in Conn |-> FALSE]
--------------------------------------------------------------------------------
Goto(i, label) == main' = [main EXCEPT ![i] = label]

\* Connections that end; their clients may connect again.
EndConns(C) ==
    /\ conn' = [c \in Conn |-> IF c \in C THEN "none" ELSE conn[c]]
    /\ peer' = [c \in Conn |-> IF c \in C THEN NoInst ELSE peer[c]]
    /\ sent' = [c \in Conn |-> IF c \in C THEN 0 ELSE sent[c]]
    /\ answered' = [c \in Conn |-> IF c \in C THEN 0 ELSE answered[c]]
    /\ running' = [c \in Conn |-> running[c] /\ c \notin C]

\* The process is over: the kernel closes its listener and its connections.
Die(i, how) == /\ Goto(i, how)
               /\ listening' = [listening EXCEPT ![i] = FALSE]
               /\ accept' = [accept EXCEPT ![i] = "none"]
               /\ EndConns({c \in Conn : peer[c] = i})

\* systemd or a user starts the program.
Launch(i) ==
    /\ main[i] = "new"
    /\ supervised => \A j \in Inst : ~Alive(j)
    /\ Goto(i, "setup")
    /\ UNCHANGED <<supervised, path, listening, accept, sig, late, conns>>

\* main: LoadConfig, store.New, domain.New and rpc.New, then Listen.
SetUp(i) ==
    /\ main[i] = "setup"
    /\ Goto(i, "stat")
    /\ UNCHANGED <<supervised, path, listening, accept, sig, late, conns>>

\* main: the config does not load, the memory root is no directory, domains.yml is
\* malformed, or Listen may not touch the directory of the socket.
SetUpFails(i) ==
    /\ "setup" \in Faults /\ main[i] \in {"setup", "remove", "bind"}
    /\ Die(i, "misconfigured")
    /\ UNCHANGED <<supervised, path, sig, late>>

\* Variant: a socket file left behind is not looked for.
StatSocketSkipped(i) ==
    /\ main[i] = "stat"
    /\ Goto(i, "bind")
    /\ UNCHANGED <<supervised, path, listening, accept, sig, late, conns>>

\* Listen: os.Stat of the socket path, whoever's socket it is.
StatSocket(i) ==
    /\ main[i] = "stat"
    /\ Goto(i, IF path = NoInst THEN "bind" ELSE "remove")
    /\ UNCHANGED <<supervised, path, listening, accept, sig, late, conns>>

\* Listen: os.Remove of the socket file; it fails when the file is gone.
RemoveSocket(i) ==
    /\ main[i] = "remove" /\ path # NoInst
    /\ path' = NoInst
    /\ Goto(i, "bind")
    /\ UNCHANGED <<supervised, listening, accept, sig, late, conns>>

Bind(i) ==
    /\ main[i] = "bind" /\ path = NoInst
    /\ path' = i
    /\ listening' = [listening EXCEPT ![i] = TRUE]
    /\ Goto(i, "spawn")
    /\ UNCHANGED <<supervised, accept, sig, late, conns>>

\* Another process was faster: main exits with an error.
ListenFails(i) ==
    /\ \/ main[i] = "remove" /\ path = NoInst
       \/ main[i] = "bind" /\ path # NoInst
    /\ Die(i, "failed")
    /\ UNCHANGED <<supervised, path, sig, late>>

\* main: READY=1, and Serve in a goroutine of its own.
Spawn(i) ==
    /\ main[i] = "spawn"
    /\ accept' = [accept EXCEPT ![i] = "loop"]
    /\ Goto(i, "arm")
    /\ UNCHANGED <<supervised, path, listening, sig, late, conns>>

\* GracefulShutdown: signal.Notify.  Before it, a signal kills the process.
Arm(i) ==
    /\ main[i] = "arm"
    /\ Goto(i, "wait")
    /\ UNCHANGED <<supervised, path, listening, accept, sig, late, conns>>

Signal(i) ==
    /\ Alive(i) /\ ~sig[i]
    /\ sig' = [sig EXCEPT ![i] = TRUE]
    /\ IF main[i] = "wait" THEN UNCHANGED <<main, listening, accept, conns>> ELSE Die(i, "killed")
    /\ UNCHANGED <<supervised, path, late>>

\* Variant: the shutdown does not wait for the signal.
CloseListenerUnasked(i) ==
    /\ main[i] = "wait"
    /\ listening' = [listening EXCEPT ![i] = FALSE]
    /\ path' = NoInst
    /\ EndConns({c \in Conn : peer[c] = i /\ conn[c] = "queued"})
    /\ Goto(i, "drain")
    /\ UNCHANGED <<supervised, accept, sig, late>>

\* Variant: the listener is left open.
CloseListenerSkipped(i) ==
    /\ main[i] = "wait" /\ sig[i]
    /\ Goto(i, "drain")
    /\ UNCHANGED <<supervised, path, listening, accept, sig, late, conns>>

\* GracefulShutdown: ln.Close.
CloseListener(i) ==
    /\ main[i] = "wait" /\ sig[i]
    /\ listening' = [listening EXCEPT ![i] = FALSE]
    /\ path' = NoInst
    /\ EndConns({c \in Conn : peer[c] = i /\ conn[c] = "queued"})
    /\ Goto(i, "drain")
    /\ UNCHANGED <<supervised, accept, sig, late>>

\* What GracefulShutdown waits for: main hands it an empty WaitGroup, not the
\* one Serve counts the connections in.
Awaited(i) == {}

\* GracefulShutdown: the WaitGroup is done, or the timeout has elapsed.
Drain(i) ==
    /\ main[i] = "drain"
    /\ \/ Awaited(i) = {} /\ UNCHANGED late
       \/ late' = [late EXCEPT ![i] = TRUE]
    /\ Goto(i, "join")
    /\ UNCHANGED <<supervised, path, listening, accept, sig, conns>>

\* main: Serve has returned, the process exits.
Exit(i) ==
    /\ main[i] = "join" /\ accept[i] = "returned"
    /\ Die(i, "stopped")
    /\ UNCHANGED <<supervised, path, sig, late>>

\* SIGKILL, an overdue watchdog, a panic in a handler.
Kill(i) ==
    /\ "kill" \in Faults /\ Alive(i)
    /\ Die(i, "killed")
    /\ UNCHANGED <<supervised, path, sig, late>>
--------------------------------------------------------------------------------
\* A client connects to the socket the path names.
Connect(c) ==
    /\ conn[c] = "none" /\ path # NoInst /\ listening[path]
    /\ conn' = [conn EXCEPT ![c] = "queued"]
    /\ peer' = [peer EXCEPT ![c] = path]
    /\ UNCHANGED <<supervised, procs, sent, answered, running>>

Send(c) ==
    /\ conn[c] \in {"queued", "open"} /\ sent[c] < MaxReq
    /\ sent' = [sent EXCEPT ![c] = sent[c] + 1]
    /\ UNCHANGED <<supervised, procs, conn, peer, answered, running>>

\* Variant: the connection is served by the accepting goroutine.
AcceptInline(c) ==
    /\ conn[c] = "queued" /\ accept[peer[c]] = "loop"
    /\ \A d \in Conn : conn[d] = "open" => peer[d] # peer[c]
    /\ conn' = [conn EXCEPT ![c] = "open"]
    /\ UNCHANGED <<supervised, procs, peer, sent, answered, running>>

\* Serve: Accept, and handleConn in a goroutine.
Accept(c) ==
    /\ conn[c] = "queued" /\ accept[peer[c]] = "loop"
    /\ conn' = [conn EXCEPT ![c] = "open"]
    /\ UNCHANGED <<supervised, procs, peer, sent, answered, running>>

\* Serve: Accept fails, for whatever reason, and Serve returns.
AcceptFails(i) ==
    /\ accept[i] = "loop"
    /\ ~listening[i] \/ "accept" \in Faults
    /\ accept' = [accept EXCEPT ![i] = "returned"]
    /\ UNCHANGED <<supervised, path, main, listening, sig, late, conns>>

\* Variant: one request per connection.
ScanOnce(c) ==
    /\ conn[c] = "open" /\ ~running[c] /\ answered[c] < sent[c] /\ answered[c] = 0
    /\ running' = [running EXCEPT ![c] = TRUE]
    /\ UNCHANGED <<supervised, procs, conn, peer, sent, answered>>

\* handleConn: the next request line.
Scan(c) ==
    /\ conn[c] = "open" /\ ~running[c] /\ answered[c] < sent[c]
    /\ running' = [running EXCEPT ![c] = TRUE]
    /\ UNCHANGED <<supervised, procs, conn, peer, sent, answered>>

\* handleConn: dispatch is done, the response is written.
Answer(c) ==
    /\ running[c]
    /\ running' = [running EXCEPT ![c] = FALSE]
    /\ answered' = [answered EXCEPT ![c] = answered[c] + 1]
    /\ UNCHANGED <<supervised, procs, conn, peer, sent>>

\* handleConn: end of input, or a line too long for the scanner; what the
\* client sent behind it is dropped with the connection.
EndOfInput(c) ==
    /\ conn[c] = "open" /\ ~running[c]
    /\ EndConns({c})
    /\ UNCHANGED <<supervised, procs>>

MainStep(i) == \/ SetUp(i) \/ StatSocket(i) \/ RemoveSocket(i) \/ Bind(i) \/ ListenFails(i)
               \/ Spawn(i) \/ Arm(i) \/ CloseListener(i) \/ Drain(i) \/ Exit(i)

Next == \/ \E i \in Inst : \/ Launch(i) \/ MainStep(i) \/ SetUpFails(i)
                           \/ Signal(i) \/ Kill(i) \/ AcceptFails(i)
        \/ \E c \in Conn : \/ Connect(c) \/ Send(c) \/ Accept(c) \/ Scan(c)
                           \/ Answer(c) \/ EndOfInput(c)

\* The goroutines of a living process are scheduled fairly and a handler ends
\* (FileStore!EveryRequestAnswered).  Nothing is assumed of clients or systemd.
Fairness == /\ \A i \in Inst : /\ WF_vars(MainStep(i))
                               /\ WF_vars(~listening[i] /\ AcceptFails(i))
            /\ \A c \in Conn : WF_vars(Accept(c)) /\ WF_vars(Scan(c) \/ Answer(c))

Spec == Init /\ [][Next]_vars
FairSpec == Spec /\ Fairness
--------------------------------------------------------------------------------
\* Types of the processes' and the connections' state.
TypeOK ==
    /\ supervised \in BOOLEAN
    /\ path \in Inst \cup {NoInst}
    /\ main \in [Inst -> {"new", "setup", "stat", "remove", "bind", "spawn", "arm", "wait",
                          "drain", "join"} \cup Ended]
    /\ listening \in [Inst -> BOOLEAN]
    /\ accept \in [Inst -> {"none", "loop", "returned"}]
    /\ sig \in [Inst -> BOOLEAN]
    /\ late \in [Inst -> BOOLEAN]
    /\ conn \in [Conn -> {"none", "queued", "open"}]
    /\ peer \in [Conn -> Inst \cup {NoInst}]
    /\ sent \in [Conn -> 0 .. MaxReq]
    /\ answered \in [Conn -> 0 .. MaxReq]
    /\ running \in [Conn -> BOOLEAN]

\* Where a process stands relative to the socket path when systemd runs one at
\* a time: nobody else touches the path between its stat and its close.
SocketOwned ==
    supervised =>
        /\ \A i, j \in Inst : Alive(i) /\ Alive(j) => i = j
        /\ \A i \in Inst : main[i] = "remove" => path # NoInst
        /\ \A i \in Inst : main[i] = "bind" => path = NoInst
        /\ \A i \in Inst : main[i] \in {"spawn", "arm", "wait"} => path = i /\ listening[i]

\* Requests are answered one at a time, by a living process, on a connection it
\* has accepted; connections queue at an open listener only, and only a process
\* told to stop closes its own.
HandlersLive ==
    /\ \A i \in Inst : /\ listening[i] => main[i] \in {"spawn", "arm", "wait"}
                       /\ main[i] \in {"drain", "join"} => sig[i]
    /\ \A c \in Conn :
            /\ answered[c] <= sent[c]
            /\ running[c] => conn[c] = "open" /\ answered[c] < sent[c]
            /\ IF conn[c] = "none" THEN peer[c] = NoInst
                                   ELSE peer[c] # NoInst /\ Alive(peer[c])
            /\ conn[c] = "queued" => listening[peer[c]]

\* Under systemd a process that comes as far as Listen is never kept from the socket
\* path, whatever its predecessor left there ("the service removes any stale socket
\* file on startup", cogmemory.service).  And a process ends with success only when
\* it was told to: Restart=on-failure would not start it again.
RestartsCleanly ==
    \A i \in Inst : /\ supervised => main[i] # "failed"
                    /\ main[i] = "stopped" => sig[i]

\* The inductive invariant.
DaemonInv == TypeOK /\ SocketOwned /\ HandlersLive /\ RestartsCleanly

\* A signalled process ends, however long its handlers take: Serve returns
\* because the listener is closed, and the drain is bounded.
SignalStops == \A i \in Inst : sig[i] ~> main[i] \in Ended

\* A connection does not wait for another one: it is accepted, or reset.
QueuedIsTaken == \A c \in Conn : conn[c] = "queued" ~> conn[c] # "queued"

\* Every request line sent is answered, unless its connection ends first.
RequestsAnswered ==
    \A c \in Conn : answered[c] < sent[c] ~> answered[c] = sent[c]

\* A process told to stop exits in the middle of a request only after the
\* shutdown timeout (GracefulShutdown: "waits up to timeout for in-flight
\* connections to finish").
DrainsBeforeExit ==
    [][\A i \in Inst : \A c \in Conn :
          main[i] = "join" /\ main'[i] = "stopped" /\ running[c] /\ peer[c] = i
          => late[i]]_vars
================================================================================
