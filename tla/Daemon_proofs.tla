----------------------------- MODULE Daemon_proofs -----------------------------
(***************************************************************************)
(* The invariant of Daemon for any number of processes and connections,    *)
(* and what it says of a supervised process: Listen always gets it the     *)
(* socket path.                                                            *)
(***************************************************************************)
EXTENDS Daemon, TLAPS

\* The end of a process keeps the types of what it touches.
LEMMA DieTyped ==
    ASSUME TypeOK, NEW i \in Inst, NEW how \in Ended, Die(i, how)
    PROVE  /\ main' = [main EXCEPT ![i] = how]
           /\ main' \in [Inst -> {"new", "setup", "stat", "remove", "bind", "spawn", "arm",
                                  "wait", "drain", "join"} \cup Ended]
           /\ listening' \in [Inst -> BOOLEAN]
           /\ accept' \in [Inst -> {"none", "loop", "returned"}]
           /\ conn' \in [Conn -> {"none", "queued", "open"}]
           /\ peer' \in [Conn -> Inst \cup {NoInst}]
           /\ sent' \in [Conn -> 0 .. MaxReq]
           /\ answered' \in [Conn -> 0 .. MaxReq]
           /\ running' \in [Conn -> BOOLEAN]
  BY DaemonAssumption DEF TypeOK, Die, Goto, EndConns

\* The end of a process disturbs neither the ownership of the path nor the
\* handlers of the others.
LEMMA DieKeeps ==
    ASSUME DaemonInv, NEW i \in Inst, NEW how \in Ended, Die(i, how),
           UNCHANGED <<supervised, path>>, \A j \in Inst : sig[j] => sig'[j]
    PROVE  SocketOwned' /\ HandlersLive'
  <1>. USE DEF DaemonInv
  <1>1. /\ main' = [main EXCEPT ![i] = how] /\ how \in {"stopped", "misconfigured", "failed", "killed"}
        /\ listening' = [listening EXCEPT ![i] = FALSE]
    <2>1. main' = [main EXCEPT ![i] = how]
      BY DieTyped
    <2>2. listening' = [listening EXCEPT ![i] = FALSE]
      BY DEF Die
    <2>. QED BY <2>1, <2>2 DEF Ended
  <1>2. SocketOwned'
    BY <1>1 DEF SocketOwned, Alive, TypeOK, Ended
  <1>3. ASSUME NEW j \in Inst
        PROVE  /\ listening'[j] => main'[j] \in {"spawn", "arm", "wait"}
               /\ main'[j] \in {"drain", "join"} => sig'[j]
    BY <1>1 DEF HandlersLive, TypeOK
  <1>4. ASSUME NEW c \in Conn
        PROVE  /\ answered'[c] <= sent'[c]
               /\ running'[c] => conn'[c] = "open" /\ answered'[c] < sent'[c]
               /\ IF conn'[c] = "none" THEN peer'[c] = NoInst
                                       ELSE peer'[c] # NoInst /\ Alive(peer[c])'
               /\ conn'[c] = "queued" => listening'[peer'[c]]
    <2>1. CASE peer[c] = i
      <3>1. /\ conn'[c] = "none" /\ peer'[c] = NoInst /\ sent'[c] = 0
            /\ answered'[c] = 0 /\ running'[c] = FALSE
        BY <2>1 DEF Die, EndConns
      <3>. QED BY <3>1
    <2>2. CASE peer[c] # i
      <3>1. /\ conn'[c] = conn[c] /\ peer'[c] = peer[c] /\ sent'[c] = sent[c]
            /\ answered'[c] = answered[c] /\ running'[c] = running[c]
        BY <2>2 DEF Die, EndConns, TypeOK
      <3>. QED BY <1>1, <2>2, <3>1 DEF HandlersLive, Alive, TypeOK, Ended
    <2>. QED BY <2>1, <2>2
  <1>. QED BY <1>2, <1>3, <1>4 DEF HandlersLive

LEMMA InitInv == Init => DaemonInv
  BY DaemonAssumption DEF Init, DaemonInv, TypeOK, SocketOwned, HandlersLive, Alive,
                          RestartsCleanly, Ended

\* One step per action.
LEMMA StepInv == DaemonInv /\ [Next]_vars => DaemonInv'
  <1>. SUFFICES ASSUME DaemonInv, [Next]_vars PROVE DaemonInv'
    OBVIOUS
  <1>. USE DaemonAssumption DEF DaemonInv, RestartsCleanly, Ended
  <1>1. ASSUME NEW i \in Inst, NEW how \in Ended, Die(i, how),
               UNCHANGED <<supervised, path, late>>,
               sig' \in [Inst -> BOOLEAN], \A j \in Inst : sig[j] => sig'[j],
               how = "failed" => ~supervised, how = "stopped" => sig[i]
        PROVE  DaemonInv'
    <2>1. TypeOK'
      BY <1>1, DieTyped DEF TypeOK
    <2>2. SocketOwned' /\ HandlersLive'
      BY <1>1, DieKeeps
    <2>3. main' = [main EXCEPT ![i] = how]
      BY <1>1, DieTyped
    <2>4. RestartsCleanly'
      BY <1>1, <2>3 DEF RestartsCleanly, TypeOK
    <2>. QED BY <2>1, <2>2, <2>4
  <1>2. ASSUME NEW i \in Inst, Launch(i) PROVE DaemonInv'
    BY <1>2 DEF Launch, Goto, TypeOK, SocketOwned, HandlersLive, Alive, conns
  <1>22. ASSUME NEW i \in Inst, SetUp(i) PROVE DaemonInv'
    BY <1>22 DEF SetUp, Goto, TypeOK, SocketOwned, HandlersLive, Alive, conns
  <1>23. ASSUME NEW i \in Inst, SetUpFails(i) PROVE DaemonInv'
    BY <1>1, <1>23 DEF SetUpFails, TypeOK
  <1>3. ASSUME NEW i \in Inst, StatSocket(i) PROVE DaemonInv'
    BY <1>3 DEF StatSocket, Goto, TypeOK, SocketOwned, HandlersLive, Alive, conns
  <1>4. ASSUME NEW i \in Inst, RemoveSocket(i) PROVE DaemonInv'
    BY <1>4 DEF RemoveSocket, Goto, TypeOK, SocketOwned, HandlersLive, Alive, conns
  <1>5. ASSUME NEW i \in Inst, Bind(i) PROVE DaemonInv'
    BY <1>5 DEF Bind, Goto, TypeOK, SocketOwned, HandlersLive, Alive, conns
  <1>6. ASSUME NEW i \in Inst, ListenFails(i) PROVE DaemonInv'
    BY <1>1, <1>6 DEF ListenFails, TypeOK, SocketOwned
  <1>7. ASSUME NEW i \in Inst, Spawn(i) PROVE DaemonInv'
    BY <1>7 DEF Spawn, Goto, TypeOK, SocketOwned, HandlersLive, Alive, conns
  <1>8. ASSUME NEW i \in Inst, Arm(i) PROVE DaemonInv'
    BY <1>8 DEF Arm, Goto, TypeOK, SocketOwned, HandlersLive, Alive, conns
  <1>9. ASSUME NEW i \in Inst, CloseListener(i) PROVE DaemonInv'
    <2>. DEFINE C == {c \in Conn : peer[c] = i /\ conn[c] = "queued"}
    <2>1. /\ main' = [main EXCEPT ![i] = "drain"] /\ main[i] = "wait"
          /\ listening' = [listening EXCEPT ![i] = FALSE]
          /\ path' = NoInst /\ EndConns(C)
          /\ UNCHANGED <<supervised, accept, sig, late>>
      BY <1>9 DEF CloseListener, Goto
    <2>2. TypeOK'
      BY <2>1 DEF TypeOK, EndConns
    <2>3. SocketOwned'
      BY <2>1 DEF SocketOwned, Alive, TypeOK
    <2>4. ASSUME NEW c \in Conn
          PROVE  /\ answered'[c] <= sent'[c]
                 /\ running'[c] => conn'[c] = "open" /\ answered'[c] < sent'[c]
                 /\ IF conn'[c] = "none" THEN peer'[c] = NoInst
                                         ELSE peer'[c] # NoInst /\ Alive(peer[c])'
                 /\ conn'[c] = "queued" => listening'[peer'[c]]
      <3>1. CASE c \in C
        <4>1. /\ conn'[c] = "none" /\ peer'[c] = NoInst /\ sent'[c] = 0
              /\ answered'[c] = 0 /\ running'[c] = FALSE
          BY <2>1, <3>1 DEF EndConns
        <4>. QED BY <4>1
      <3>2. CASE c \notin C
        <4>1. /\ conn'[c] = conn[c] /\ peer'[c] = peer[c] /\ sent'[c] = sent[c]
              /\ answered'[c] = answered[c] /\ running'[c] = running[c]
          BY <2>1, <3>2 DEF EndConns, TypeOK
        <4>. QED BY <2>1, <3>2, <4>1 DEF HandlersLive, Alive, TypeOK
      <3>. QED BY <3>1, <3>2
    <2>5. ASSUME NEW j \in Inst
          PROVE  /\ listening'[j] => main'[j] \in {"spawn", "arm", "wait"}
                 /\ main'[j] \in {"drain", "join"} => sig'[j]
      <3>1. sig[i] /\ sig' = sig
        BY <1>9, <2>1 DEF CloseListener
      <3>2. CASE j = i
        BY <2>1, <3>1, <3>2 DEF TypeOK
      <3>3. CASE j # i
        BY <2>1, <3>3 DEF HandlersLive, TypeOK
      <3>. QED BY <3>2, <3>3
    <2>6. HandlersLive'
      BY <2>4, <2>5 DEF HandlersLive
    <2>7. RestartsCleanly'
      BY <2>1 DEF TypeOK
    <2>. QED BY <2>2, <2>3, <2>6, <2>7
  <1>10. ASSUME NEW i \in Inst, Drain(i) PROVE DaemonInv'
    <2>1. /\ main[i] = "drain" /\ main' = [main EXCEPT ![i] = "join"]
          /\ late' = late \/ late' = [late EXCEPT ![i] = TRUE]
          /\ UNCHANGED <<supervised, path, listening, accept, sig>>
          /\ UNCHANGED <<conn, peer, sent, answered, running>>
      BY <1>10 DEF Drain, Goto, conns
    <2>2. TypeOK'
      BY <2>1 DEF TypeOK
    <2>3. SocketOwned'
      BY <2>1 DEF TypeOK, SocketOwned, Alive
    <2>4. HandlersLive'
      BY <2>1 DEF TypeOK, HandlersLive, Alive
    <2>5. RestartsCleanly'
      BY <2>1 DEF TypeOK
    <2>. QED BY <2>2, <2>3, <2>4, <2>5
  <1>11. ASSUME NEW i \in Inst, Exit(i) PROVE DaemonInv'
    BY <1>1, <1>11 DEF Exit, TypeOK, HandlersLive
  <1>12. ASSUME NEW i \in Inst, Signal(i) PROVE DaemonInv'
    <2>1. CASE main[i] = "wait"
      BY <1>12, <2>1 DEF Signal, TypeOK, SocketOwned, HandlersLive, Alive, conns
    <2>2. CASE main[i] # "wait"
      BY <1>1, <1>12, <2>2 DEF Signal, TypeOK
    <2>. QED BY <2>1, <2>2
  <1>13. ASSUME NEW i \in Inst, Kill(i) PROVE DaemonInv'
    BY <1>1, <1>13 DEF Kill, TypeOK
  <1>14. ASSUME NEW i \in Inst, AcceptFails(i) PROVE DaemonInv'
    BY <1>14 DEF AcceptFails, TypeOK, SocketOwned, HandlersLive, Alive, conns
  <1>15. ASSUME NEW c \in Conn, Connect(c) PROVE DaemonInv'
    BY <1>15 DEF Connect, TypeOK, SocketOwned, HandlersLive, Alive, procs
  <1>16. ASSUME NEW c \in Conn, Send(c) PROVE DaemonInv'
    BY <1>16 DEF Send, TypeOK, SocketOwned, HandlersLive, Alive, procs
  <1>17. ASSUME NEW c \in Conn, Accept(c) PROVE DaemonInv'
    BY <1>17 DEF Accept, TypeOK, SocketOwned, HandlersLive, Alive, procs
  <1>18. ASSUME NEW c \in Conn, Scan(c) PROVE DaemonInv'
    BY <1>18 DEF Scan, TypeOK, SocketOwned, HandlersLive, Alive, procs
  <1>19. ASSUME NEW c \in Conn, Answer(c) PROVE DaemonInv'
    BY <1>19 DEF Answer, TypeOK, SocketOwned, HandlersLive, Alive, procs
  <1>20. ASSUME NEW c \in Conn, EndOfInput(c) PROVE DaemonInv'
    <2>1. TypeOK' /\ SocketOwned'
      BY <1>20 DEF EndOfInput, EndConns, TypeOK, SocketOwned, Alive, procs
    <2>2. HandlersLive'
      BY <1>20 DEF EndOfInput, EndConns, TypeOK, HandlersLive, Alive, procs
    <2>3. RestartsCleanly'
      BY <1>20 DEF EndOfInput, procs
    <2>. QED BY <2>1, <2>2, <2>3
  <1>21. CASE UNCHANGED vars
    BY <1>21 DEF vars, procs, conns, TypeOK, SocketOwned, HandlersLive, Alive
  <1>. QED
    BY <1>2, <1>3, <1>4, <1>5, <1>6, <1>7, <1>8, <1>9, <1>10, <1>11, <1>12, <1>13,
       <1>14, <1>15, <1>16, <1>17, <1>18, <1>19, <1>20, <1>21, <1>22, <1>23 DEF Next, MainStep

\* The invariant of the daemon's life (main.go, health/health.go, rpc/server.go).
THEOREM DaemonInvariance == Spec => []DaemonInv
  BY InitInv, StepInv, PTL DEF Spec

\* Under systemd a process that reaches Listen gets the socket path: a stale socket
\* file is removed and nobody else binds in between; and it ends with success only
\* after a signal.  It may still refuse to start (SetUpFails).
THEOREM TakesOverPath == Spec => []RestartsCleanly
  <1>1. DaemonInv => RestartsCleanly
    BY DEF DaemonInv
  <1>. QED BY <1>1, DaemonInvariance, PTL
================================================================================
