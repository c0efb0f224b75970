------------------------------ MODULE AtomicStore ------------------------------
(***************************************************************************)
(* What the store promises a client: a map from paths to contents on which *)
(* every request takes effect in one step between its invocation and its   *)
(* response ("a concurrent-safe daemon", README.md).  An append to a       *)
(* missing path may create the file empty first (O_CREATE), and an         *)
(* operation that meets an I/O error leaves the file alone, except an      *)
(* append, which may have left its text or a prefix of it.                 *)
(***************************************************************************)
EXTENDS StoreRequest

CONSTANTS Proc, Ops, Scope, InitContents, Faults, Tearing

VARIABLES file,    \* file[q]: the content of path q, or Missing
          phase,   \* phase[p]: "idle", "pending" or "done"
          request, \* request[p]: what p asked for
          result   \* result[p]: the answer, once done

vars == <<file, phase, request, result>>

Init ==
    /\ file \in [Path -> UNION {InitContents[q] : q \in Path}]
    /\ \A q \in Path : file[q] \in InitContents[q]
    /\ phase = [p \in Proc |-> "idle"]
    /\ request = [p \in Proc |-> NoReq]
    /\ result = [p \in Proc |-> NoOutcome]

Invoke(p) ==
    /\ phase[p] = "idle"
    /\ phase' = [phase EXCEPT ![p] = "pending"]
    /\ \E r \in Request :
        /\ r.path \in Scope[p] /\ r.op \in Ops[r.path]
        /\ r.op = "move" => r.to \in Scope[p] /\ r.op \in Ops[r.to]
        /\ request' = [request EXCEPT ![p] = r]
    /\ UNCHANGED <<file, result>>

Pending(p, ops) == phase[p] = "pending" /\ request[p].op \in ops

Decide(p, ok, c) ==
    /\ phase' = [phase EXCEPT ![p] = "done"]
    /\ result' = [result EXCEPT ![p] = [ok |-> ok, content |-> c]]
    /\ UNCHANGED request

Here(p) == file[request[p].path]
Put(p, c) == file' = [file EXCEPT ![request[p].path] = c]

Read(p) ==
    /\ Pending(p, Readers)
    /\ IF Here(p) = Missing
       THEN Decide(p, request[p].op = "read", Empty)
       ELSE Decide(p, TRUE, Here(p))
    /\ UNCHANGED file

\* Write, append, section append and patch of a path that can take them.
Update(p) ==
    /\ Pending(p, OpName \ (Readers \cup {"move"}))
    /\ IF Here(p) = Missing
       THEN request[p].op \in {"write", "append"} /\ Put(p, Rewritten(request[p], Empty))
       ELSE Accepts(request[p], Here(p)) /\ Put(p, Rewritten(request[p], Here(p)))
    /\ Decide(p, TRUE, Empty)

\* Section append and patch of a path that cannot take them.
Reject(p) ==
    /\ Pending(p, {"section", "patch"})
    /\ Here(p) # Missing => ~Accepts(request[p], Here(p))
    /\ Decide(p, FALSE, Empty)
    /\ UNCHANGED file

Move(p) ==
    /\ Pending(p, {"move"})
    /\ IF Here(p) = Missing \/ file[request[p].to] # Missing
       THEN Decide(p, FALSE, Empty) /\ UNCHANGED file
       ELSE /\ file' = [file EXCEPT ![request[p].path] = Missing,
                                    ![request[p].to] = Here(p)]
            /\ Decide(p, TRUE, Empty)

Touch(p) ==
    /\ Pending(p, {"append"})
    /\ Here(p) = Missing
    /\ Put(p, Empty)
    /\ UNCHANGED <<phase, request, result>>

IOError(p) ==
    /\ Pending(p, OpName)
    /\ Decide(p, FALSE, Empty)
    /\ \/ "io" \in Faults /\ UNCHANGED file
       \/ /\ request[p].path \in Tearing /\ request[p].op = "append"
          /\ Here(p) # Missing
          /\ \/ Put(p, Appended(Here(p), request[p].text))
             \/ Put(p, AppendedShort(Here(p)))

Respond(p) ==
    /\ phase[p] = "done"
    /\ phase' = [phase EXCEPT ![p] = "idle"]
    /\ request' = [request EXCEPT ![p] = NoReq]
    /\ result' = [result EXCEPT ![p] = NoOutcome]
    /\ UNCHANGED file

\* A restart forgets what it was asked; what took effect stays.
Crash ==
    /\ "crash" \in Faults
    /\ phase' = [p \in Proc |-> "idle"]
    /\ request' = [p \in Proc |-> NoReq]
    /\ result' = [p \in Proc |-> NoOutcome]
    /\ UNCHANGED file

Next == \/ \E p \in Proc : \/ Invoke(p) \/ Read(p) \/ Update(p) \/ Reject(p)
                          \/ Move(p) \/ Touch(p) \/ IOError(p) \/ Respond(p)
        \/ Crash

Spec == Init /\ [][Next]_vars
================================================================================
