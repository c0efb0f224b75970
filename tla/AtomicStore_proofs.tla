--------------------------- MODULE AtomicStore_proofs --------------------------
(***************************************************************************)
(* FileStore implements AtomicStore for any number of handlers, paths and  *)
(* requests, with I/O errors and crashes, as long as the clients share the *)
(* paths as Sharing says.                                                  *)
(***************************************************************************)
EXTENDS FileStore_proofs

\* Where requests and descriptors are.  Requests stay in the scope of their client.
Allowed(p) ==
    pc[p] # "idle" =>
        /\ req[p].path \in Scope[p] /\ req[p].op \in Ops[req[p].path]
        /\ req[p].op = "move" => req[p].to \in Scope[p] /\ "move" \in Ops[req[p].to]

Active(p) == pc[p] \notin {"idle", "reply"}

\* The path of a request names the inode that the request has open, unless it was
\* replaced by a rename of another client, and then nothing names that inode.
Placed(p) ==
    Active(p) /\ fd[p] # NoIno =>
        \/ fd[p] = dir[req[p].path]
        \/ ByRename(req[p].path) /\ fd[p] \notin Linked

\* What is appended to is there, and is never rewritten.
WholeAt(q) == Grown(q) => dir[q] # NoIno /\ data[dir[q]] \in Whole
NoRewrite(p) == pc[p] \in {"create", "fill", "publish"} => ~Grown(req[p].path)

\* Nothing appears at the destination that a move has found free.
FreeTarget(p) == pc[p] = "rename" => dir[req[p].to] = NoIno

SInv == /\ \A p \in Proc : Allowed(p) /\ Placed(p) /\ NoRewrite(p) /\ FreeTarget(p)
        /\ \A q \in Path : WholeAt(q)

\* A path that is shared, and neither only read nor replaced, is grown; one that is
\* moved has one client.
LEMMA SharingCases ==
    ASSUME Sharing, NEW q \in Path
    PROVE  /\ "move" \in Ops[q] => Owned(q)
           /\ Ops[q] \cap {"section", "patch"} # {} => Owned(q)
           /\ "append" \in Ops[q] => Owned(q) \/ Grown(q)
           /\ "append" \in Ops[q] => ~ByRename(q)
           /\ "write" \in Ops[q] => ~Grown(q)
  BY DEF Sharing, ByRename, Grown, AppendOnly

\* The initial states satisfy the invariant.
LEMMA InitSInv == Init => SInv
<1> SUFFICES ASSUME Init PROVE SInv
  OBVIOUS
<1>1. PICK start \in [Path -> UNION {InitContents[q] : q \in Path}] :
        /\ \A q \in Path : start[q] \in InitContents[q]
        /\ dir = [q \in Path |-> IF start[q] = Missing THEN NoIno ELSE Home[q]]
        /\ data = [i \in Ino |->
                     IF \E q \in Path : dir[q] = i
                     THEN start[CHOOSE q \in Path : dir[q] = i] ELSE Empty]
  BY DEF Init
<1>2. ASSUME NEW q \in Path, Grown(q)
      PROVE  dir[q] # NoIno /\ data[dir[q]] \in Whole
  <2>1. start[q] \in Whole /\ start[q] # Missing
    BY <1>1, <1>2, MissingAssumption DEF Grown, Whole
  <2>2. dir[q] = Home[q] /\ Home[q] \in Ino /\ Home[q] # NoIno
    BY <1>1, <2>1, StoreAssumption
  <2> DEFINE r == CHOOSE x \in Path : dir[x] = Home[q]
  <2>3. r \in Path /\ dir[r] = Home[q]
    BY <2>2
  <2>4. r = q
    <3> HIDE DEF r
    <3>1. dir[r] = Home[r]
      BY <1>1, <2>2, <2>3
    <3> QED
      BY <2>3, <3>1, StoreAssumption
  <2>5. data[Home[q]] = start[r]
    BY <1>1, <2>2
  <2> QED
    BY <2>1, <2>2, <2>4, <2>5
<1> QED
  BY <1>2 DEF Init, SInv, Allowed, Placed, Active, NoRewrite, FreeTarget, WholeAt

\* A step that changes no file disturbs only what is said of its own handler.
LEMMA QuietSInv ==
    ASSUME SInv, NEW p \in Proc, UNCHANGED <<dir, data>>,
           \A r \in Proc \ {p} : pc'[r] = pc[r] /\ req'[r] = req[r] /\ fd'[r] = fd[r],
           Allowed(p)', Placed(p)', NoRewrite(p)', FreeTarget(p)'
    PROVE  SInv'
<1>1. \A r \in Proc \ {p} : Allowed(r)' /\ Placed(r)' /\ NoRewrite(r)' /\ FreeTarget(r)'
  BY DEF SInv, Allowed, Placed, Active, NoRewrite, FreeTarget, Linked
<1>2. \A q \in Path : WholeAt(q)'
  BY DEF SInv, WholeAt
<1> QED
  BY <1>1, <1>2 DEF SInv

\* Starting a request.
LEMMA StartSInv ==
    ASSUME Sharing, IInv, SInv, NEW p \in Proc, Start(p)
    PROVE  SInv'
<1>0. pc[p] \in PC /\ StepOK(p) /\ Allowed(p) /\ Placed(p) /\ NoRewrite(p) /\ FreeTarget(p)
  BY DEF IInv, TypeOK, SInv
<1>1. /\ UNCHANGED <<dir, data>>
      /\ \A r \in Proc \ {p} : pc'[r] = pc[r] /\ req'[r] = req[r] /\ fd'[r] = fd[r]
  BY DEF Start, files, Goto, TypeOK, IInv
<1>2. Allowed(p)' /\ Placed(p)' /\ NoRewrite(p)' /\ FreeTarget(p)'
  <2>1. PICK r \in Request : /\ r.path \in Scope[p] /\ r.op \in Ops[r.path]
                             /\ r.op = "move" => r.to \in Scope[p] /\ r.op \in Ops[r.to]
                             /\ req' = [req EXCEPT ![p] = r]
                             /\ pc' = [pc EXCEPT ![p] = FirstStep(r.op)]
    BY DEF Start, Goto
  <2>2. req'[p] = r /\ pc'[p] = FirstStep(r.op) /\ fd'[p] = NoIno
    BY <1>0, <2>1 DEF Start, StepOK, IInv, TypeOK
  <2>3. pc'[p] = "create" => r.op = "write"
    BY <2>2 DEF FirstStep
  <2>4. pc'[p] \notin {"fill", "publish", "rename"}
    BY <2>2 DEF FirstStep
  <2> QED
    BY <2>1, <2>2, <2>3, <2>4, SharingCases, RequestFields
       DEF Allowed, Placed, NoRewrite, FreeTarget
<1> QED
  BY <1>1, <1>2, QuietSInv

\* Opening an existing file.
LEMMA OpenExistingSInv ==
    ASSUME Sharing, IInv, SInv, NEW p \in Proc, OpenExisting(p)
    PROVE  SInv'
<1>0. pc[p] \in PC /\ StepOK(p) /\ Allowed(p) /\ Placed(p) /\ NoRewrite(p) /\ FreeTarget(p)
  BY DEF IInv, TypeOK, SInv
<1>1. /\ UNCHANGED <<dir, data>>
      /\ \A r \in Proc \ {p} : pc'[r] = pc[r] /\ req'[r] = req[r] /\ fd'[r] = fd[r]
  BY DEF OpenExisting, files, Goto, Finish, TypeOK, IInv
<1>2. Allowed(p)' /\ Placed(p)' /\ NoRewrite(p)' /\ FreeTarget(p)'
  BY <1>0 DEF OpenExisting, files, Goto, Finish, TypeOK, IInv, StepOK, Linked,
     Allowed, Placed, Active, NoRewrite, FreeTarget
<1> QED
  BY <1>1, <1>2, QuietSInv

\* Finding no file.
LEMMA OpenMissingSInv ==
    ASSUME Sharing, IInv, SInv, NEW p \in Proc, OpenMissing(p)
    PROVE  SInv'
<1>0. pc[p] \in PC /\ StepOK(p) /\ Allowed(p) /\ Placed(p) /\ NoRewrite(p) /\ FreeTarget(p)
  BY DEF IInv, TypeOK, SInv
<1>1. /\ UNCHANGED <<dir, data>>
      /\ \A r \in Proc \ {p} : pc'[r] = pc[r] /\ req'[r] = req[r] /\ fd'[r] = fd[r]
  BY DEF OpenMissing, files, Goto, Finish, TypeOK, IInv
<1>2. Allowed(p)' /\ Placed(p)' /\ NoRewrite(p)' /\ FreeTarget(p)'
  BY <1>0 DEF OpenMissing, files, Goto, Finish, TypeOK, IInv, StepOK, Linked,
     Allowed, Placed, Active, NoRewrite, FreeTarget
<1> QED
  BY <1>1, <1>2, QuietSInv

\* Acquiring the lock.
LEMMA LockSInv ==
    ASSUME Sharing, IInv, SInv, NEW p \in Proc, Lock(p)
    PROVE  SInv'
<1>0. pc[p] \in PC /\ StepOK(p) /\ Allowed(p) /\ Placed(p) /\ NoRewrite(p) /\ FreeTarget(p)
  BY DEF IInv, TypeOK, SInv
<1>1. /\ UNCHANGED <<dir, data>>
      /\ \A r \in Proc \ {p} : pc'[r] = pc[r] /\ req'[r] = req[r] /\ fd'[r] = fd[r]
  BY DEF Lock, files, Goto, Finish, TypeOK, IInv
<1>2. Allowed(p)' /\ Placed(p)' /\ NoRewrite(p)' /\ FreeTarget(p)'
  BY <1>0 DEF Lock, files, Goto, Finish, TypeOK, IInv, StepOK, Linked,
     Allowed, Placed, Active, NoRewrite, FreeTarget
<1> QED
  BY <1>1, <1>2, QuietSInv

\* Answering a reader.
LEMMA LookReadSInv ==
    ASSUME Sharing, IInv, SInv, NEW p \in Proc, LookRead(p)
    PROVE  SInv'
<1>0. pc[p] \in PC /\ StepOK(p) /\ Allowed(p) /\ Placed(p) /\ NoRewrite(p) /\ FreeTarget(p)
  BY DEF IInv, TypeOK, SInv
<1>1. /\ UNCHANGED <<dir, data>>
      /\ \A r \in Proc \ {p} : pc'[r] = pc[r] /\ req'[r] = req[r] /\ fd'[r] = fd[r]
  BY DEF LookRead, files, Goto, Finish, TypeOK, IInv
<1>2. Allowed(p)' /\ Placed(p)' /\ NoRewrite(p)' /\ FreeTarget(p)'
  BY <1>0 DEF LookRead, files, Goto, Finish, TypeOK, IInv, StepOK, Linked,
     Allowed, Placed, Active, NoRewrite, FreeTarget
<1> QED
  BY <1>1, <1>2, QuietSInv

\* Rejecting an update.
LEMMA LookRejectSInv ==
    ASSUME Sharing, IInv, SInv, NEW p \in Proc, LookReject(p)
    PROVE  SInv'
<1>0. pc[p] \in PC /\ StepOK(p) /\ Allowed(p) /\ Placed(p) /\ NoRewrite(p) /\ FreeTarget(p)
  BY DEF IInv, TypeOK, SInv
<1>1. /\ UNCHANGED <<dir, data>>
      /\ \A r \in Proc \ {p} : pc'[r] = pc[r] /\ req'[r] = req[r] /\ fd'[r] = fd[r]
  BY DEF LookReject, files, Goto, Finish, TypeOK, IInv
<1>2. Allowed(p)' /\ Placed(p)' /\ NoRewrite(p)' /\ FreeTarget(p)'
  BY <1>0 DEF LookReject, files, Goto, Finish, TypeOK, IInv, StepOK, Linked,
     Allowed, Placed, Active, NoRewrite, FreeTarget
<1> QED
  BY <1>1, <1>2, QuietSInv

\* Deciding how to update: what is grown is appended to in place.
LEMMA LookUpdateSInv ==
    ASSUME Sharing, IInv, SInv, NEW p \in Proc, LookUpdate(p)
    PROVE  SInv'
<1>0. pc[p] \in PC /\ StepOK(p) /\ Allowed(p) /\ Placed(p) /\ NoRewrite(p) /\ FreeTarget(p)
  BY DEF IInv, TypeOK, SInv
<1>1. /\ UNCHANGED <<dir, data>>
      /\ \A r \in Proc \ {p} : pc'[r] = pc[r] /\ req'[r] = req[r] /\ fd'[r] = fd[r]
  BY DEF LookUpdate, files, Goto, Finish, TypeOK, IInv
<1>2. Allowed(p)' /\ Placed(p)' /\ NoRewrite(p)' /\ FreeTarget(p)'
  <2>1. /\ fd[p] # NoIno /\ pc[p] = "look" /\ req[p] \in Request
        /\ req[p].op \in {"append", "section", "patch"}
        /\ req[p].path \in Path
    BY <1>0, ServesRequest, RequestFields DEF LookUpdate, StepOK, IInv, Readers
  <2>2. /\ pc'[p] = IF req[p].op = "append" /\ InPlace(data[fd[p]], req[p].text)
                    THEN "inplace" ELSE "create"
        /\ UNCHANGED <<dir, data, req, fd>>
    BY DEF LookUpdate, Goto, files, IInv, TypeOK
  <2>3. NoRewrite(p)'
    <3> SUFFICES ASSUME Grown(req[p].path)
                 PROVE  pc'[p] = "inplace"
      BY <2>2 DEF NoRewrite
    <3>1. req[p].op = "append"
      BY <1>0, <2>1 DEF Allowed, Grown, AppendOnly
    <3>2. fd[p] = dir[req[p].path]
      BY <1>0, <2>1, <3>1, SharingCases DEF Placed, Active, Allowed
    <3>3. data[fd[p]] \in Whole
      BY <2>1, <3>2 DEF SInv, WholeAt
    <3> QED
      BY <2>2, <3>1, <3>3 DEF InPlace, Whole
  <2> QED
    BY <1>0, <2>1, <2>2, <2>3 DEF Allowed, Placed, Active, FreeTarget, Linked
<1> QED
  BY <1>1, <1>2, QuietSInv

\* Giving up an atomicWrite.
LEMMA WriteFailsSInv ==
    ASSUME Sharing, IInv, SInv, NEW p \in Proc, WriteFails(p)
    PROVE  SInv'
<1>0. pc[p] \in PC /\ StepOK(p) /\ Allowed(p) /\ Placed(p) /\ NoRewrite(p) /\ FreeTarget(p)
  BY DEF IInv, TypeOK, SInv
<1>1. /\ UNCHANGED <<dir, data>>
      /\ \A r \in Proc \ {p} : pc'[r] = pc[r] /\ req'[r] = req[r] /\ fd'[r] = fd[r]
  BY DEF WriteFails, files, Goto, Finish, TypeOK, IInv
<1>2. Allowed(p)' /\ Placed(p)' /\ NoRewrite(p)' /\ FreeTarget(p)'
  BY <1>0 DEF WriteFails, files, Goto, Finish, TypeOK, IInv, StepOK, Linked,
     Allowed, Placed, Active, NoRewrite, FreeTarget
<1> QED
  BY <1>1, <1>2, QuietSInv

\* Checking the destination of a move.
LEMMA MoveStatSInv ==
    ASSUME Sharing, IInv, SInv, NEW p \in Proc, MoveStat(p)
    PROVE  SInv'
<1>0. pc[p] \in PC /\ StepOK(p) /\ Allowed(p) /\ Placed(p) /\ NoRewrite(p) /\ FreeTarget(p)
  BY DEF IInv, TypeOK, SInv
<1>1. /\ UNCHANGED <<dir, data>>
      /\ \A r \in Proc \ {p} : pc'[r] = pc[r] /\ req'[r] = req[r] /\ fd'[r] = fd[r]
  BY DEF MoveStat, files, Goto, Finish, TypeOK, IInv
<1>2. Allowed(p)' /\ Placed(p)' /\ NoRewrite(p)' /\ FreeTarget(p)'
  <2>1. /\ fd[p] = NoIno /\ UNCHANGED <<dir, data, req, fd>>
        /\ pc'[p] = IF dir[req[p].to] # NoIno THEN "reply" ELSE "rename"
    BY <1>0 DEF MoveStat, StepOK, Goto, Finish, files, IInv, TypeOK
  <2>2. pc[p] # "idle"
    BY DEF MoveStat
  <2> QED
    BY <1>0, <2>1, <2>2 DEF Allowed, Placed, NoRewrite, FreeTarget
<1> QED
  BY <1>1, <1>2, QuietSInv

\* Answering.
LEMMA ReplySInv ==
    ASSUME Sharing, IInv, SInv, NEW p \in Proc, Reply(p)
    PROVE  SInv'
<1>0. pc[p] \in PC /\ StepOK(p) /\ Allowed(p) /\ Placed(p) /\ NoRewrite(p) /\ FreeTarget(p)
  BY DEF IInv, TypeOK, SInv
<1>1. /\ UNCHANGED <<dir, data>>
      /\ \A r \in Proc \ {p} : pc'[r] = pc[r] /\ req'[r] = req[r] /\ fd'[r] = fd[r]
  BY DEF Reply, files, Goto, Finish, TypeOK, IInv
<1>2. Allowed(p)' /\ Placed(p)' /\ NoRewrite(p)' /\ FreeTarget(p)'
  BY <1>0 DEF Reply, files, Goto, Finish, TypeOK, IInv, StepOK, Linked,
     Allowed, Placed, Active, NoRewrite, FreeTarget
<1> QED
  BY <1>1, <1>2, QuietSInv


\* A busy handler serves a request within the scope of its client.
LEMMA BusyRequest ==
    ASSUME IInv, SInv, NEW r \in Proc, Active(r)
    PROVE  /\ req[r].path \in Path /\ req[r].path \in Scope[r]
           /\ req[r].op \in Ops[req[r].path]
           /\ req[r].op = "move" => /\ req[r].to \in Path /\ req[r].to \in Scope[r]
                                    /\ "move" \in Ops[req[r].to]
<1>1. req[r] \in Request
  BY ServesRequest DEF IInv, Active
<1> QED
  BY <1>1, RequestFields DEF SInv, Allowed, Active

\* Writing an inode that no path names disturbs nothing.
LEMMA DataSInv ==
    ASSUME IInv, SInv, NEW p \in Proc, NEW i, i \notin Linked, NEW c,
           data' = [data EXCEPT ![i] = c], UNCHANGED <<dir, req, fd>>,
           \A r \in Proc \ {p} : pc'[r] = pc[r],
           Allowed(p)', Placed(p)', NoRewrite(p)', FreeTarget(p)'
    PROVE  SInv'
<1>1. \A r \in Proc \ {p} : Allowed(r)' /\ Placed(r)' /\ NoRewrite(r)' /\ FreeTarget(r)'
  BY DEF SInv, Allowed, Placed, Active, NoRewrite, FreeTarget, Linked
<1>2. ASSUME NEW q \in Path, Grown(q)
      PROVE  dir'[q] # NoIno /\ data'[dir'[q]] \in Whole
  <2>1. dir[q] # NoIno /\ data[dir[q]] \in Whole
    BY <1>2 DEF SInv, WholeAt
  <2>2. dir[q] \in Linked /\ dir[q] \in Ino
    BY <2>1 DEF Linked, IInv, TypeOK
  <2> QED
    BY <2>1, <2>2 DEF IInv, TypeOK
<1> QED
  BY <1>1, <1>2 DEF SInv, WholeAt

\* Creating the file of an append: the path has one client.
LEMMA OpenCreateSInv ==
    ASSUME Sharing, IInv, SInv, NEW p \in Proc, OpenCreate(p)
    PROVE  SInv'
<1>0. pc[p] \in PC /\ StepOK(p) /\ Allowed(p) /\ Placed(p) /\ NoRewrite(p) /\ FreeTarget(p)
  BY DEF IInv, TypeOK, SInv
<1>1. PICK i \in FreeIno :
        /\ dir' = [dir EXCEPT ![req[p].path] = i]
        /\ data' = [data EXCEPT ![i] = Empty]
        /\ fd' = [fd EXCEPT ![p] = i]
  <2>1. Fresh(FreeIno) \subseteq FreeIno
    BY StoreAssumption DEF FreeIno
  <2> QED
    BY <2>1 DEF OpenCreate
<1>2. /\ i \in Ino /\ i # NoIno
      /\ \A q \in Path : dir[q] # i
      /\ \A q \in Proc : fd[q] # i
  BY StoreAssumption DEF FreeIno, Linked, Open
<1>3. /\ pc' = [pc EXCEPT ![p] = "lock"] /\ UNCHANGED req
      /\ pc[p] = "open" /\ req[p].op = "append" /\ dir[req[p].path] = NoIno
      /\ Active(p)
  BY DEF OpenCreate, Goto, Active
<1>4. req[p].path \in Path /\ Owned(req[p].path) /\ ~Grown(req[p].path)
  BY <1>3, BusyRequest, SharingCases DEF SInv, WholeAt
<1>5. Linked' \subseteq Linked \cup {i}
  BY <1>1, <1>4 DEF Linked, IInv, TypeOK
<1>6. ASSUME NEW r \in Proc \ {p}
      PROVE  Allowed(r)' /\ Placed(r)' /\ NoRewrite(r)' /\ FreeTarget(r)'
  <2>1. pc'[r] = pc[r] /\ req'[r] = req[r] /\ fd'[r] = fd[r]
    BY <1>1, <1>3 DEF IInv, TypeOK
  <2>2. Active(r) => /\ req[r].path # req[p].path /\ req[r].path \in Path
                     /\ req[r].op = "move" => req[r].to # req[p].path /\ req[r].to \in Path
    BY <1>3, <1>4, BusyRequest DEF Owned
  <2>3. \A q \in Path \ {req[p].path} : dir'[q] = dir[q]
    BY <1>1 DEF IInv, TypeOK
  <2>4. Placed(r)'
    BY <1>2, <1>5, <2>1, <2>2, <2>3 DEF SInv, Placed, Active
  <2>5. FreeTarget(r)'
    <3> SUFFICES ASSUME pc[r] = "rename"
                 PROVE  dir'[req[r].to] = NoIno
      BY <2>1 DEF FreeTarget
    <3>1. Active(r) /\ req[r].op = "move" /\ dir[req[r].to] = NoIno
      BY DEF Active, IInv, StepOK, SInv, FreeTarget
    <3> QED
      BY <2>2, <2>3, <3>1
  <2> QED
    BY <2>1, <2>4, <2>5 DEF SInv, Allowed, NoRewrite
<1>7. Allowed(p)' /\ Placed(p)' /\ NoRewrite(p)' /\ FreeTarget(p)'
  BY <1>0, <1>1, <1>3, <1>4 DEF IInv, TypeOK, Allowed, Placed, NoRewrite, FreeTarget
<1>8. \A q \in Path : WholeAt(q)'
  BY <1>1, <1>2, <1>4 DEF IInv, TypeOK, SInv, WholeAt
<1> QED
  BY <1>6, <1>7, <1>8 DEF SInv

\* Appending in place leaves what is grown whole.
LEMMA AppendInPlaceSInv ==
    ASSUME Sharing, IInv, SInv, NEW p \in Proc, AppendInPlace(p)
    PROVE  SInv'
<1>0. pc[p] \in PC /\ StepOK(p) /\ Allowed(p) /\ Placed(p) /\ NoRewrite(p) /\ FreeTarget(p)
  BY DEF IInv, TypeOK, SInv
<1>1. /\ pc[p] = "inplace" /\ req[p].op = "append" /\ fd[p] \in Ino /\ Active(p)
      /\ pc' = [pc EXCEPT ![p] = "reply"] /\ UNCHANGED <<dir, req, fd>>
  BY <1>0 DEF AppendInPlace, Finish, Goto, StepOK, Active, IInv, TypeOK
<1>2. req[p].path \in Path /\ req[p].text \in Text
  BY <1>1, BusyRequest, ServesRequest, RequestFields DEF IInv
<1>3. PICK c : /\ data' = [data EXCEPT ![fd[p]] = c]
               /\ req[p].path \notin Tearing => c = Appended(data[fd[p]], req[p].text)
  BY DEF AppendInPlace
<1>4. ASSUME NEW q \in Path, Grown(q)
      PROVE  dir'[q] # NoIno /\ data'[dir'[q]] \in Whole
  <2>1. dir[q] # NoIno /\ data[dir[q]] \in Whole /\ dir[q] \in Ino
    BY <1>4 DEF SInv, WholeAt, IInv, TypeOK
  <2>2. CASE dir[q] = fd[p]
    <3>0. req[p].path = q
      <4>1. req[p].op \in Ops[req[p].path] /\ ~ByRename(req[p].path)
        BY <1>1, <1>2, BusyRequest, SharingCases
      <4>2. fd[p] = dir[req[p].path]
        BY <1>0, <1>1, <4>1, StoreAssumption DEF Placed
      <4> QED
        BY <1>2, <2>1, <2>2, <4>2 DEF IInv, NamesDistinct
    <3>1. c = Appended(data[fd[p]], req[p].text)
      BY <1>3, <1>4, <3>0 DEF Grown
    <3>2. c \in Content
      BY <1>2, <2>1, <2>2, <3>1, AppendedContent DEF Whole
    <3>3. c.nl /\ c.lines = Append(data[fd[p]].lines, req[p].text)
      BY <3>1 DEF Appended
    <3>4. data[fd[p]].lines \in Seq(Line)
      BY <2>1, <2>2 DEF Whole, Content
    <3>5. c.lines # <<>>
      BY <3>3, <3>4
    <3> QED
      BY <1>1, <1>3, <2>1, <2>2, <3>2, <3>3, <3>5 DEF Whole, IInv, TypeOK
  <2>3. CASE dir[q] # fd[p]
    BY <1>1, <1>3, <2>1, <2>3 DEF IInv, TypeOK
  <2> QED
    BY <2>2, <2>3
<1>5. \A r \in Proc \ {p} : Allowed(r)' /\ Placed(r)' /\ NoRewrite(r)' /\ FreeTarget(r)'
  BY <1>1 DEF IInv, TypeOK, SInv, Allowed, Placed, Active, NoRewrite, FreeTarget, Linked
<1>6. Allowed(p)' /\ Placed(p)' /\ NoRewrite(p)' /\ FreeTarget(p)'
  BY <1>0, <1>1 DEF IInv, TypeOK, Allowed, Placed, Active, NoRewrite, FreeTarget
<1> QED
  BY <1>4, <1>5, <1>6 DEF SInv, WholeAt

\* Creating a temp file.
LEMMA CreateTempSInv ==
    ASSUME Sharing, IInv, SInv, NEW p \in Proc, CreateTemp(p)
    PROVE  SInv'
<1>0. pc[p] \in PC /\ StepOK(p) /\ Allowed(p) /\ Placed(p) /\ NoRewrite(p) /\ FreeTarget(p)
  BY DEF IInv, TypeOK, SInv
<1>1. PICK i \in FreeIno : data' = [data EXCEPT ![i] = Empty]
  <2>1. Fresh(FreeIno) \subseteq FreeIno
    BY StoreAssumption DEF FreeIno
  <2> QED
    BY <2>1 DEF CreateTemp
<1>2. i \notin Linked
  BY DEF FreeIno
<1>3. /\ pc[p] = "create" /\ pc' = [pc EXCEPT ![p] = "fill"]
      /\ UNCHANGED <<dir, req, fd>>
  BY DEF CreateTemp, Goto
<1>4. Allowed(p)' /\ Placed(p)' /\ NoRewrite(p)' /\ FreeTarget(p)'
  BY <1>0, <1>3 DEF IInv, TypeOK, Allowed, Placed, Active, NoRewrite, FreeTarget, Linked
<1>5. \A r \in Proc \ {p} : pc'[r] = pc[r]
  BY <1>3 DEF IInv, TypeOK
<1> QED
  BY <1>1, <1>2, <1>3, <1>4, <1>5, DataSInv

\* Filling the temp file.
LEMMA FillTempSInv ==
    ASSUME Sharing, IInv, SInv, NEW p \in Proc, FillTemp(p)
    PROVE  SInv'
<1>0. pc[p] \in PC /\ StepOK(p) /\ Allowed(p) /\ Placed(p) /\ NoRewrite(p) /\ FreeTarget(p)
  BY DEF IInv, TypeOK, SInv
<1>1. tmp[p] \notin Linked
  BY <1>0 DEF FillTemp, StepOK, IInv, TempsPrivate
<1>2. /\ pc[p] = "fill" /\ pc' = [pc EXCEPT ![p] = "publish"]
      /\ data' = [data EXCEPT ![tmp[p]] = Rewritten(req[p], buf[p])]
      /\ UNCHANGED <<dir, req, fd>>
  BY DEF FillTemp, Goto
<1>3. Allowed(p)' /\ Placed(p)' /\ NoRewrite(p)' /\ FreeTarget(p)'
  BY <1>0, <1>2 DEF IInv, TypeOK, Allowed, Placed, Active, NoRewrite, FreeTarget, Linked
<1>4. \A r \in Proc \ {p} : pc'[r] = pc[r]
  BY <1>2 DEF IInv, TypeOK
<1> QED
  BY <1>1, <1>2, <1>3, <1>4, DataSInv

\* The rename over a path: the others who have the old inode open only read it.
LEMMA PublishSInv ==
    ASSUME Sharing, IInv, SInv, NEW p \in Proc, Publish(p)
    PROVE  SInv'
<1>0. pc[p] \in PC /\ StepOK(p) /\ Allowed(p) /\ Placed(p) /\ NoRewrite(p) /\ FreeTarget(p)
  BY DEF IInv, TypeOK, SInv
<1>1. /\ pc[p] = "publish" /\ Active(p) /\ pc' = [pc EXCEPT ![p] = "reply"]
      /\ dir' = [dir EXCEPT ![req[p].path] = tmp[p]]
      /\ UNCHANGED <<data, req, fd>>
  BY DEF Publish, Finish, Goto, Active
<1>2. /\ req[p].path \in Path /\ req[p].path \in Scope[p] /\ ~Grown(req[p].path)
      /\ Owned(req[p].path) \/ ByRename(req[p].path)
  BY <1>0, <1>1, BusyRequest DEF NoRewrite, Sharing
<1>3. \A r \in Proc : fd[r] # NoIno => fd[r] # tmp[p]
  BY <1>0, <1>1 DEF StepOK, IInv, TempsPrivate, Open
<1>4. Linked' \subseteq (Linked \ {dir[req[p].path]}) \cup {tmp[p]}
  <2> SUFFICES ASSUME NEW q \in Path, dir'[q] # NoIno, dir'[q] # tmp[p]
               PROVE  dir'[q] \in Linked \ {dir[req[p].path]}
    BY DEF Linked
  <2>1. q # req[p].path /\ dir'[q] = dir[q]
    BY <1>1, <1>2 DEF IInv, TypeOK
  <2> QED
    BY <1>2, <2>1 DEF Linked, IInv, NamesDistinct
<1>5. \A q \in Path \ {req[p].path} : dir'[q] = dir[q]
  BY <1>1 DEF IInv, TypeOK
<1>6. ASSUME NEW r \in Proc \ {p}
      PROVE  Allowed(r)' /\ Placed(r)' /\ NoRewrite(r)' /\ FreeTarget(r)'
  <2>1. pc'[r] = pc[r] /\ req'[r] = req[r] /\ fd'[r] = fd[r]
    BY <1>1 DEF IInv, TypeOK
  <2>2. ASSUME Active(r), fd[r] # NoIno
        PROVE  \/ fd[r] = dir'[req[r].path]
               \/ ByRename(req[r].path) /\ fd[r] \notin Linked'
    <3>1. req[r].path \in Path /\ req[r].path \in Scope[r]
      BY <2>2, BusyRequest
    <3>2. \/ fd[r] = dir[req[r].path]
          \/ ByRename(req[r].path) /\ fd[r] \notin Linked
      BY <2>2 DEF SInv, Placed
    <3>3. fd[r] # tmp[p]
      BY <1>3, <2>2
    <3>4. CASE req[r].path = req[p].path
      <4>1. ByRename(req[r].path)
        BY <1>2, <3>1, <3>4 DEF Owned
      <4> QED
        BY <1>4, <3>2, <3>3, <3>4, <4>1
    <3>5. CASE req[r].path # req[p].path
      BY <1>4, <1>5, <3>1, <3>2, <3>3, <3>5
    <3> QED
      BY <3>4, <3>5
  <2>3. Placed(r)'
    BY <2>1, <2>2 DEF Placed, Active
  <2>4. FreeTarget(r)'
    <3> SUFFICES ASSUME pc[r] = "rename"
                 PROVE  dir'[req[r].to] = NoIno
      BY <2>1 DEF FreeTarget
    <3>1. /\ req[r].to \in Path /\ req[r].to \in Scope[r] /\ "move" \in Ops[req[r].to]
          /\ dir[req[r].to] = NoIno
      BY BusyRequest DEF Active, IInv, StepOK, SInv, FreeTarget
    <3>2. Owned(req[r].to)
      BY <3>1, SharingCases
    <3>3. req[r].to # req[p].path
      BY <1>2, <3>1, <3>2 DEF Owned
    <3> QED
      BY <1>5, <3>1, <3>3
  <2> QED
    BY <2>1, <2>3, <2>4 DEF SInv, Allowed, NoRewrite
<1>7. Allowed(p)' /\ Placed(p)' /\ NoRewrite(p)' /\ FreeTarget(p)'
  BY <1>0, <1>1 DEF IInv, TypeOK, Allowed, Placed, Active, NoRewrite, FreeTarget
<1>8. \A q \in Path : WholeAt(q)'
  BY <1>1, <1>2, <1>5 DEF SInv, WholeAt
<1> QED
  BY <1>6, <1>7, <1>8 DEF SInv

\* Moving a file: nobody else uses its paths.
LEMMA MoveRenameSInv ==
    ASSUME Sharing, IInv, SInv, NEW p \in Proc, MoveRename(p)
    PROVE  SInv'
<1>0. pc[p] \in PC /\ StepOK(p) /\ Allowed(p) /\ Placed(p) /\ NoRewrite(p) /\ FreeTarget(p)
  BY DEF IInv, TypeOK, SInv
<1>1. /\ pc[p] = "rename" /\ Active(p) /\ pc' = [pc EXCEPT ![p] = "reply"]
      /\ UNCHANGED <<data, req, fd>> /\ req[p].op = "move"
      /\ \/ UNCHANGED dir
         \/ dir' = [dir EXCEPT ![req[p].path] = NoIno, ![req[p].to] = dir[req[p].path]]
  BY <1>0 DEF MoveRename, Finish, Goto, Active, StepOK
<1>2. /\ req[p].path \in Path /\ req[p].path \in Scope[p] /\ Owned(req[p].path)
      /\ req[p].to \in Path /\ req[p].to \in Scope[p] /\ Owned(req[p].to)
      /\ ~Grown(req[p].path) /\ ~Grown(req[p].to)
  BY <1>1, BusyRequest, SharingCases DEF Grown, AppendOnly
<1>3. \A q \in Path \ {req[p].path, req[p].to} : dir'[q] = dir[q]
  BY <1>1 DEF IInv, TypeOK
<1>4. Linked' \subseteq Linked
  BY <1>1, <1>2 DEF Linked, IInv, TypeOK
<1>5. ASSUME NEW r \in Proc \ {p}
      PROVE  Allowed(r)' /\ Placed(r)' /\ NoRewrite(r)' /\ FreeTarget(r)'
  <2>1. pc'[r] = pc[r] /\ req'[r] = req[r] /\ fd'[r] = fd[r]
    BY <1>1 DEF IInv, TypeOK
  <2>2. Active(r) => /\ req[r].path \in Path \ {req[p].path, req[p].to}
                     /\ req[r].op = "move" => req[r].to \in Path \ {req[p].path, req[p].to}
    BY <1>2, BusyRequest DEF Owned
  <2>3. Placed(r)'
    BY <1>3, <1>4, <2>1, <2>2 DEF SInv, Placed, Active
  <2>4. FreeTarget(r)'
    BY <1>3, <2>1, <2>2 DEF SInv, FreeTarget, Active, IInv, StepOK
  <2> QED
    BY <2>1, <2>3, <2>4 DEF SInv, Allowed, NoRewrite
<1>6. Allowed(p)' /\ Placed(p)' /\ NoRewrite(p)' /\ FreeTarget(p)'
  BY <1>0, <1>1 DEF IInv, TypeOK, Allowed, Placed, Active, NoRewrite, FreeTarget
<1>7. \A q \in Path : WholeAt(q)'
  BY <1>1, <1>2, <1>3 DEF SInv, WholeAt
<1> QED
  BY <1>5, <1>6, <1>7 DEF SInv

\* Every step preserves the invariant.
LEMMA NextSInv == Sharing /\ IInv /\ SInv /\ [Next]_vars => SInv'
<1> SUFFICES ASSUME Sharing, IInv, SInv, [Next]_vars
             PROVE  SInv'
  OBVIOUS
<1>1. ASSUME NEW p \in Proc, Start(p) \/ Step(p)
      PROVE  SInv'
  BY <1>1, StartSInv, OpenExistingSInv, OpenCreateSInv, OpenMissingSInv, LockSInv,
     LookReadSInv, LookRejectSInv, LookUpdateSInv, AppendInPlaceSInv, CreateTempSInv,
     FillTempSInv, PublishSInv, WriteFailsSInv, MoveStatSInv, MoveRenameSInv, ReplySInv
     DEF Step
<1>2. CASE Crash
  BY <1>2 DEF Crash, files, SInv, Allowed, Placed, Active, NoRewrite, FreeTarget, WholeAt
<1>3. CASE UNCHANGED vars
  BY <1>3 DEF vars, SInv, Allowed, Placed, Active, NoRewrite, FreeTarget, WholeAt, Linked
<1> QED
  BY <1>1, <1>2, <1>3 DEF Next, Rest

\* How paths are shared keeps requests, descriptors and files where they belong.
THEOREM SharingInvariance == Sharing /\ Spec => []SInv
<1> SUFFICES ASSUME Sharing
             PROVE  Spec => []SInv
  OBVIOUS
<1>1. IInv /\ SInv /\ [Next]_vars => SInv'
  BY NextSInv
<1> QED
  BY <1>1, InitSInv, Invariance, PTL DEF Spec

--------------------------------------------------------------------------------
\* The phase of a request at each step.
LEMMA Phases ==
    /\ PhaseOf("idle") = "idle" /\ PhaseOf("reply") = "done"
    /\ \A l \in PC \ {"idle", "reply"} : PhaseOf(l) = "pending"
  BY DEF PhaseOf

\* What the client of p sees of its request.
LEMMA Views ==
    ASSUME IInv, NEW p \in Proc
    PROVE  /\ ReadAtOpen(p) => /\ phase[p] = "done"
                               /\ result[p] = [ok |-> TRUE, content |-> data[fd[p]]]
           /\ ~ReadAtOpen(p) => /\ phase[p] = PhaseOf(pc[p])
                                /\ result[p] = out[p]
           /\ pc[p] \notin {"lock", "look"} => ~ReadAtOpen(p)
           /\ pc[p] = "idle" => phase[p] = "idle"
           /\ pc[p] = "reply" => phase[p] = "done"
           /\ Active(p) /\ ~ReadAtOpen(p) => phase[p] = "pending"
  BY Phases DEF phase, result, ReadAtOpen, Active, IInv, TypeOK

\* No other client notices a step that leaves what it has open.
LEMMA OthersSame ==
    ASSUME NEW p \in Proc,
           \A r \in Proc \ {p} : /\ pc'[r] = pc[r] /\ req'[r] = req[r]
                                 /\ fd'[r] = fd[r] /\ out'[r] = out[r]
                                 /\ ReadAtOpen(r) => data'[fd[r]] = data[fd[r]]
    PROVE  /\ phase' = [phase EXCEPT ![p] = phase'[p]]
           /\ result' = [result EXCEPT ![p] = result'[p]]
<1>1. \A r \in Proc \ {p} : ReadAtOpen(r)' <=> ReadAtOpen(r)
  BY DEF ReadAtOpen
<1>2. \A r \in Proc \ {p} : phase'[r] = phase[r]
  BY <1>1 DEF phase
<1>3. \A r \in Proc \ {p} : result'[r] = result[r]
  BY <1>1 DEF result
<1>4. phase = [r \in Proc |-> phase[r]] /\ phase' = [r \in Proc |-> phase'[r]]
  BY DEF phase
<1>5. result = [r \in Proc |-> result[r]] /\ result' = [r \in Proc |-> result'[r]]
  BY DEF result
<1>6. phase' = [phase EXCEPT ![p] = phase'[p]]
  BY <1>2, <1>4
<1>7. result' = [result EXCEPT ![p] = result'[p]]
  BY <1>3, <1>5
<1> QED
  BY <1>6, <1>7

\* A client whose phase and result stay the same sees nothing.
LEMMA SeesNothing ==
    ASSUME NEW p \in Proc, file' = file, req' = req,
           phase' = [phase EXCEPT ![p] = phase'[p]],
           result' = [result EXCEPT ![p] = result'[p]],
           phase'[p] = phase[p], result'[p] = result[p]
    PROVE  UNCHANGED Atomic!vars
<1>1. phase' = phase
  BY DEF phase
<1>2. result' = result
  BY DEF result
<1> QED
  BY <1>1, <1>2 DEF Atomic!vars

\* Nothing changes in the files that clients see.
LEMMA FilesSame ==
    ASSUME UNCHANGED <<dir, data>>
    PROVE  file' = file
  BY DEF file, FileAt

\* A path without a file is missing, the other ones hold a content.
LEMMA FileView ==
    ASSUME IInv, NEW q \in Path
    PROVE  /\ file[q] = IF dir[q] = NoIno THEN Missing ELSE data[dir[q]]
           /\ file[q] = Missing <=> dir[q] = NoIno
<1>1. file[q] = IF dir[q] = NoIno THEN Missing ELSE data[dir[q]]
  BY DEF file, FileAt
<1>2. dir[q] # NoIno => data[dir[q]] \in Content
  BY DEF IInv, TypeOK
<1> QED
  BY <1>1, <1>2, MissingAssumption

\* An inode that no path names is not seen.
LEMMA UnnamedUnseen ==
    ASSUME IInv, NEW i, i \notin Linked, NEW c, data' = [data EXCEPT ![i] = c],
           UNCHANGED dir
    PROVE  file' = file
<1> SUFFICES ASSUME NEW q \in Path
             PROVE  FileAt(q)' = FileAt(q)
  BY DEF file
<1>1. dir[q] # NoIno => dir[q] \in Linked /\ dir[q] \in Ino
  BY DEF Linked, IInv, TypeOK
<1> QED
  BY <1>1 DEF FileAt, IInv, TypeOK
--------------------------------------------------------------------------------
\* The two specifications speak of the same requests and contents.
LEMMA SameWords ==
    /\ Atomic!Readers = Readers /\ Atomic!OpName = OpName /\ Atomic!Request = Request
    /\ Atomic!NoReq = NoReq /\ Atomic!NoOutcome = NoOutcome /\ Atomic!Empty = Empty
    /\ \A c, t : Atomic!Appended(c, t) = Appended(c, t)
    /\ \A c : Atomic!AppendedShort(c) = AppendedShort(c)
    /\ \A r, c : Atomic!Accepts(r, c) = Accepts(r, c)
    /\ \A r, c : Atomic!Rewritten(r, c) = Rewritten(r, c)
<1>1. /\ Atomic!Readers = Readers /\ Atomic!OpName = OpName
      /\ Atomic!NoReq = NoReq /\ Atomic!NoOutcome = NoOutcome /\ Atomic!Empty = Empty
  BY DEF Atomic!Readers, Atomic!OpName, Atomic!NoReq, Atomic!NoOutcome, Atomic!Empty,
     Readers, OpName, NoReq, NoOutcome, Empty
<1>2. Atomic!Request = Request
  BY <1>1 DEF Atomic!Request, Request
<1>3. /\ \A c, t : Atomic!Appended(c, t) = Appended(c, t)
      /\ \A c : Atomic!AppendedShort(c) = AppendedShort(c)
  BY DEF Atomic!Appended, Atomic!AppendedShort, Appended, AppendedShort
<1>4. \A r, c : Atomic!Accepts(r, c) = Accepts(r, c)
  BY Zenon DEF Atomic!Accepts, Atomic!HasHeading, Atomic!OccursOnce, Atomic!Occurrences,
     Accepts, HasHeading, OccursOnce, Occurrences
<1>5. \A c, h, i : Atomic!InsertionPoint(c, h, i) = InsertionPoint(c, h, i)
  BY Zenon DEF Atomic!InsertionPoint, Atomic!Occurrences, InsertionPoint, Occurrences
<1>6. \A s, i, e : Atomic!SeqExt!InsertAt(s, i, e) = SeqExt!InsertAt(s, i, e)
  BY DEF Atomic!SeqExt!InsertAt, SeqExt!InsertAt
<1>7. \A c, h, t : Atomic!Inserted(c, h, t) = Inserted(c, h, t)
  BY <1>5, <1>6, Zenon DEF Atomic!Inserted, Inserted
<1>8. \A t, nl : Atomic!Written(t, nl) = Written(t, nl)
  BY DEF Atomic!Written, Written
<1>9. \A c, o, t : Atomic!Patched(c, o, t) = Patched(c, o, t)
  BY DEF Atomic!Patched, Patched
<1>10. \A r, c : Atomic!Rewritten(r, c) = Rewritten(r, c)
  BY <1>3, <1>7, <1>8, <1>9, Zenon DEF Atomic!Rewritten, Rewritten
<1> QED
  BY <1>1, <1>2, <1>3, <1>4, <1>10

Implements == Atomic!Next \/ UNCHANGED Atomic!vars

\* Starting a request is its invocation.
LEMMA StartImplements ==
    ASSUME IInv, NEW p \in Proc, Start(p)
    PROVE  Implements
<1>1. /\ pc[p] = "idle" /\ UNCHANGED <<dir, data, fd, out>>
      /\ \A r \in Proc \ {p} : pc'[r] = pc[r] /\ req'[r] = req[r]
  BY DEF Start, files, Goto, IInv, TypeOK
<1>2. PICK r \in Request : /\ r.path \in Scope[p] /\ r.op \in Ops[r.path]
                           /\ r.op = "move" => r.to \in Scope[p] /\ r.op \in Ops[r.to]
                           /\ req' = [req EXCEPT ![p] = r]
                           /\ pc' = [pc EXCEPT ![p] = FirstStep(r.op)]
  BY DEF Start, Goto
<1>3. pc'[p] \in {"create", "stat", "open"}
  BY <1>2 DEF FirstStep, IInv, TypeOK
<1>4. file' = file
  BY <1>1, FilesSame
<1>5. /\ phase' = [phase EXCEPT ![p] = phase'[p]]
      /\ result' = [result EXCEPT ![p] = result'[p]]
  BY <1>1, OthersSame
<1>6. phase[p] = "idle" /\ result[p] = out[p]
  BY <1>1, Views
<1>7. ~ReadAtOpen(p)'
  BY <1>3 DEF ReadAtOpen
<1>8. phase'[p] = "pending" /\ result'[p] = out[p]
  BY <1>1, <1>3, <1>7, Phases DEF phase, result, PC
<1>9. result' = result
  BY <1>5, <1>6, <1>8 DEF result
<1>10. Atomic!Invoke(p)
  BY SameWords, <1>2, <1>4, <1>5, <1>6, <1>8, <1>9 DEF Atomic!Invoke
<1> QED
  BY <1>10 DEF Implements, Atomic!Next

\* Opening a file is the read of it where files are replaced.
LEMMA OpenExistingImplements ==
    ASSUME Sharing, "io" \in Faults, IInv, SInv, NEW p \in Proc, OpenExisting(p)
    PROVE  Implements
<1>0. pc[p] \in PC /\ StepOK(p) /\ Placed(p)
  BY DEF IInv, TypeOK, SInv
<1>1. /\ UNCHANGED <<dir, data, req>>
      /\ \A r \in Proc \ {p} : pc'[r] = pc[r] /\ fd'[r] = fd[r] /\ out'[r] = out[r]
  BY DEF OpenExisting, files, Goto, Finish, IInv, TypeOK
<1>2. file' = file
  BY <1>1, FilesSame
<1>3. /\ phase' = [phase EXCEPT ![p] = phase'[p]]
      /\ result' = [result EXCEPT ![p] = result'[p]]
  BY <1>1, OthersSame
<1>4. /\ pc[p] = "open" /\ pc'[p] = "lock" /\ fd'[p] = dir[req[p].path] /\ out' = out
      /\ dir[req[p].path] # NoIno /\ Active(p)
  BY DEF OpenExisting, Goto, IInv, TypeOK, Active
<1>5. phase[p] = "pending" /\ result[p] = out[p]
  BY <1>4, Views
<1>6. CASE ReadAtOpen(p)'
  <2>1. req[p].op \in Readers /\ req[p].path \in Path
    BY <1>1, <1>4, <1>6, BusyRequest DEF ReadAtOpen
  <2>2. file[req[p].path] # Missing /\ file[req[p].path] = data[dir[req[p].path]]
    BY <1>4, <2>1, FileView
  <2>3. /\ phase'[p] = "done"
        /\ result'[p] = [ok |-> TRUE, content |-> file[req[p].path]]
    BY <1>1, <1>4, <1>6, <2>2 DEF phase, result
  <2>4. Atomic!Read(p)
    BY SameWords, <1>1, <1>2, <1>3, <1>5, <2>1, <2>2, <2>3
       DEF Atomic!Read, Atomic!Pending, Atomic!Here, Atomic!Decide
  <2> QED
    BY <2>4 DEF Implements, Atomic!Next
<1>7. CASE ~ReadAtOpen(p)'
  <2>1. phase'[p] = "pending" /\ result'[p] = out[p]
    BY <1>4, <1>7, Phases DEF phase, result, PC
  <2> QED
    BY <1>1, <1>2, <1>3, <1>5, <2>1, SeesNothing DEF Implements
<1> QED
  BY <1>6, <1>7

\* Finding no file is the read or the rejection of a missing path.
LEMMA OpenMissingImplements ==
    ASSUME Sharing, "io" \in Faults, IInv, SInv, NEW p \in Proc, OpenMissing(p)
    PROVE  Implements
<1>0. pc[p] \in PC /\ StepOK(p) /\ Placed(p)
  BY DEF IInv, TypeOK, SInv
<1>1. /\ UNCHANGED <<dir, data, req>>
      /\ \A r \in Proc \ {p} : pc'[r] = pc[r] /\ fd'[r] = fd[r] /\ out'[r] = out[r]
  BY DEF OpenMissing, files, Goto, Finish, IInv, TypeOK
<1>2. file' = file
  BY <1>1, FilesSame
<1>3. /\ phase' = [phase EXCEPT ![p] = phase'[p]]
      /\ result' = [result EXCEPT ![p] = result'[p]]
  BY <1>1, OthersSame
<1>4. /\ pc[p] = "open" /\ pc'[p] = "reply" /\ Active(p) /\ dir[req[p].path] = NoIno
      /\ out'[p] = [ok |-> (req[p].op = "read"), content |-> Empty]
      /\ req[p].op \in {"read", "outline", "append", "section", "patch"}
  BY <1>0 DEF OpenMissing, Goto, Finish, IInv, TypeOK, Active, StepOK, Readers
<1>5. phase[p] = "pending" /\ file[req[p].path] = Missing
  BY <1>4, Views, FileView, BusyRequest
<1>6. ~ReadAtOpen(p)'
  BY <1>4 DEF ReadAtOpen
<1>7. phase'[p] = "done" /\ result'[p] = [ok |-> (req[p].op = "read"), content |-> Empty]
  BY <1>4, <1>6, Phases DEF phase, result
<1>8. CASE req[p].op \in Readers
  <2>1. Atomic!Read(p)
    BY SameWords, <1>1, <1>2, <1>3, <1>5, <1>7, <1>8
       DEF Atomic!Read, Atomic!Pending, Atomic!Here, Atomic!Decide
  <2> QED
    BY <2>1 DEF Implements, Atomic!Next
<1>9. CASE req[p].op \in {"section", "patch"}
  <2>1. result'[p] = [ok |-> FALSE, content |-> Empty]
    BY <1>7, <1>9
  <2>2. Atomic!Reject(p)
    BY SameWords, <1>1, <1>2, <1>3, <1>5, <1>7, <1>9, <2>1
       DEF Atomic!Reject, Atomic!Pending, Atomic!Here, Atomic!Decide
  <2> QED
    BY <2>2 DEF Implements, Atomic!Next
<1>10. CASE req[p].op = "append"
  <2>1. result'[p] = [ok |-> FALSE, content |-> Empty]
    BY <1>7, <1>10
  <2>2. Atomic!IOError(p)
    BY SameWords, <1>1, <1>2, <1>3, <1>5, <1>7, <1>10, <2>1
       DEF Atomic!IOError, Atomic!Pending, Atomic!Decide, OpName
  <2> QED
    BY <2>2 DEF Implements, Atomic!Next
<1> QED
  BY <1>4, <1>8, <1>9, <1>10 DEF Readers

\* Acquiring the lock is not seen.
LEMMA LockImplements ==
    ASSUME Sharing, "io" \in Faults, IInv, SInv, NEW p \in Proc, Lock(p)
    PROVE  Implements
<1>0. pc[p] \in PC /\ StepOK(p) /\ Placed(p)
  BY DEF IInv, TypeOK, SInv
<1>1. /\ UNCHANGED <<dir, data, req>>
      /\ \A r \in Proc \ {p} : pc'[r] = pc[r] /\ fd'[r] = fd[r] /\ out'[r] = out[r]
  BY DEF Lock, files, Goto, Finish, IInv, TypeOK
<1>2. file' = file
  BY <1>1, FilesSame
<1>3. /\ phase' = [phase EXCEPT ![p] = phase'[p]]
      /\ result' = [result EXCEPT ![p] = result'[p]]
  BY <1>1, OthersSame
<1>4. pc[p] = "lock" /\ pc'[p] = "look" /\ UNCHANGED <<fd, out>>
  BY DEF Lock, Goto, IInv, TypeOK
<1>5. ReadAtOpen(p)' <=> ReadAtOpen(p)
  BY <1>1, <1>4 DEF ReadAtOpen
<1>6. PhaseOf("lock") = PhaseOf("look")
  BY Phases DEF PC
<1>7. phase'[p] = phase[p] /\ result'[p] = result[p]
  BY <1>1, <1>4, <1>5, <1>6 DEF phase, result
<1> QED
  BY <1>1, <1>2, <1>3, <1>7, SeesNothing DEF Implements

\* A read that is not settled yet takes effect where it reads.
LEMMA LookReadImplements ==
    ASSUME Sharing, "io" \in Faults, IInv, SInv, NEW p \in Proc, LookRead(p)
    PROVE  Implements
<1>0. pc[p] \in PC /\ StepOK(p) /\ Placed(p)
  BY DEF IInv, TypeOK, SInv
<1>1. /\ UNCHANGED <<dir, data, req>>
      /\ \A r \in Proc \ {p} : pc'[r] = pc[r] /\ fd'[r] = fd[r] /\ out'[r] = out[r]
  BY DEF LookRead, files, Goto, Finish, IInv, TypeOK
<1>2. file' = file
  BY <1>1, FilesSame
<1>3. /\ phase' = [phase EXCEPT ![p] = phase'[p]]
      /\ result' = [result EXCEPT ![p] = result'[p]]
  BY <1>1, OthersSame
<1>4. /\ pc[p] = "look" /\ pc'[p] = "reply" /\ Active(p) /\ req[p].op \in Readers
      /\ fd[p] # NoIno /\ out'[p] = [ok |-> TRUE, content |-> data[fd[p]]]
  BY <1>0 DEF LookRead, Goto, Finish, IInv, TypeOK, Active, StepOK
<1>5. ~ReadAtOpen(p)'
  BY <1>4 DEF ReadAtOpen
<1>6. phase'[p] = "done" /\ result'[p] = [ok |-> TRUE, content |-> data[fd[p]]]
  BY <1>4, <1>5, Phases DEF phase, result
<1>7. CASE ReadAtOpen(p)
  <2>1. phase'[p] = phase[p] /\ result'[p] = result[p]
    BY <1>6, <1>7, Views
  <2> QED
    BY <1>1, <1>2, <1>3, <2>1, SeesNothing DEF Implements
<1>8. CASE ~ReadAtOpen(p)
  <2>1. phase[p] = "pending" /\ fd[p] = dir[req[p].path] /\ req[p].path \in Path
    BY <1>0, <1>4, <1>8, Views, BusyRequest DEF ReadAtOpen, Placed
  <2>2. file[req[p].path] # Missing /\ file[req[p].path] = data[fd[p]]
    BY <1>4, <2>1, FileView
  <2>3. Atomic!Read(p)
    BY SameWords, <1>1, <1>2, <1>3, <1>4, <1>6, <2>1, <2>2
       DEF Atomic!Read, Atomic!Pending, Atomic!Here, Atomic!Decide
  <2> QED
    BY <2>3 DEF Implements, Atomic!Next
<1> QED
  BY <1>7, <1>8


\* A step that changes what one path holds.
LEMMA OneFile ==
    ASSUME NEW q \in Path, NEW c, FileAt(q)' = c,
           \A r \in Path \ {q} : FileAt(r)' = FileAt(r)
    PROVE  file' = [file EXCEPT ![q] = c]
  BY DEF file

\* What an update makes of a file, by the kind of request.
LEMMA Updates ==
    ASSUME NEW r, NEW c
    PROVE  /\ r.op \notin {"section", "patch"} => Accepts(r, c)
           /\ r.op = "write" => Rewritten(r, c) = Rewritten(r, Empty)
           /\ r.op = "append" => Rewritten(r, c) = Appended(c, r.text)
<1>1. r.op \notin {"section", "patch"} => Accepts(r, c)
  BY DEF Accepts
<1>2. r.op = "write" => Rewritten(r, c) = Rewritten(r, Empty)
  BY DEF Rewritten
<1>3. r.op = "append" => Rewritten(r, c) = Appended(c, r.text)
  BY DEF Rewritten
<1> QED
  BY <1>1, <1>2, <1>3

\* Creating the file of an append is seen as an empty file.
LEMMA OpenCreateImplements ==
    ASSUME Sharing, "io" \in Faults, IInv, SInv, NEW p \in Proc, OpenCreate(p)
    PROVE  Implements
<1>0. pc[p] \in PC /\ StepOK(p) /\ Placed(p)
  BY DEF IInv, TypeOK, SInv
<1>1. PICK i \in FreeIno :
        /\ dir' = [dir EXCEPT ![req[p].path] = i]
        /\ data' = [data EXCEPT ![i] = Empty]
        /\ fd' = [fd EXCEPT ![p] = i]
  <2>1. Fresh(FreeIno) \subseteq FreeIno
    BY StoreAssumption DEF FreeIno
  <2> QED
    BY <2>1 DEF OpenCreate
<1>2. /\ i \in Ino /\ i # NoIno
      /\ \A q \in Path : dir[q] # i
      /\ \A q \in Proc : fd[q] # i
  BY StoreAssumption DEF FreeIno, Linked, Open
<1>3. /\ pc' = [pc EXCEPT ![p] = "lock"] /\ UNCHANGED <<req, out>>
      /\ pc[p] = "open" /\ req[p].op = "append" /\ dir[req[p].path] = NoIno
      /\ Active(p)
  BY DEF OpenCreate, Goto, Active
<1>4. req[p].path \in Path
  BY <1>3, BusyRequest
<1>5. file' = [file EXCEPT ![req[p].path] = Empty]
  <2>1. PICK q \in Path : q = req[p].path
    BY <1>4
  <2>2. FileAt(q)' = Empty
    BY <1>1, <1>2, <1>3, <2>1 DEF FileAt, IInv, TypeOK
  <2>3. \A r \in Path \ {q} : FileAt(r)' = FileAt(r)
    BY <1>1, <1>2, <2>1 DEF FileAt, IInv, TypeOK
  <2> QED
    BY <2>1, <2>2, <2>3, OneFile
<1>6. /\ phase' = [phase EXCEPT ![p] = phase'[p]]
      /\ result' = [result EXCEPT ![p] = result'[p]]
  <2>1. ASSUME NEW r \in Proc \ {p}
        PROVE  /\ pc'[r] = pc[r] /\ req'[r] = req[r] /\ fd'[r] = fd[r] /\ out'[r] = out[r]
               /\ ReadAtOpen(r) => data'[fd[r]] = data[fd[r]]
    <3>1. ReadAtOpen(r) => fd[r] \in Ino
      BY DEF ReadAtOpen, IInv, StepOK, TypeOK
    <3> QED
      BY <1>1, <1>2, <1>3, <3>1 DEF IInv, TypeOK
  <2> QED
    BY <2>1, OthersSame
<1>7. ~ReadAtOpen(p) /\ ~ReadAtOpen(p)'
  BY <1>3 DEF ReadAtOpen, Readers
<1>8. phase[p] = "pending" /\ phase'[p] = "pending" /\ result'[p] = result[p]
  BY <1>3, <1>7, Views, Phases DEF phase, result, PC, IInv, TypeOK
<1>9. phase' = phase /\ result' = result
  BY <1>6, <1>8 DEF phase, result
<1>10. file[req[p].path] = Missing
  BY <1>3, <1>4, FileView
<1>11. Atomic!Touch(p)
  BY SameWords, <1>3, <1>5, <1>8, <1>9, <1>10
     DEF Atomic!Touch, Atomic!Pending, Atomic!Here, Atomic!Put
<1> QED
  BY <1>11 DEF Implements, Atomic!Next

\* An update is rejected because of what its path holds.
LEMMA LookRejectImplements ==
    ASSUME Sharing, "io" \in Faults, IInv, SInv, NEW p \in Proc, LookReject(p)
    PROVE  Implements
<1>0. pc[p] \in PC /\ StepOK(p) /\ Placed(p)
  BY DEF IInv, TypeOK, SInv
<1>1. /\ UNCHANGED <<dir, data, req>>
      /\ \A r \in Proc \ {p} : pc'[r] = pc[r] /\ fd'[r] = fd[r] /\ out'[r] = out[r]
  BY DEF LookReject, files, Goto, Finish, IInv, TypeOK
<1>2. file' = file
  BY <1>1, FilesSame
<1>3. /\ phase' = [phase EXCEPT ![p] = phase'[p]]
      /\ result' = [result EXCEPT ![p] = result'[p]]
  BY <1>1, OthersSame
<1>4. /\ pc[p] = "look" /\ pc'[p] = "reply" /\ Active(p) /\ fd[p] # NoIno
      /\ out'[p] = [ok |-> FALSE, content |-> Empty]
      /\ req[p].op \in {"section", "patch"} /\ ~Accepts(req[p], data[fd[p]])
  BY <1>0, Updates DEF LookReject, Goto, Finish, IInv, TypeOK, Active, StepOK
<1>5. ~ReadAtOpen(p) /\ ~ReadAtOpen(p)'
  BY <1>1, <1>4 DEF ReadAtOpen, Readers
<1>6. phase[p] = "pending" /\ phase'[p] = "done" /\ result'[p] = [ok |-> FALSE, content |-> Empty]
  BY <1>4, <1>5, Views, Phases DEF phase, result
<1>7. req[p].path \in Path /\ req[p].op \in Ops[req[p].path]
  BY <1>4, BusyRequest
<1>8. fd[p] = dir[req[p].path]
  BY <1>0, <1>4, <1>7 DEF Placed, ByRename
<1>9. file[req[p].path] # Missing /\ file[req[p].path] = data[fd[p]]
  BY <1>4, <1>7, <1>8, FileView
<1>10. Atomic!Reject(p)
  BY SameWords, <1>1, <1>2, <1>3, <1>4, <1>6, <1>9
     DEF Atomic!Reject, Atomic!Pending, Atomic!Here, Atomic!Decide
<1> QED
  BY <1>10 DEF Implements, Atomic!Next

\* Deciding how to update is not seen.
LEMMA LookUpdateImplements ==
    ASSUME Sharing, "io" \in Faults, IInv, SInv, NEW p \in Proc, LookUpdate(p)
    PROVE  Implements
<1>0. pc[p] \in PC /\ StepOK(p) /\ Placed(p)
  BY DEF IInv, TypeOK, SInv
<1>1. /\ UNCHANGED <<dir, data, req>>
      /\ \A r \in Proc \ {p} : pc'[r] = pc[r] /\ fd'[r] = fd[r] /\ out'[r] = out[r]
  BY DEF LookUpdate, files, Goto, Finish, IInv, TypeOK
<1>2. file' = file
  BY <1>1, FilesSame
<1>3. /\ phase' = [phase EXCEPT ![p] = phase'[p]]
      /\ result' = [result EXCEPT ![p] = result'[p]]
  BY <1>1, OthersSame
<1>4. /\ pc[p] = "look" /\ pc'[p] \in {"inplace", "create"} /\ Active(p)
      /\ req[p].op \notin Readers /\ UNCHANGED <<fd, out>>
  BY <1>0 DEF LookUpdate, Goto, IInv, TypeOK, Active
<1>5. ~ReadAtOpen(p) /\ ~ReadAtOpen(p)'
  BY <1>1, <1>4 DEF ReadAtOpen
<1>6. phase'[p] = phase[p] /\ result'[p] = result[p]
  BY <1>4, <1>5, Phases DEF phase, result, PC
<1> QED
  BY <1>1, <1>2, <1>3, <1>6, SeesNothing DEF Implements

\* An append in place takes effect on the path it was opened by.
LEMMA AppendInPlaceImplements ==
    ASSUME Sharing, "io" \in Faults, IInv, SInv, NEW p \in Proc, AppendInPlace(p)
    PROVE  Implements
<1>0. pc[p] \in PC /\ StepOK(p) /\ Placed(p)
  BY DEF IInv, TypeOK, SInv
<1>1. /\ pc[p] = "inplace" /\ req[p].op = "append" /\ fd[p] \in Ino /\ fd[p] # NoIno
      /\ pc' = [pc EXCEPT ![p] = "reply"] /\ UNCHANGED <<dir, req, fd>> /\ Active(p)
  BY <1>0, StoreAssumption DEF AppendInPlace, Finish, Goto, StepOK, Active, IInv, TypeOK
<1>2. req[p].path \in Path /\ req[p].op \in Ops[req[p].path] /\ ~ByRename(req[p].path)
  BY <1>1, BusyRequest, SharingCases
<1>3. fd[p] = dir[req[p].path]
  BY <1>0, <1>1, <1>2 DEF Placed
<1>4. PICK ok, c :
        /\ ok \in BOOLEAN /\ data' = [data EXCEPT ![fd[p]] = c]
        /\ out' = [out EXCEPT ![p] = [ok |-> ok, content |-> Empty]]
        /\ \/ c = Appended(data[fd[p]], req[p].text)
           \/ c = AppendedShort(data[fd[p]]) /\ ~ok
        /\ ~ok => req[p].path \in Tearing
  BY DEF AppendInPlace, Finish
<1>5. file[req[p].path] # Missing /\ file[req[p].path] = data[fd[p]]
  BY <1>1, <1>2, <1>3, FileView
<1>6. file' = [file EXCEPT ![req[p].path] = c]
  <2>1. PICK q \in Path : q = req[p].path
    BY <1>2
  <2>2. FileAt(q)' = c
    BY <1>1, <1>3, <1>4, <2>1 DEF FileAt, IInv, TypeOK
  <2>3. \A r \in Path \ {q} : dir[r] # NoIno => dir[r] # fd[p] /\ dir[r] \in Ino
    BY <1>1, <1>3, <2>1 DEF IInv, NamesDistinct, TypeOK
  <2>4. \A r \in Path \ {q} : FileAt(r)' = FileAt(r)
    BY <1>1, <1>4, <2>3 DEF FileAt, IInv, TypeOK
  <2> QED
    BY <2>1, <2>2, <2>4, OneFile
<1>7. /\ phase' = [phase EXCEPT ![p] = phase'[p]]
      /\ result' = [result EXCEPT ![p] = result'[p]]
  <2>1. ASSUME NEW r \in Proc \ {p}, ReadAtOpen(r)
        PROVE  data'[fd[r]] = data[fd[r]]
    <3>1. /\ Active(r) /\ ByRename(req[r].path) /\ fd[r] # NoIno /\ fd[r] \in Ino
      BY <2>1 DEF ReadAtOpen, Active, IInv, StepOK, TypeOK
    <3>2. req[r].path \in Path /\ req[r].path # req[p].path
      BY <1>2, <3>1, BusyRequest
    <3>3. \/ fd[r] = dir[req[r].path]
          \/ fd[r] \notin Linked
      BY <3>1 DEF SInv, Placed
    <3>4. fd[p] \in Linked
      BY <1>1, <1>2, <1>3 DEF Linked
    <3>5. fd[r] # fd[p]
      BY <1>1, <1>2, <1>3, <3>2, <3>3, <3>4 DEF IInv, NamesDistinct
    <3> QED
      BY <1>4, <3>1, <3>5 DEF IInv, TypeOK
  <2>2. \A r \in Proc \ {p} : pc'[r] = pc[r] /\ req'[r] = req[r] /\ fd'[r] = fd[r]
                              /\ out'[r] = out[r]
    BY <1>1, <1>4 DEF IInv, TypeOK
  <2> QED
    BY <2>1, <2>2, OthersSame
<1>8. ~ReadAtOpen(p) /\ ~ReadAtOpen(p)'
  BY <1>1 DEF ReadAtOpen, Readers
<1>9. phase[p] = "pending" /\ phase'[p] = "done" /\ result'[p] = [ok |-> ok, content |-> Empty]
  BY <1>1, <1>4, <1>8, Views, Phases DEF phase, result, IInv, TypeOK
<1>10. CASE ok
  <2>1. /\ c = Rewritten(req[p], data[fd[p]]) /\ Accepts(req[p], data[fd[p]])
        /\ result'[p] = [ok |-> TRUE, content |-> Empty]
    BY <1>1, <1>4, <1>9, <1>10, Updates
  <2>2. Atomic!Update(p)
    BY SameWords, <1>1, <1>5, <1>6, <1>7, <1>9, <2>1
       DEF Atomic!Update, Atomic!Pending, Atomic!Here, Atomic!Put, Atomic!Decide,
           OpName, Readers
  <2> QED
    BY <2>2 DEF Implements, Atomic!Next
<1>11. CASE ~ok
  <2>1. result'[p] = [ok |-> FALSE, content |-> Empty]
    <3>1. ok = FALSE
      BY <1>4, <1>11
    <3> QED
      BY <1>9, <3>1
  <2>2. Atomic!IOError(p)
    BY SameWords, <1>1, <1>4, <1>5, <1>6, <1>7, <1>9, <1>11, <2>1
       DEF Atomic!IOError, Atomic!Pending, Atomic!Here, Atomic!Put, Atomic!Decide, OpName
  <2> QED
    BY <2>2 DEF Implements, Atomic!Next
<1> QED
  BY <1>10, <1>11

\* A temp file is not seen.
LEMMA CreateTempImplements ==
    ASSUME Sharing, "io" \in Faults, IInv, SInv, NEW p \in Proc, CreateTemp(p)
    PROVE  Implements
<1>0. pc[p] \in PC /\ StepOK(p) /\ Placed(p)
  BY DEF IInv, TypeOK, SInv
<1>1. /\ pc[p] = "create" /\ pc' = [pc EXCEPT ![p] = "fill"]
      /\ UNCHANGED <<dir, req, fd, out>> /\ Active(p)
  BY DEF CreateTemp, Goto, Active
<1>2. PICK i, c : /\ i \in Ino /\ i \notin Linked /\ i \notin Open
                   /\ data' = [data EXCEPT ![i] = c]
  <2>1. Fresh(FreeIno) \subseteq FreeIno
    BY StoreAssumption DEF FreeIno
  <2> QED
    BY <2>1 DEF CreateTemp, FreeIno
<1>3. file' = file
  BY <1>1, <1>2, UnnamedUnseen
<1>4. ASSUME NEW r \in Proc \ {p}, ReadAtOpen(r)
      PROVE  data'[fd[r]] = data[fd[r]]
  <2>1. fd[r] \in Ino /\ fd[r] \in Open
    BY <1>4 DEF ReadAtOpen, IInv, StepOK, TypeOK, Open
  <2> QED
    BY <1>2, <2>1 DEF IInv, TypeOK
<1>5. \A r \in Proc \ {p} : pc'[r] = pc[r] /\ req'[r] = req[r] /\ fd'[r] = fd[r]
                            /\ out'[r] = out[r]
  BY <1>1 DEF IInv, TypeOK
<1>6. /\ phase' = [phase EXCEPT ![p] = phase'[p]]
      /\ result' = [result EXCEPT ![p] = result'[p]]
  BY <1>4, <1>5, OthersSame
<1>7. ~ReadAtOpen(p) /\ ~ReadAtOpen(p)'
  BY <1>1 DEF ReadAtOpen, IInv, TypeOK
<1>8. PhaseOf("create") = PhaseOf("fill")
  BY Phases DEF PC
<1>9. phase'[p] = phase[p] /\ result'[p] = result[p]
  BY <1>1, <1>7, <1>8 DEF phase, result, IInv, TypeOK
<1> QED
  BY <1>1, <1>3, <1>6, <1>9, SeesNothing DEF Implements

\* What is written to a temp file is not seen.
LEMMA FillTempImplements ==
    ASSUME Sharing, "io" \in Faults, IInv, SInv, NEW p \in Proc, FillTemp(p)
    PROVE  Implements
<1>0. pc[p] \in PC /\ StepOK(p) /\ Placed(p)
  BY DEF IInv, TypeOK, SInv
<1>1. /\ pc[p] = "fill" /\ pc' = [pc EXCEPT ![p] = "publish"]
      /\ UNCHANGED <<dir, req, fd, out>> /\ Active(p)
  BY DEF FillTemp, Goto, Active
<1>2. PICK i, c : /\ i \in Ino /\ i \notin Linked /\ i \notin Open
                   /\ data' = [data EXCEPT ![i] = c]
  <2>1. tmp[p] \in Ino /\ tmp[p] \notin Linked /\ tmp[p] \notin Open
    BY <1>0, <1>1 DEF StepOK, IInv, TempsPrivate, TypeOK
  <2> QED
    BY <2>1 DEF FillTemp
<1>3. file' = file
  BY <1>1, <1>2, UnnamedUnseen
<1>4. ASSUME NEW r \in Proc \ {p}, ReadAtOpen(r)
      PROVE  data'[fd[r]] = data[fd[r]]
  <2>1. fd[r] \in Ino /\ fd[r] \in Open
    BY <1>4 DEF ReadAtOpen, IInv, StepOK, TypeOK, Open
  <2> QED
    BY <1>2, <2>1 DEF IInv, TypeOK
<1>5. \A r \in Proc \ {p} : pc'[r] = pc[r] /\ req'[r] = req[r] /\ fd'[r] = fd[r]
                            /\ out'[r] = out[r]
  BY <1>1 DEF IInv, TypeOK
<1>6. /\ phase' = [phase EXCEPT ![p] = phase'[p]]
      /\ result' = [result EXCEPT ![p] = result'[p]]
  BY <1>4, <1>5, OthersSame
<1>7. ~ReadAtOpen(p) /\ ~ReadAtOpen(p)'
  BY <1>1 DEF ReadAtOpen, IInv, TypeOK
<1>8. PhaseOf("fill") = PhaseOf("publish")
  BY Phases DEF PC
<1>9. phase'[p] = phase[p] /\ result'[p] = result[p]
  BY <1>1, <1>7, <1>8 DEF phase, result, IInv, TypeOK
<1> QED
  BY <1>1, <1>3, <1>6, <1>9, SeesNothing DEF Implements


\* A rename takes effect on what the path holds at that moment.
LEMMA PublishImplements ==
    ASSUME Sharing, "io" \in Faults, IInv, SInv, NEW p \in Proc, Publish(p)
    PROVE  Implements
<1>0. pc[p] \in PC /\ StepOK(p) /\ Placed(p)
  BY DEF IInv, TypeOK, SInv
<1>1. /\ pc[p] = "publish" /\ Active(p) /\ pc' = [pc EXCEPT ![p] = "reply"]
      /\ dir' = [dir EXCEPT ![req[p].path] = tmp[p]]
      /\ out' = [out EXCEPT ![p] = [ok |-> TRUE, content |-> Empty]]
      /\ UNCHANGED <<data, req, fd>> /\ tmp[p] # NoIno
      /\ req[p].op \in {"write", "append", "section", "patch"}
      /\ Accepts(req[p], buf[p]) /\ (fd[p] = NoIno <=> req[p].op = "write")
  BY <1>0 DEF Publish, Finish, Goto, Active, StepOK
<1>2. PICK q \in Path : q = req[p].path /\ req[p].op \in Ops[q]
  BY <1>1, BusyRequest
<1>3. data[tmp[p]] = Rewritten(req[p], buf[p])
  BY <1>1 DEF IInv, TempsPrivate
<1>4. file' = [file EXCEPT ![q] = Rewritten(req[p], buf[p])]
  <2>1. FileAt(q)' = Rewritten(req[p], buf[p])
    BY <1>1, <1>2, <1>3 DEF FileAt, IInv, TypeOK
  <2>2. \A r \in Path \ {q} : FileAt(r)' = FileAt(r)
    BY <1>1, <1>2 DEF FileAt, IInv, TypeOK
  <2> QED
    BY <2>1, <2>2, OneFile
<1>5. /\ phase' = [phase EXCEPT ![p] = phase'[p]]
      /\ result' = [result EXCEPT ![p] = result'[p]]
  <2>1. \A r \in Proc \ {p} : pc'[r] = pc[r] /\ req'[r] = req[r] /\ fd'[r] = fd[r]
                              /\ out'[r] = out[r]
    BY <1>1 DEF IInv, TypeOK
  <2> QED
    BY <1>1, <2>1, OthersSame
<1>6. ~ReadAtOpen(p) /\ ~ReadAtOpen(p)'
  BY <1>1 DEF ReadAtOpen, Readers
<1>7. phase[p] = "pending" /\ phase'[p] = "done" /\ result'[p] = [ok |-> TRUE, content |-> Empty]
  BY <1>1, <1>6, Views, Phases DEF phase, result, IInv, TypeOK
<1>8. CASE req[p].op = "write"
  <2>1. \A c : Rewritten(req[p], c) = Rewritten(req[p], Empty) /\ Accepts(req[p], c)
    BY <1>8, Updates
  <2>2. /\ file' = [file EXCEPT ![q] = Rewritten(req[p], Empty)]
        /\ file' = [file EXCEPT ![q] = Rewritten(req[p], file[q])]
        /\ Accepts(req[p], file[q])
    <3>1. Rewritten(req[p], buf[p]) = Rewritten(req[p], Empty)
      BY <2>1
    <3>2. Rewritten(req[p], buf[p]) = Rewritten(req[p], file[q])
      BY <2>1
    <3> QED
      BY <1>4, <2>1, <3>1, <3>2
  <2>3. Atomic!Update(p)
    BY SameWords, <1>1, <1>2, <1>5, <1>7, <1>8, <2>2
       DEF Atomic!Update, Atomic!Pending, Atomic!Here, Atomic!Put, Atomic!Decide,
           OpName, Readers
  <2> QED
    BY <2>3 DEF Implements, Atomic!Next
<1>9. CASE req[p].op # "write"
  <2>1. ~ByRename(q)
    BY <1>1, <1>2, <1>9 DEF ByRename
  <2>2. fd[p] = dir[q] /\ fd[p] # NoIno
    BY <1>0, <1>1, <1>2, <1>9, <2>1 DEF Placed
  <2>3. data[fd[p]] = buf[p]
    BY <1>1, <2>2 DEF IInv, LockedContentStable, Updating
  <2>4. file[q] # Missing /\ file[q] = buf[p]
    BY <2>2, <2>3, FileView
  <2>5. Atomic!Update(p)
    BY SameWords, <1>1, <1>2, <1>4, <1>5, <1>7, <2>4
       DEF Atomic!Update, Atomic!Pending, Atomic!Here, Atomic!Put, Atomic!Decide,
           OpName, Readers
  <2> QED
    BY <2>5 DEF Implements, Atomic!Next
<1> QED
  BY <1>8, <1>9

\* A failed atomicWrite leaves the file alone.
LEMMA WriteFailsImplements ==
    ASSUME Sharing, "io" \in Faults, IInv, SInv, NEW p \in Proc, WriteFails(p)
    PROVE  Implements
<1>0. pc[p] \in PC /\ StepOK(p) /\ Placed(p)
  BY DEF IInv, TypeOK, SInv
<1>1. /\ UNCHANGED <<dir, data, req>>
      /\ \A r \in Proc \ {p} : pc'[r] = pc[r] /\ fd'[r] = fd[r] /\ out'[r] = out[r]
  BY DEF WriteFails, files, Goto, Finish, IInv, TypeOK
<1>2. file' = file
  BY <1>1, FilesSame
<1>3. /\ phase' = [phase EXCEPT ![p] = phase'[p]]
      /\ result' = [result EXCEPT ![p] = result'[p]]
  BY <1>1, OthersSame
<1>4. /\ pc[p] \in {"create", "fill", "publish"} /\ pc'[p] = "reply" /\ Active(p)
      /\ out'[p] = [ok |-> FALSE, content |-> Empty]
      /\ req[p].op \in OpName \ Readers
  BY <1>0 DEF WriteFails, Goto, Finish, IInv, TypeOK, Active, StepOK, OpName, Readers
<1>5. ~ReadAtOpen(p) /\ ~ReadAtOpen(p)'
  BY <1>1, <1>4 DEF ReadAtOpen
<1>6. phase[p] = "pending" /\ phase'[p] = "done" /\ result'[p] = [ok |-> FALSE, content |-> Empty]
  BY <1>4, <1>5, Views, Phases DEF phase, result
<1>7. Atomic!IOError(p)
  BY SameWords, <1>1, <1>2, <1>3, <1>4, <1>6
     DEF Atomic!IOError, Atomic!Pending, Atomic!Decide
<1> QED
  BY <1>7 DEF Implements, Atomic!Next

\* A move is refused because of what its destination holds.
LEMMA MoveStatImplements ==
    ASSUME Sharing, "io" \in Faults, IInv, SInv, NEW p \in Proc, MoveStat(p)
    PROVE  Implements
<1>0. pc[p] \in PC /\ StepOK(p) /\ Placed(p)
  BY DEF IInv, TypeOK, SInv
<1>1. /\ UNCHANGED <<dir, data, req>>
      /\ \A r \in Proc \ {p} : pc'[r] = pc[r] /\ fd'[r] = fd[r] /\ out'[r] = out[r]
  BY DEF MoveStat, files, Goto, Finish, IInv, TypeOK
<1>2. file' = file
  BY <1>1, FilesSame
<1>3. /\ phase' = [phase EXCEPT ![p] = phase'[p]]
      /\ result' = [result EXCEPT ![p] = result'[p]]
  BY <1>1, OthersSame
<1>4. /\ pc[p] = "stat" /\ Active(p) /\ req[p].op = "move"
      /\ \/ /\ dir[req[p].to] # NoIno /\ pc'[p] = "reply"
            /\ out'[p] = [ok |-> FALSE, content |-> Empty]
         \/ pc'[p] = "rename" /\ out'[p] = out[p]
  BY <1>0 DEF MoveStat, Goto, Finish, IInv, TypeOK, Active, StepOK
<1>5. ~ReadAtOpen(p) /\ ~ReadAtOpen(p)'
  BY <1>1, <1>4 DEF ReadAtOpen, Readers
<1>6. phase[p] = "pending" /\ result[p] = out[p]
  BY <1>4, <1>5, Views
<1>7. CASE pc'[p] = "rename" /\ out'[p] = out[p]
  <2>1. phase'[p] = "pending" /\ result'[p] = out[p]
    BY <1>5, <1>7, Phases DEF phase, result, PC
  <2> QED
    BY <1>1, <1>2, <1>3, <1>6, <2>1, SeesNothing DEF Implements
<1>8. CASE /\ dir[req[p].to] # NoIno /\ pc'[p] = "reply"
           /\ out'[p] = [ok |-> FALSE, content |-> Empty]
  <2>1. phase'[p] = "done" /\ result'[p] = [ok |-> FALSE, content |-> Empty]
    BY <1>5, <1>8, Phases DEF phase, result
  <2>2. file[req[p].to] # Missing
    BY <1>4, <1>8, BusyRequest, FileView
  <2>3. Atomic!Move(p)
    BY SameWords, <1>1, <1>2, <1>3, <1>4, <1>6, <2>1, <2>2
       DEF Atomic!Move, Atomic!Pending, Atomic!Here, Atomic!Decide
  <2> QED
    BY <2>3 DEF Implements, Atomic!Next
<1> QED
  BY <1>4, <1>7, <1>8

\* The destination of a move is still free when it is renamed.
LEMMA MoveRenameImplements ==
    ASSUME Sharing, "io" \in Faults, IInv, SInv, NEW p \in Proc, MoveRename(p)
    PROVE  Implements
<1>0. pc[p] \in PC /\ StepOK(p) /\ Placed(p)
  BY DEF IInv, TypeOK, SInv
<1>1. /\ pc[p] = "rename" /\ Active(p) /\ pc' = [pc EXCEPT ![p] = "reply"]
      /\ UNCHANGED <<data, req, fd>> /\ req[p].op = "move" /\ dir[req[p].to] = NoIno
  BY <1>0 DEF MoveRename, Finish, Goto, Active, StepOK, SInv, FreeTarget
<1>2. /\ req[p].path \in Path /\ req[p].to \in Path
      /\ file[req[p].to] = Missing
  BY <1>1, BusyRequest, FileView
<1>3. \A r \in Proc \ {p} : pc'[r] = pc[r] /\ req'[r] = req[r] /\ fd'[r] = fd[r]
                            /\ out'[r] = out[r]
  BY <1>1 DEF MoveRename, Finish, IInv, TypeOK
<1>4. /\ phase' = [phase EXCEPT ![p] = phase'[p]]
      /\ result' = [result EXCEPT ![p] = result'[p]]
  BY <1>1, <1>3, OthersSame
<1>5. ~ReadAtOpen(p) /\ ~ReadAtOpen(p)'
  BY <1>1 DEF ReadAtOpen, Readers
<1>6. phase[p] = "pending" /\ phase'[p] = "done" /\ result'[p] = out'[p]
  BY <1>1, <1>5, Views, Phases DEF phase, result, IInv, TypeOK
<1>7. CASE dir[req[p].path] = NoIno
  <2>1. UNCHANGED dir /\ out'[p] = [ok |-> FALSE, content |-> Empty]
    BY <1>7 DEF MoveRename, Finish, IInv, TypeOK
  <2>2. file' = file /\ file[req[p].path] = Missing
    BY <1>1, <1>2, <1>7, <2>1, FilesSame, FileView
  <2>3. Atomic!Move(p)
    BY SameWords, <1>1, <1>4, <1>6, <2>1, <2>2
       DEF Atomic!Move, Atomic!Pending, Atomic!Here, Atomic!Decide
  <2> QED
    BY <2>3 DEF Implements, Atomic!Next
<1>8. CASE dir[req[p].path] # NoIno
  <2>1. /\ dir' = [dir EXCEPT ![req[p].path] = NoIno, ![req[p].to] = dir[req[p].path]]
        /\ out'[p] = [ok |-> TRUE, content |-> Empty]
    BY <1>8 DEF MoveRename, Finish, IInv, TypeOK
  <2>2. req[p].path # req[p].to
    BY <1>1, <1>8
  <2>3. file[req[p].path] # Missing /\ file[req[p].path] = data[dir[req[p].path]]
    BY <1>2, <1>8, FileView
  <2>4. ASSUME NEW q \in Path
        PROVE  FileAt(q)' = IF q = req[p].to THEN file[req[p].path]
                            ELSE IF q = req[p].path THEN Missing ELSE FileAt(q)
    BY <1>1, <1>2, <1>8, <2>1, <2>2, <2>3 DEF FileAt, IInv, TypeOK
  <2>5. file' = [file EXCEPT ![req[p].path] = Missing, ![req[p].to] = file[req[p].path]]
    BY <1>2, <2>2, <2>4 DEF file
  <2>6. Atomic!Move(p)
    BY SameWords, <1>1, <1>2, <1>4, <1>6, <2>1, <2>3, <2>5
       DEF Atomic!Move, Atomic!Pending, Atomic!Here, Atomic!Decide
  <2> QED
    BY <2>6 DEF Implements, Atomic!Next
<1> QED
  BY <1>7, <1>8

\* Answering is the response.
LEMMA ReplyImplements ==
    ASSUME Sharing, "io" \in Faults, IInv, SInv, NEW p \in Proc, Reply(p)
    PROVE  Implements
<1>0. pc[p] \in PC /\ StepOK(p) /\ Placed(p)
  BY DEF IInv, TypeOK, SInv
<1>1. /\ pc[p] = "reply" /\ pc' = [pc EXCEPT ![p] = "idle"] /\ UNCHANGED <<dir, data>>
      /\ req' = [req EXCEPT ![p] = NoReq] /\ out' = [out EXCEPT ![p] = NoOutcome]
      /\ fd' = [fd EXCEPT ![p] = NoIno]
  BY DEF Reply, Goto, files
<1>2. file' = file
  BY <1>1, FilesSame
<1>3. /\ phase' = [phase EXCEPT ![p] = phase'[p]]
      /\ result' = [result EXCEPT ![p] = result'[p]]
  BY <1>1, OthersSame DEF IInv, TypeOK
<1>4. phase[p] = "done"
  BY <1>1, Views
<1>5. ~ReadAtOpen(p)'
  BY <1>1 DEF ReadAtOpen, IInv, TypeOK
<1>6. phase'[p] = "idle" /\ result'[p] = NoOutcome
  BY <1>1, <1>5, Phases DEF phase, result, IInv, TypeOK
<1>7. Atomic!Respond(p)
  BY SameWords, <1>1, <1>2, <1>3, <1>4, <1>6 DEF Atomic!Respond
<1> QED
  BY <1>7 DEF Implements, Atomic!Next

\* The death of the daemon forgets all requests.
LEMMA CrashImplements ==
    ASSUME IInv, Crash
    PROVE  Implements
<1>1. /\ "crash" \in Faults /\ UNCHANGED <<dir, data>>
      /\ pc' = [p \in Proc |-> "idle"] /\ req' = [p \in Proc |-> NoReq]
      /\ out' = [p \in Proc |-> NoOutcome]
  BY DEF Crash, files
<1>2. file' = file
  BY <1>1, FilesSame
<1>3. \A p \in Proc : ~ReadAtOpen(p)'
  BY <1>1 DEF ReadAtOpen
<1>4. phase' = [p \in Proc |-> "idle"] /\ result' = [p \in Proc |-> NoOutcome]
  BY <1>1, <1>3, Phases DEF phase, result
<1>5. Atomic!Crash
  BY SameWords, <1>1, <1>2, <1>4 DEF Atomic!Crash
<1> QED
  BY <1>5 DEF Implements, Atomic!Next

\* At the start clients see idle handlers and any files.
LEMMA InitImplements == Init => Atomic!Init
<1> SUFFICES ASSUME Init PROVE Atomic!Init
  OBVIOUS
<1>1. /\ pc = [p \in Proc |-> "idle"] /\ req = [p \in Proc |-> NoReq]
      /\ out = [p \in Proc |-> NoOutcome]
  BY DEF Init
<1>2. phase = [p \in Proc |-> "idle"] /\ result = [p \in Proc |-> NoOutcome]
  <2>1. \A p \in Proc : ~ReadAtOpen(p)
    BY <1>1 DEF ReadAtOpen
  <2> QED
    BY <1>1, <2>1, Phases DEF phase, result
<1>3. /\ file \in [Path -> UNION {InitContents[q] : q \in Path}]
      /\ \A q \in Path : file[q] \in InitContents[q]
  <2>1. PICK start \in [Path -> UNION {InitContents[q] : q \in Path}] :
          /\ \A q \in Path : start[q] \in InitContents[q]
          /\ dir = [q \in Path |-> IF start[q] = Missing THEN NoIno ELSE Home[q]]
          /\ data = [i \in Ino |->
                       IF \E q \in Path : dir[q] = i
                       THEN start[CHOOSE q \in Path : dir[q] = i] ELSE Empty]
    BY DEF Init
  <2> SUFFICES ASSUME NEW q \in Path
               PROVE  FileAt(q) \in InitContents[q]
    BY DEF file
  <2>2. CASE start[q] = Missing
    BY <2>1, <2>2 DEF FileAt
  <2>3. CASE start[q] # Missing
    <3>1. dir[q] = Home[q] /\ Home[q] \in Ino /\ Home[q] # NoIno
      BY <2>1, <2>3, StoreAssumption
    <3> DEFINE r == CHOOSE x \in Path : dir[x] = Home[q]
    <3>2. r \in Path
      BY <3>1
    <3>3. data[Home[q]] = start[r]
      BY <2>1, <3>1
    <3> HIDE DEF r
    <3>4. dir[r] = Home[q]
      BY <3>1 DEF r
    <3>5. r = q
      BY <2>1, <3>1, <3>2, <3>4, StoreAssumption
    <3>6. FileAt(q) = start[q]
      BY <3>1, <3>3, <3>5 DEF FileAt
    <3> QED
      BY <2>1, <3>6
  <2> QED
    BY <2>2, <2>3
<1> QED
  BY SameWords, <1>1, <1>2, <1>3 DEF Atomic!Init

\* Every step of the file system is a step of the atomic store, or is not seen.
LEMMA NextImplements ==
    ASSUME Sharing, "io" \in Faults
    PROVE  IInv /\ SInv /\ [Next]_vars => [Atomic!Next]_Atomic!vars
<1> SUFFICES ASSUME IInv, SInv, [Next]_vars
             PROVE  Implements
  BY DEF Implements
<1>1. ASSUME NEW p \in Proc, Start(p) \/ Step(p)
      PROVE  Implements
  BY <1>1, StartImplements, OpenExistingImplements, OpenCreateImplements,
     OpenMissingImplements, LockImplements, LookReadImplements, LookRejectImplements,
     LookUpdateImplements, AppendInPlaceImplements, CreateTempImplements,
     FillTempImplements, PublishImplements, WriteFailsImplements, MoveStatImplements,
     MoveRenameImplements, ReplyImplements DEF Step
<1>2. CASE UNCHANGED vars
  BY <1>2 DEF vars, Implements, Atomic!vars, file, FileAt, phase, result, ReadAtOpen
<1> QED
  BY <1>1, <1>2, CrashImplements DEF Next, Rest

\* The file system is an atomic store to clients that share paths as Sharing says,
\* whatever inodes it uses, whichever locks wait for which, and where I/O errors and
\* the death of the daemon strike: no update of such a path is lost or half done.
THEOREM StoreIsAtomic == Sharing /\ "io" \in Faults /\ Spec => ImplementsAtomicStore
<1> SUFFICES ASSUME Sharing, "io" \in Faults
             PROVE  Spec => Atomic!Spec
  BY DEF ImplementsAtomicStore
<1>1. IInv /\ SInv /\ [Next]_vars => [Atomic!Next]_Atomic!vars
  BY NextImplements
<1>2. Spec => []SInv
  BY SharingInvariance
<1> QED
  BY <1>1, <1>2, InitImplements, Invariance, PTL DEF Spec, Atomic!Spec

--------------------------------------------------------------------------------
\* A handler that could take a line from a file that is only appended to does not
\* exist: its rewrite starts from the inode that the path names.
LEMMA NothingTaken ==
    ASSUME Sharing, IInv, SInv, NEW q \in Path, AppendOnly(q), NEW p \in Proc, NEW x
    PROVE  ~Loses(p, q, x)
<1> SUFFICES ASSUME Loses(p, q, x) PROVE FALSE
  OBVIOUS
<1>1. StepOK(p) /\ Allowed(p) /\ Placed(p) /\ NoRewrite(p)
  BY DEF IInv, SInv
<1>2. CASE pc[p] = "publish" /\ req[p].path = q
  <2>1. req[p].op = "append"
    BY <1>1, <1>2 DEF StepOK, Allowed, AppendOnly
  <2>2. fd[p] # NoIno /\ ~Grown(q) /\ ~ByRename(q)
    BY <1>1, <1>2, <2>1 DEF StepOK, NoRewrite, Allowed, ByRename
  <2>3. fd[p] = dir[q]
    BY <1>1, <1>2, <2>2 DEF Placed, Active
  <2> QED
    BY <1>2, <2>1, <2>3 DEF Loses
<1>3. CASE pc[p] = "rename" /\ q \in {req[p].path, req[p].to}
  BY <1>1, <1>3 DEF StepOK, Allowed, AppendOnly
<1> QED
  BY <1>2, <1>3 DEF Loses

\* However many clients append to a file at once, no append undoes another one
\* (store.go:449-541), as long as the file keeps a final newline or has one client.
THEOREM AppendsGrow == Sharing /\ Spec => AppendsOnlyGrow
<1> DEFINE A == \A q \in Path : \A x \in LinesAt(q) :
                   x \notin LinesAt(q)' =>
                      \E p \in Proc : Loses(p, q, x) /\ pc'[p] = "reply"
           B == \A q \in Path : AppendOnly(q) => LinesAt(q) \subseteq LinesAt(q)'
<1>1. Sharing /\ IInv /\ SInv /\ A => B
  <2> SUFFICES ASSUME Sharing, IInv, SInv, A, NEW q \in Path, AppendOnly(q),
                      NEW x \in LinesAt(q)
               PROVE  x \in LinesAt(q)'
    OBVIOUS
  <2> QED
    BY NothingTaken
<1> HIDE DEF A, B
<1>2. ASSUME Sharing PROVE []IInv /\ []SInv /\ [][A]_vars => [][B]_vars
  <2>1. IInv /\ SInv /\ [A]_vars => [B]_vars
    BY <1>1, <1>2
  <2> QED
    BY <2>1, PTL
<1> QED
  BY <1>2, LinesLost, Invariance, SharingInvariance
     DEF AppendsOnlyGrow, LinesLostOnlyByRequest, A, B
================================================================================
