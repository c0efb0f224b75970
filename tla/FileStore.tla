------------------------------- MODULE FileStore -------------------------------
(***************************************************************************)
(* The mutating core of store/store.go under concurrent RPC handlers: Read *)
(* and Outline, Write, AppendSection with and without a section, Patch and *)
(* Move, each one split where another handler can run.                     *)
(*                                                                         *)
(* The file system is modelled from the calls the store makes.  A path     *)
(* names an inode, atomicWrite replaces the inode behind a path by rename, *)
(* and flock(2) locks the inode a handler has OPEN, which need not be the  *)
(* one the path names any more.  Write and Move take no lock at all, and   *)
(* MemoryStore.mu is never taken for writing, so it orders nothing here.   *)
(*                                                                         *)
(* A request carries a fresh member of Text, its identity: Text bounds the *)
(* number of requests of a behaviour.                                      *)
(***************************************************************************)
EXTENDS StoreRequest

CONSTANTS Proc,        \* handler goroutines, one per busy connection
          Ino,         \* inodes; running out of them is a full disk
          Home,        \* Home[q]: the inode of the file q may name at start
          Fresh(_),    \* the inodes the kernel may pick from a free set
          Ops,         \* Ops[q]: the operations the clients use on path q
          Scope,       \* Scope[p]: the paths the requests of p name
          InitContents,\* InitContents[q]: what q may hold when the daemon starts
          Faults,      \* subset of {"io", "crash"}
          Tearing,     \* paths whose appends an I/O error may cut short
          NoIno

ASSUME StoreAssumption ==
    /\ Ops \in [Path -> SUBSET OpName]
    /\ Scope \in [Proc -> SUBSET Path]
    /\ InitContents \in [Path -> SUBSET (Content \cup {Missing})]
    /\ Tearing \subseteq Path
    /\ NoIno \notin Ino
    /\ Home \in [Path -> Ino]
    /\ \A q, r \in Path : Home[q] = Home[r] => q = r
    /\ \A S \in SUBSET Ino : Fresh(S) \subseteq S /\ (Fresh(S) = {} => S = {})

VARIABLES dir,    \* dir[q]: the inode path q names, NoIno when there is none
          data,   \* data[i]: the bytes of inode i
          temps,  \* inodes that a .tmp-memory-* name refers to
          pc,     \* pc[p]: where handler p is
          req,    \* req[p]: the request p serves
          fd,     \* fd[p]: the inode p has open through its path
          buf,    \* buf[p]: what p read from fd[p] under the lock
          tmp,    \* tmp[p]: the temp file of p's atomicWrite
          out,    \* out[p]: the outcome p is about to report
          used    \* identities of the requests so far

vars == <<dir, data, temps, pc, req, fd, buf, tmp, out, used>>
files == <<dir, data, temps>>

PC == {"idle", "open", "lock", "look", "inplace", "create", "fill", "publish",
       "stat", "rename", "reply"}

Linked == {dir[q] : q \in Path} \ {NoIno}
Open == {fd[p] : p \in Proc} \ {NoIno}

\* The kernel reuses an inode that no name and no descriptor refers to.
FreeIno == Ino \ (Linked \cup temps \cup Open)

\* What the file system holds at path q.
FileAt(q) == IF dir[q] = NoIno THEN Missing ELSE data[dir[q]]

\* Variant: the lock is released before the rename.
HoldingUntilFilled(p) == /\ fd[p] # NoIno
                         /\ pc[p] \in {"look", "inplace", "create", "fill"}
\* Variant: a waiter counts as a holder.
HoldingFromOpen(p) == fd[p] # NoIno /\ pc[p] # "open"

\* flock(2) state: p holds the lock of fd[p] from the acquisition to the
\* deferred unlock, shared for readers and exclusive for the others.
Holding(p) == /\ fd[p] # NoIno
              /\ pc[p] \in {"look", "inplace", "create", "fill", "publish", "reply"}
Conflict(p, q) == req[p].op \notin Readers \/ req[q].op \notin Readers

Init ==
    /\ \E start \in [Path -> UNION {InitContents[q] : q \in Path}] :
        /\ \A q \in Path : start[q] \in InitContents[q]
        /\ dir = [q \in Path |-> IF start[q] = Missing THEN NoIno ELSE Home[q]]
        /\ data = [i \in Ino |->
                     IF \E q \in Path : dir[q] = i
                     THEN start[CHOOSE q \in Path : dir[q] = i] ELSE Empty]
    /\ temps = {}
    /\ pc = [p \in Proc |-> "idle"]
    /\ req = [p \in Proc |-> NoReq]
    /\ fd = [p \in Proc |-> NoIno]
    /\ buf = [p \in Proc |-> Empty]
    /\ tmp = [p \in Proc |-> NoIno]
    /\ out = [p \in Proc |-> NoOutcome]
    /\ used = {}
--------------------------------------------------------------------------------
Goto(p, label) == pc' = [pc EXCEPT ![p] = label]

\* The operation is over but for the deferred unlock, close and the response.
Finish(p, ok, c) == /\ Goto(p, "reply")
                    /\ out' = [out EXCEPT ![p] = [ok |-> ok, content |-> c]]

FirstStep(op) == CASE op = "write" -> "create"
                   [] op = "move" -> "stat"
                   [] OTHER -> "open"

\* A connection hands a request to its handler.
Start(p) ==
    /\ pc[p] = "idle"
    /\ \E r \in Request :
        /\ r.path \in Scope[p] /\ r.op \in Ops[r.path]
        /\ r.op = "move" => r.to \in Scope[p] /\ r.op \in Ops[r.to]
        /\ r.text \notin used
        /\ used' = used \cup {r.text}
        /\ req' = [req EXCEPT ![p] = r]
        /\ Goto(p, FirstStep(r.op))
    /\ UNCHANGED <<files, fd, buf, tmp, out>>

\* os.Open / os.OpenFile of an existing file.
OpenExisting(p) ==
    /\ pc[p] = "open"
    /\ dir[req[p].path] # NoIno
    /\ fd' = [fd EXCEPT ![p] = dir[req[p].path]]
    /\ Goto(p, "lock")
    /\ UNCHANGED <<files, req, buf, tmp, out, used>>

\* O_CREATE: only the unsectioned append creates the file it cannot find.
OpenCreate(p) ==
    /\ pc[p] = "open" /\ req[p].op = "append"
    /\ dir[req[p].path] = NoIno
    /\ \E i \in Fresh(FreeIno) :
        /\ dir' = [dir EXCEPT ![req[p].path] = i]
        /\ data' = [data EXCEPT ![i] = Empty]
        /\ fd' = [fd EXCEPT ![p] = i]
    /\ Goto(p, "lock")
    /\ UNCHANGED <<temps, req, buf, tmp, out, used>>

\* A missing file reads as "" and is an error for everyone else.
OpenMissing(p) ==
    /\ pc[p] = "open"
    /\ dir[req[p].path] = NoIno
    /\ req[p].op = "append" => FreeIno = {}
    /\ Finish(p, req[p].op = "read", Empty)
    /\ UNCHANGED <<files, req, fd, buf, tmp, used>>

\* Variant: flock is called with LOCK_NB and its result ignored.
LockNoWait(p) ==
    /\ pc[p] = "lock"
    /\ Goto(p, "look")
    /\ UNCHANGED <<files, req, fd, buf, tmp, out, used>>

\* flock blocks while another descriptor of the same inode holds a lock in a
\* conflicting mode.  Nothing checks that the path still names this inode.
Lock(p) ==
    /\ pc[p] = "lock"
    /\ \A q \in Proc \ {p} : Holding(q) /\ fd[q] = fd[p] => ~Conflict(p, q)
    /\ Goto(p, "look")
    /\ UNCHANGED <<files, req, fd, buf, tmp, out, used>>
--------------------------------------------------------------------------------
\* Readers answer with what they read.
LookRead(p) ==
    /\ pc[p] = "look" /\ req[p].op \in Readers
    /\ Finish(p, TRUE, data[fd[p]])
    /\ UNCHANGED <<files, req, fd, buf, tmp, used>>

\* Variant: a rejected update is reported as done.
LookRejectSilently(p) ==
    /\ pc[p] = "look" /\ req[p].op \notin Readers
    /\ ~Accepts(req[p], data[fd[p]])
    /\ Finish(p, TRUE, Empty)
    /\ UNCHANGED <<files, req, fd, buf, tmp, used>>

\* No such heading, or not exactly one occurrence of oldText.
LookReject(p) ==
    /\ pc[p] = "look" /\ req[p].op \notin Readers
    /\ ~Accepts(req[p], data[fd[p]])
    /\ Finish(p, FALSE, Empty)
    /\ UNCHANGED <<files, req, fd, buf, tmp, used>>

\* Stat and last byte (append) or the whole content (section, patch, append
\* that must rewrite), and the choice between the two ways to update.
LookUpdate(p) ==
    /\ pc[p] = "look" /\ req[p].op \notin Readers
    /\ Accepts(req[p], data[fd[p]])
    /\ buf' = [buf EXCEPT ![p] = data[fd[p]]]
    /\ Goto(p, IF req[p].op = "append" /\ InPlace(data[fd[p]], req[p].text)
               THEN "inplace" ELSE "create")
    /\ UNCHANGED <<files, req, fd, tmp, out, used>>

\* Seek to the end, WriteString, Sync.  An I/O error may leave nothing, a
\* prefix of the text, or (Sync) all of it behind an error response.
AppendInPlace(p) ==
    /\ pc[p] = "inplace"
    /\ \/ /\ data' = [data EXCEPT ![fd[p]] = Appended(data[fd[p]], req[p].text)]
          /\ \E ok \in BOOLEAN : /\ ok \/ req[p].path \in Tearing
                                 /\ Finish(p, ok, Empty)
       \/ /\ req[p].path \in Tearing
          /\ data' = [data EXCEPT ![fd[p]] = AppendedShort(data[fd[p]])]
          /\ Finish(p, FALSE, Empty)
    /\ UNCHANGED <<dir, temps, req, fd, buf, tmp, used>>
--------------------------------------------------------------------------------
\* Variant: the new file is created at its final name and filled there.
CreateAtPath(p) ==
    /\ pc[p] = "create"
    /\ \E i \in Fresh(FreeIno) :
        /\ temps' = temps \cup {i}
        /\ data' = [data EXCEPT ![i] = Empty]
        /\ tmp' = [tmp EXCEPT ![p] = i]
        /\ dir' = [dir EXCEPT ![req[p].path] = i]
    /\ Goto(p, "fill")
    /\ UNCHANGED <<req, fd, buf, out, used>>

\* atomicWrite: os.CreateTemp in the directory of the file.
CreateTemp(p) ==
    /\ pc[p] = "create"
    /\ \E i \in Fresh(FreeIno) :
        /\ temps' = temps \cup {i}
        /\ data' = [data EXCEPT ![i] = Empty]
        /\ tmp' = [tmp EXCEPT ![p] = i]
    /\ Goto(p, "fill")
    /\ UNCHANGED <<dir, req, fd, buf, out, used>>

\* Variant: the rewrite forgets what the file held.
FillTempTruncated(p) ==
    /\ pc[p] = "fill"
    /\ data' = [data EXCEPT ![tmp[p]] = Written(req[p].text, TRUE)]
    /\ Goto(p, "publish")
    /\ UNCHANGED <<dir, temps, req, fd, buf, tmp, out, used>>

\* atomicWrite: WriteString, Sync and Close of the temp file.
FillTemp(p) ==
    /\ pc[p] = "fill"
    /\ data' = [data EXCEPT ![tmp[p]] = Rewritten(req[p], buf[p])]
    /\ Goto(p, "publish")
    /\ UNCHANGED <<dir, temps, req, fd, buf, tmp, out, used>>

\* Variant: the temp file is linked to the path, its own name stays.
PublishByLink(p) ==
    /\ pc[p] = "publish"
    /\ dir' = [dir EXCEPT ![req[p].path] = tmp[p]]
    /\ tmp' = [tmp EXCEPT ![p] = NoIno]
    /\ Finish(p, TRUE, Empty)
    /\ UNCHANGED <<data, temps, req, fd, buf, used>>

\* atomicWrite: os.Rename over the path, whatever it names by now.
Publish(p) ==
    /\ pc[p] = "publish"
    /\ dir' = [dir EXCEPT ![req[p].path] = tmp[p]]
    /\ temps' = temps \ {tmp[p]}
    /\ tmp' = [tmp EXCEPT ![p] = NoIno]
    /\ Finish(p, TRUE, Empty)
    /\ UNCHANGED <<data, req, fd, buf, used>>

\* Variant: the error path leaves the temp file behind.
WriteFailsKeepsTemp(p) ==
    /\ pc[p] \in {"create", "fill", "publish"}
    /\ "io" \in Faults \/ (pc[p] = "create" /\ FreeIno = {})
    /\ tmp' = [tmp EXCEPT ![p] = NoIno]
    /\ Finish(p, FALSE, Empty)
    /\ UNCHANGED <<files, req, fd, buf, used>>

\* Any step of atomicWrite fails: the temp file is removed.
WriteFails(p) ==
    /\ pc[p] \in {"create", "fill", "publish"}
    /\ "io" \in Faults \/ (pc[p] = "create" /\ FreeIno = {})
    /\ temps' = temps \ {tmp[p]}
    /\ tmp' = [tmp EXCEPT ![p] = NoIno]
    /\ Finish(p, FALSE, Empty)
    /\ UNCHANGED <<dir, data, req, fd, buf, used>>
--------------------------------------------------------------------------------
\* Move: os.Stat of the destination.
MoveStat(p) ==
    /\ pc[p] = "stat"
    /\ IF dir[req[p].to] # NoIno
       THEN Finish(p, FALSE, Empty)
       ELSE Goto(p, "rename") /\ UNCHANGED out
    /\ UNCHANGED <<files, req, fd, buf, tmp, used>>

\* Move: os.Rename, which replaces a destination that has appeared since.
MoveRename(p) ==
    /\ pc[p] = "rename"
    /\ LET from == dir[req[p].path]
       IN IF from = NoIno
          THEN Finish(p, FALSE, Empty) /\ UNCHANGED dir
          ELSE /\ dir' = [dir EXCEPT ![req[p].path] = NoIno, ![req[p].to] = from]
               /\ Finish(p, TRUE, Empty)
    /\ UNCHANGED <<data, temps, req, fd, buf, tmp, used>>

\* Deferred unlock and close, then the response line.
Reply(p) ==
    /\ pc[p] = "reply"
    /\ Goto(p, "idle")
    /\ req' = [req EXCEPT ![p] = NoReq]
    /\ fd' = [fd EXCEPT ![p] = NoIno]
    /\ buf' = [buf EXCEPT ![p] = Empty]
    /\ out' = [out EXCEPT ![p] = NoOutcome]
    /\ UNCHANGED <<files, tmp, used>>

\* The daemon dies and is started again: no handler survives, the kernel drops
\* descriptors and locks, temp files in flight stay in the directory.
Crash ==
    /\ "crash" \in Faults
    /\ \E p \in Proc : pc[p] # "idle"
    /\ pc' = [p \in Proc |-> "idle"]
    /\ req' = [p \in Proc |-> NoReq]
    /\ fd' = [p \in Proc |-> NoIno]
    /\ buf' = [p \in Proc |-> Empty]
    /\ tmp' = [p \in Proc |-> NoIno]
    /\ out' = [p \in Proc |-> NoOutcome]
    /\ UNCHANGED <<files, used>>

\* All requests are served: the daemon waits for more.
Rest ==
    /\ \A p \in Proc : pc[p] = "idle"
    /\ UNCHANGED vars

Step(p) == \/ OpenExisting(p) \/ OpenCreate(p) \/ OpenMissing(p) \/ Lock(p)
           \/ LookRead(p) \/ LookReject(p) \/ LookUpdate(p) \/ AppendInPlace(p)
           \/ CreateTemp(p) \/ FillTemp(p) \/ Publish(p) \/ WriteFails(p)
           \/ MoveStat(p) \/ MoveRename(p) \/ Reply(p)

Next == (\E p \in Proc : Start(p) \/ Step(p)) \/ Crash \/ Rest

\* A handler that can run does run: goroutines are scheduled fairly, and with
\* finitely many requests a blocked flock waits for finitely many holders.
Fairness == \A p \in Proc : WF_vars(Step(p))

Spec == Init /\ [][Next]_vars
FairSpec == Spec /\ Fairness
--------------------------------------------------------------------------------
\* Types of the file system and of the handlers.
TypeOK ==
    /\ dir \in [Path -> Ino \cup {NoIno}]
    /\ data \in [Ino -> Content]
    /\ temps \subseteq Ino
    /\ pc \in [Proc -> PC]
    /\ req \in [Proc -> Request \cup {NoReq}]
    /\ fd \in [Proc -> Ino \cup {NoIno}]
    /\ buf \in [Proc -> Content]
    /\ tmp \in [Proc -> Ino \cup {NoIno}]
    /\ out \in [Proc -> Outcome]
    /\ used \subseteq Text

Updating(p) == pc[p] \in {"inplace", "create", "fill", "publish"} /\ fd[p] # NoIno

\* What an updating handler read under the exclusive lock is what the locked
\* inode still holds when it acts on it (AppendSection, Patch: ReadAll, then
\* atomicWrite or an append in place).
LockedContentStable == \A p \in Proc : Updating(p) => data[fd[p]] = buf[p]

\* The temp file of an atomicWrite is its own: no path, no descriptor and no
\* other atomicWrite refers to it before its rename, and by then it is whole.
TempsPrivate ==
    /\ temps \cap (Linked \cup Open) = {}
    /\ \A p \in Proc : tmp[p] # NoIno =>
          /\ tmp[p] \in temps
          /\ \A q \in Proc : tmp[q] = tmp[p] => q = p
    /\ \A p \in Proc : pc[p] = "publish" =>
          data[tmp[p]] = Rewritten(req[p], buf[p])

\* No two paths name the same inode.
NamesDistinct == \A q, r \in Path : dir[q] = dir[r] /\ dir[q] # NoIno => q = r

\* Which requests reach a step, and what they hold there.
StepOK(p) ==
    /\ pc[p] \in {"open", "lock", "look"}
          => req[p].op \in Readers \cup {"append", "section", "patch"}
    /\ pc[p] = "inplace" => req[p].op = "append"
    /\ pc[p] \in {"create", "fill", "publish"}
          => req[p].op \in {"write", "append", "section", "patch"}
    /\ pc[p] \in {"stat", "rename"} => req[p].op = "move"
    /\ pc[p] \in {"idle", "open", "stat", "rename"} => fd[p] = NoIno
    /\ pc[p] \in {"lock", "look", "inplace"} => fd[p] # NoIno
    /\ pc[p] \in {"create", "fill", "publish"}
          => /\ fd[p] = NoIno <=> req[p].op = "write"
             /\ Accepts(req[p], buf[p])
    /\ tmp[p] # NoIno <=> pc[p] \in {"fill", "publish"}

\* At most one handler holds an inode's lock in a conflicting mode.
LockExclusive ==
    \A p, q \in Proc : Holding(p) /\ Holding(q) /\ fd[p] = fd[q] /\ Conflict(p, q)
                       => p = q

\* The inductive invariant: the three invariants above need it.
IInv == /\ TypeOK
        /\ NamesDistinct
        /\ \A p \in Proc : StepOK(p)
        /\ LockExclusive
        /\ LockedContentStable
        /\ TempsPrivate

\* Temp files that no running atomicWrite owns.
Litter == temps \ {tmp[p] : p \in Proc}

\* Every error path of atomicWrite removes its temp file: only the death of the
\* daemon leaves one behind in the memory directory.
LitterOnlyByCrash == [][Litter' \subseteq Litter \/ Crash]_vars

\* An update whose path still names the locked inode is one atomic step: the
\* rename of AppendSection or Patch replaces the content the path held at that
\* moment by the update of that very content.
CurrentRewriteIsAtomic ==
    [][\A p \in Proc :
          pc[p] = "publish" /\ Publish(p) /\ fd[p] # NoIno /\ fd[p] = dir[req[p].path]
          => FileAt(req[p].path)' = Rewritten(req[p], FileAt(req[p].path))]_vars

\* A line disappears from a path only because a client asked for it (a write, a
\* patch of that line, a move away or onto the path) or because the rewrite of
\* an AppendSection or Patch comes from an inode the path no longer names.
Loses(p, q, x) ==
    \/ /\ pc[p] = "publish" /\ req[p].path = q
       /\ \/ req[p].op = "write"
          \/ req[p].op = "patch" /\ req[p].old = x
          \/ fd[p] # dir[q]
    \/ pc[p] = "rename" /\ q \in {req[p].path, req[p].to}

LinesAt(q) == IF dir[q] = NoIno THEN {} ELSE LinesOf(data[dir[q]])

LinesLostOnlyByRequest ==
    [][\A q \in Path : \A x \in LinesAt(q) :
          x \notin LinesAt(q)' =>
             \E p \in Proc : Loses(p, q, x) /\ pc'[p] = "reply"]_vars

\* Every request is answered or dies with the daemon: flock never leaves a
\* handler waiting for a lock that is not released.
EveryRequestAnswered == \A p \in Proc : pc[p] # "idle" ~> pc[p] = "idle"
--------------------------------------------------------------------------------
PhaseOf(label) == CASE label = "idle" -> "idle"
                    [] label = "reply" -> "done"
                    [] OTHER -> "pending"

\* What a read of a path that changes only by rename will return is settled
\* where it opens the file; elsewhere a read takes effect where it reads.
ByRename(q) == Ops[q] \subseteq {"read", "outline", "write"}

ReadAtOpen(p) == /\ req[p].op \in Readers /\ pc[p] \in {"lock", "look"}
                 /\ ByRename(req[p].path)

\* The store as its clients see it: what every path holds, and how far every request
\* has got with what result.
file == [q \in Path |-> FileAt(q)]
phase == [p \in Proc |-> IF ReadAtOpen(p) THEN "done" ELSE PhaseOf(pc[p])]
result == [p \in Proc |-> IF ReadAtOpen(p)
                          THEN [ok |-> TRUE, content |-> data[fd[p]]]
                          ELSE out[p]]

Atomic == INSTANCE AtomicStore WITH request <- req

\* The file system behaves as the atomic store: a read answers with what the
\* file held at its open (where files change by rename) or its read, an update
\* takes effect at its write or rename.
ImplementsAtomicStore == Atomic!Spec

\* A file that clients only read and append only grows: no append undoes
\* another one.
AppendOnly(q) == Ops[q] \subseteq {"read", "outline", "append"}

AppendsOnlyGrow ==
    [][\A q \in Path : AppendOnly(q) => LinesAt(q) \subseteq LinesAt(q)']_vars

\* How clients may share a path for the store to be atomic: it has one client, or it
\* is only read and replaced as a whole, or it is only read and appended to, never
\* without a final newline.
Owned(q) == \A p, r \in Proc : q \in Scope[p] \cap Scope[r] => p = r
Whole == {c \in Content : c.lines # <<>> /\ c.nl}
Grown(q) == AppendOnly(q) /\ InitContents[q] \subseteq Whole /\ q \notin Tearing
Sharing == \A q \in Path : Owned(q) \/ ByRename(q) \/ Grown(q)

\* A move that succeeds found nothing at its destination ("existing destination
\* is an error", docs/llm/RPC.md).
MoveNeverOverwrites ==
    [][\A p \in Proc : pc[p] = "rename" /\ pc'[p] = "reply" /\ out'[p].ok
                        => dir[req[p].to] = NoIno]_vars
================================================================================
