-------------------------------- MODULE Handlers -------------------------------
(***************************************************************************)
(* The handler goroutines of rpc/ running the programs of module Methods   *)
(* over one memory tree, one manifest and one git repository.  Every call  *)
(* that leaves the process is a step of its own: the files of a walk are   *)
(* listed directory by directory, looked at and read one by one, and each  *)
(* call of the controller may read the manifest, install it later, perhaps *)
(* over a newer one, and answer later still from what others installed     *)
(* meanwhile.  Other requests, and edits of the manifest, fall between any *)
(* two steps.                                                              *)
(*                                                                         *)
(* What happens inside a rewrite, an append or a move is module FileStore, *)
(* whether a call finds a reason to reload module DomainController; here   *)
(* the first three are one step each, and the last is left open.  The      *)
(* content of a file is the number of the change that made it, which is    *)
(* its mtime as well; a rename keeps both.                                 *)
(***************************************************************************)
EXTENDS Methods, Integers

CONSTANTS Proc,       \* handler goroutines
          Sessions,   \* what the clients of the handlers ask for, in order
          Path, Dir,  \* the files and directories there may be
          Order,      \* Path and Dir but the root, in the order of a directory
          FirstTree,  \* the files at the start, with their contents
          Manifests,  \* the manifests editors write
          MaxChange,  \* bound on the changes of files
          MaxEdits    \* bound on the edits of domains.yml

Request == UNION {{s[p][k] : k \in DOMAIN s[p]} : s \in Sessions, p \in Proc}

ASSUME HandlersAssumption ==
    /\ Sessions \subseteq [Proc -> Seq(Request)]
    /\ Root \in Dir /\ Path \cap Dir = {}
    /\ \A q \in Path \cup Dir : q \in Seq({q[i] : i \in DOMAIN q})
    /\ \A q \in Path : \A n \in 0 .. Len(q) - 1 : SubSeq(q, 1, n) \in Dir
    /\ Order \in Seq(Path \cup Dir)
    /\ (Path \cup Dir) \ {Root} \subseteq {Order[i] : i \in DOMAIN Order}
    /\ \A r \in Request : /\ r.method \in {"write", "append", "patch", "move"} => r.path \in Path
                          /\ r.method = "move" => r.to \in Path
    /\ \A m \in Manifests : /\ m \in Seq(Domains(m))
                            /\ \A d \in Domains(m) :
                                   /\ d.path \in Seq({d.path[i] : i \in DOMAIN d.path})
                                   /\ d.files \in Seq({d.files[i] : i \in DOMAIN d.files})
    /\ MaxChange \in Nat /\ MaxEdits \in Nat
    /\ FirstTree \in [Path -> 0 .. MaxChange]

VARIABLES disk,    \* the manifest on disk
          reg,     \* the registry of the controller
          edits,   \* edits of the manifest so far
          stage,   \* stage[p]: where p's call of the controller is
          held,    \* held[p]: the manifest that call has read, <<>> for none
          tree,    \* the content of each file, 0 for no file
          dirs,    \* the directories there are
          change,  \* the number of the last change
          index, head,  \* what git has staged and committed
          queue,   \* queue[p]: the requests p's client has yet to send
          req,     \* req[p]: the request p serves
          at,      \* at[p]: the step p is about to take, 0 when idle
          code,    \* code[p]: the error p answers with
          loc,     \* loc[p]: the local variables of the handler
          during   \* during[p]: what has been the case since p's request began

manifest == <<disk, reg, edits, stage, held>>
files == <<tree, dirs, change>>
git == <<index, head>>
clients == <<queue, req>>
vars == <<manifest, files, git, clients, at, code, loc, during>>

NoRequest == [method |-> "none", role |-> "", path |-> Root, to |-> Root,
              domain |-> "", lacks |-> ""]

\* dom: what Get returned; owner: what DomainForPath did; doms: a list of domains;
\* targets: files to scan; found: files of a walk; todo: what a loop has left; i:
\* the declared file domain_summary is at; since: the mtime of the marker; items:
\* the answer so far.  A target and an item are the id of a domain ("" for none),
\* a path, and the content there was.
Locals == [dom |-> <<>>, owner |-> {}, doms |-> <<>>, targets |-> <<>>,
           found |-> <<>>, todo |-> <<>>, i |-> 0, since |-> 0, items |-> {}]
Entry(id, q, ver) == [id |-> id, path |-> q, ver |-> ver]

Nothing == [regs |-> {}, past |-> [q \in Path |-> {}]]
Moment(r, t) == [regs |-> {r}, past |-> [q \in Path |-> {t[q]}]]
Both(h, g) == [regs |-> h.regs \cup g.regs,
               past |-> [q \in Path |-> h.past[q] \cup g.past[q]]]

Init ==
    /\ disk \in {m \in Manifests : Valid(m)} /\ reg = disk /\ edits = 0
    /\ stage = [p \in Proc |-> "ask"] /\ held = [p \in Proc |-> <<>>]
    /\ tree = FirstTree /\ dirs = {d \in Dir : \E q \in Path : tree[q] # 0 /\ Within(q, d)}
    /\ change \in {FirstTree[q] : q \in Path} /\ \A q \in Path : tree[q] <= change
    /\ index = tree /\ head = tree
    /\ queue \in Sessions
    /\ req = [p \in Proc |-> NoRequest]
    /\ at = [p \in Proc |-> 0]
    /\ code = [p \in Proc |-> "none"]
    /\ loc = [p \in Proc |-> Locals]
    /\ during = [p \in Proc |-> Nothing]
--------------------------------------------------------------------------------
\* The handlers of all requests.
Handler == [r \in Request \cup {NoRequest} |-> Program(r)]

Running(p) == at[p] \in DOMAIN Handler[req[p]] /\ code[p] = "none"
Answered(p) == at[p] # 0 /\ ~Running(p)
Now(p) == Handler[req[p]][at[p]]
Doing(p, what) == Running(p) /\ Now(p).do = what
With(p) == Now(p).with

\* History: what each running request has lived through.
Observe ==
    during' = [p \in Proc |->
        IF at'[p] = 0 THEN Nothing
        ELSE Both(during[p], Moment(reg', tree'))]

\* The step is done, goes on, or ends the request; l are the new local variables.
Jump(p, n, l) == /\ at' = [at EXCEPT ![p] = @ + n]
                 /\ loc' = [loc EXCEPT ![p] = l]
                 /\ UNCHANGED code /\ Observe
GoOn(p, l) == Jump(p, 1, l)
Loop(p, l) == Jump(p, IF l.todo = <<>> THEN 1 ELSE 0, l)
Fail(p, c) == /\ code' = [code EXCEPT ![p] = c]
              /\ UNCHANGED <<at, loc>> /\ Observe

\* No handler gets on, but the manifest or the registry changes.
Aside == UNCHANGED <<files, git, clients, at, code, loc>> /\ Observe

\* What a step leaves alone that touches neither files nor the controller.
Local == UNCHANGED <<manifest, files, git, clients>>

Content(q) == IF q \in Path THEN tree[q] ELSE 0
Readable(p, q) == Check(req[p].role, q, "read")

Start(p) ==
    /\ at[p] = 0 /\ queue[p] # <<>>
    /\ req' = [req EXCEPT ![p] = Head(queue[p])]
    /\ queue' = [queue EXCEPT ![p] = Tail(@)]
    /\ at' = [at EXCEPT ![p] = 1]
    /\ UNCHANGED <<manifest, files, git, code, loc>> /\ Observe

Reply(p) ==
    /\ Answered(p)
    /\ req' = [req EXCEPT ![p] = NoRequest]
    /\ at' = [at EXCEPT ![p] = 0]
    /\ code' = [code EXCEPT ![p] = "none"]
    /\ loc' = [loc EXCEPT ![p] = Locals]
    /\ UNCHANGED <<manifest, files, git, queue>> /\ Observe

CheckParams(p) ==
    /\ Doing(p, "need") /\ Local
    /\ IF req[p].lacks \in With(p) THEN Fail(p, "invalid") ELSE GoOn(p, loc[p])

\* Git checks its message itself.
CheckMessage(p) ==
    /\ Doing(p, "message") /\ Local
    /\ IF req[p].lacks = "message" THEN Fail(p, "store") ELSE GoOn(p, loc[p])

Gates == {"gateRead", "gateWrite", "gateSearch", "gateDomain"}

Passes(p) ==
    LET role == req[p].role
    IN CASE Now(p).do = "gateRead" -> Check(role, With(p), "read")
         [] Now(p).do = "gateWrite" -> Check(role, With(p), "write")
         [] Now(p).do = "gateSearch" -> \/ Check(role, Everything, "read")
                                        \/ Check(role, HotMemory, "read")
         [] OTHER -> Check(role, loc[p].dom[1].path, "read")

\* Variant: a request that is denied is dropped.
PassGateSilent(p) ==
    /\ \E g \in Gates : Doing(p, g)
    /\ Local
    /\ Passes(p) /\ GoOn(p, loc[p])

PassGate(p) ==
    /\ \E g \in Gates : Doing(p, g)
    /\ Local
    /\ IF Passes(p) THEN GoOn(p, loc[p]) ELSE Fail(p, "denied")
--------------------------------------------------------------------------------
\* The steps that call the controller.
Asks(p) == \/ \E c \in {"get", "resolve", "targets", "domains", "owner", "misplaced"} :
                 Doing(p, c)
           \/ Doing(p, "resolveEach") /\ (loc[p].todo # <<>> \/ loc[p].doms # <<>>)
           \/ Doing(p, "nextFile") /\ loc[p].i # Len(loc[p].dom[1].files)

\* reload: a manifest that parses and validates is read.
ReadManifest(p) ==
    /\ Asks(p) /\ stage[p] = "ask"
    /\ Valid(disk)
    /\ held' = [held EXCEPT ![p] = disk]
    /\ stage' = [stage EXCEPT ![p] = "install"]
    /\ UNCHANGED <<disk, reg, edits>> /\ Aside

\* reload: what was read is installed, whatever has been edited or installed since.
InstallManifest(p) ==
    /\ stage[p] = "install"
    /\ reg' = held[p]
    /\ held' = [held EXCEPT ![p] = <<>>]
    /\ stage' = [stage EXCEPT ![p] = "answer"]
    /\ UNCHANGED <<disk, edits>> /\ Aside

Reload(p) == ReadManifest(p) \/ InstallManifest(p)

\* The call answers from the registry there is.  It need not have reloaded: the mtime
\* may be the cached one, a stat or the read may fail, the manifest may be invalid.
Query(p) == /\ stage[p] # "install"
            /\ stage' = [stage EXCEPT ![p] = "ask"]
            /\ UNCHANGED <<disk, reg, edits, held, files, git, clients>>

GetDomain(p) ==
    /\ Doing(p, "get") /\ Query(p)
    /\ IF Known(reg, req[p].domain)
       THEN GoOn(p, [loc[p] EXCEPT !.dom = <<Get(reg, req[p].domain)>>])
       ELSE Fail(p, With(p))

Resolves(m, id, file) == Known(m, id) /\ Declares(Get(m, id), file)

ResolveFile(p) ==
    LET id == loc[p].dom[1].id
    IN /\ Doing(p, "resolve") /\ Query(p)
       /\ IF Resolves(reg, id, With(p))
          THEN GoOn(p, [loc[p] EXCEPT !.targets = <<Target(Get(reg, id), With(p))>>])
          ELSE Fail(p, "invalid")

\* ActionItems, Observations, Entities.
ListTargets(p) ==
    /\ Doing(p, "targets") /\ Query(p)
    /\ GoOn(p, [loc[p] EXCEPT !.targets = Targets(reg, With(p))])

\* List: all domains, those whose top-level domain the role may read, or those the
\* role may read.
ListDomains(p) ==
    /\ Doing(p, "domains") /\ Query(p)
    /\ GoOn(p, [loc[p] EXCEPT !.doms =
           Picked(reg, {i \in DOMAIN reg : CASE With(p) = "all" -> TRUE
                                             [] With(p) = "top" -> Readable(p, reg[i].top)
                                             [] OTHER -> Readable(p, reg[i].path)})])

HousekeepingFiles == <<"observations", "action-items", "hot-memory">>
Thrice(ds) == [k \in 1 .. 3 * Len(ds) |->
                  [id |-> ds[(k + 2) \div 3].id,
                   file |-> HousekeepingFiles[((k - 1) % 3) + 1]]]

\* collectHousekeepingTargets: three calls of ResolveFile for each domain.  Two
\* scanners will read the observations.
ResolveEach(p) ==
    LET l == loc[p]
        left == IF l.todo = <<>> THEN Thrice(l.doms) ELSE l.todo
        id == Head(left).id
        file == Head(left).file
        t == Target(Get(reg, id), file)
    IN /\ Doing(p, "resolveEach")
       /\ IF left = <<>> THEN Local /\ GoOn(p, l)
          ELSE /\ Query(p)
               /\ Loop(p, [l EXCEPT
                      !.todo = Tail(left),
                      !.targets = IF ~Resolves(reg, id, file) THEN @
                                  ELSE IF file = "observations" THEN @ \o <<t, t>>
                                  ELSE Append(@, t)])

FindOwner(p) ==
    /\ Doing(p, "owner") /\ Query(p)
    /\ GoOn(p, [loc[p] EXCEPT !.owner = DomainForPath(reg, With(p))])

\* ValidateWrite's second call: Get of the owner, or of the first segment.  A file
\* that its owner does not declare is only logged.
CheckMisplaced(p) ==
    /\ Doing(p, "misplaced") /\ Query(p)
    /\ IF loc[p].owner = {} /\ IDAsPath(reg, With(p))
       THEN Fail(p, "invalid") ELSE GoOn(p, loc[p])

\* domain_summary: the next declared file, if it still is one the role may read.
NextFile(p) ==
    LET l == loc[p]
        id == l.dom[1].id
        file == l.dom[1].files[l.i + 1]
        t == Target(Get(reg, id), file)
        next == [l EXCEPT !.i = @ + 1]
    IN /\ Doing(p, "nextFile")
       /\ IF l.i = Len(l.dom[1].files) THEN Local /\ Jump(p, 3, l)
          ELSE /\ Query(p)
               /\ IF Resolves(reg, id, file) /\ Readable(p, t.path)
                  THEN GoOn(p, [next EXCEPT !.targets = <<t>>])
                  ELSE Jump(p, 0, next)
--------------------------------------------------------------------------------
Member(t) == Entry(t.id, t.path, Content(t.path))

\* Read, Outline, readOptional: one file, if it exists.
OpenFile(p) ==
    /\ Doing(p, "open") /\ Local
    /\ GoOn(p, [loc[p] EXCEPT !.items =
           @ \cup {x \in {Entry("", With(p), Content(With(p)))} : x.ver # 0}])

\* FileExists and FileModTime.
CheckExists(p) ==
    LET t == loc[p].targets[1]
        next == [loc[p] EXCEPT !.items = @ \cup {Member(t)}]
    IN /\ Doing(p, "exists") /\ Local
       /\ IF Content(t.path) = 0 THEN Jump(p, -1, loc[p])
          ELSE IF Base(t.path) \in {"hot-memory", "action-items", "observations"}
          THEN GoOn(p, next) ELSE Jump(p, -1, next)

\* domain_summary reads what it has seen to exist.
ReadContent(p) ==
    LET t == loc[p].targets[1]
    IN /\ Doing(p, "content") /\ Local
       /\ Jump(p, -2, [loc[p] EXCEPT !.items =
              @ \cup {x \in {Member(t)} : x.ver # 0}])

\* WalkDir begins with the directory itself.
EnterDir(p) ==
    /\ Doing(p, "enter") /\ Local
    /\ IF With(p) \in dirs THEN GoOn(p, [loc[p] EXCEPT !.todo = <<With(p)>>])
       ELSE Jump(p, 2, loc[p])

Entries(d) == Picked(Order, {i \in DOMAIN Order :
                                /\ Order[i] # Root /\ Parent(Order[i]) = d
                                /\ Order[i] \in dirs \/ Content(Order[i]) # 0})

\* The wiki's catalog and registry are not pages.
Derived(q) == q = <<"wiki", "index">> \/ Within(q, <<"wiki", "_meta">>)

\* What the callback of a walk does with a file: note it when lstat still finds it,
\* read it and leave it out when it is gone, or list it even then.
Visit(visit, l, q) ==
    LET x == Entry("", q, Content(q))
    IN CASE visit = "collect" /\ x.ver # 0 -> [l EXCEPT !.found = Append(@, x)]
         [] visit = "read" /\ x.ver # 0 -> [l EXCEPT !.items = @ \cup {x}]
         [] visit = "list" /\ ~Derived(q) -> [l EXCEPT !.items = @ \cup {x}]
         [] OTHER -> l

\* WalkDir: list a directory, or visit a file that a directory listed.
VisitNext(p) ==
    LET l == loc[p]
        n == Head(l.todo)
    IN /\ Doing(p, "walk") /\ Local
       /\ Loop(p, IF n \in Dir THEN [l EXCEPT !.todo = Entries(n) \o Tail(@)]
                  ELSE Visit(With(p), [l EXCEPT !.todo = Tail(@)], n))

Scans == {"scan", "scanNotes", "count", "countEach"}

\* Variant: a missing file ends the scan.
ScanNextBreak(p) ==
    LET l == loc[p]
        left == IF l.todo = <<>> THEN l[With(p)] ELSE l.todo
        x == Member(Head(left))
    IN /\ \E s \in Scans : Doing(p, s)
       /\ Local
       /\ IF left = <<>> THEN GoOn(p, l)
          ELSE Loop(p, [l EXCEPT !.todo = IF x.ver = 0 THEN <<>> ELSE Tail(left),
                                 !.items = IF x.ver = 0 THEN @ ELSE @ \cup {x}])

\* The next file of a list: a missing one is skipped, but for session_brief, which
\* counts no items in it; the links are those of notes.
ScanNext(p) ==
    LET l == loc[p]
        left == IF l.todo = <<>> THEN l[With(p)] ELSE l.todo
        x == Member(Head(left))
    IN /\ \E s \in Scans : Doing(p, s)
       /\ Local
       /\ IF left = <<>> THEN GoOn(p, l)
          ELSE Loop(p, [l EXCEPT
                   !.todo = Tail(left),
                   !.items = IF \/ x.ver = 0 /\ Now(p).do # "countEach"
                                \/ x.path = Marker /\ Now(p).do = "scanNotes"
                             THEN @ ELSE @ \cup {x}])

\* An I/O error or a line that is too long; the other loops skip such files.
StoreFails(p) ==
    /\ \E s \in {"open", "count", "countEach"} : Doing(p, s)
    /\ Local /\ Fail(p, "store")

\* Whether the entities files that exist have entities in them is left open.
FindEntities(p) ==
    LET homes == {k \in DOMAIN loc[p].found : /\ Base(loc[p].found[k].path) = "entities"
                                              /\ Content(loc[p].found[k].path) # 0}
    IN /\ Doing(p, "entities") /\ Local
       /\ \/ homes # {} /\ GoOn(p, loc[p])
          \/ Jump(p, 2, loc[p])

\* Variant: the role is asked about the directory of the file.
PermitByDirectory(p) ==
    /\ Doing(p, "permit") /\ Local
    /\ GoOn(p, [loc[p] EXCEPT ![With(p)] =
           Picked(@, {k \in DOMAIN @ : Readable(p, Parent(@[k].path))})])

\* The filters of rpc/ on what is to be scanned and on what has been found.
Permit(p) ==
    /\ Doing(p, "permit") /\ Local
    /\ GoOn(p, [loc[p] EXCEPT ![With(p)] =
           Picked(@, {k \in DOMAIN @ : Readable(p, @[k].path)})])

Hide(p) ==
    /\ Doing(p, "hide") /\ Local
    /\ GoOn(p, [loc[p] EXCEPT !.items =
           {x \in @ : \/ Readable(p, x.path)
                      \/ With(p) = "counts" /\ x.id = ""}])

SelectBelow(p) ==
    /\ Doing(p, "below") /\ Local
    /\ GoOn(p, IF With(p) = "items"
               THEN [loc[p] EXCEPT !.items = {x \in @ : Within(x.path, req[p].path)}]
               ELSE [loc[p] EXCEPT !.found =
                        Picked(@, {k \in DOMAIN @ : Within(@[k].path, req[p].path)})])

Reported(l) == {l.found[k] : k \in DOMAIN l.found}

Report(p) ==
    /\ Doing(p, "report") /\ Local
    /\ GoOn(p, [loc[p] EXCEPT !.items = Reported(loc[p])])

\* housekeeping_scan: three files that no domain need declare, the time of the last
\* run, and what has changed since.
AddRoots(p) ==
    /\ Doing(p, "roots") /\ Local
    /\ GoOn(p, [loc[p] EXCEPT !.targets =
           @ \o <<Entry("", HotMemory, 0), Entry("", Improvements, 0),
                  Entry("", Patterns, 0)>>])

StatMarker(p) ==
    /\ Doing(p, "marker") /\ Local
    /\ GoOn(p, [loc[p] EXCEPT !.since = Content(With(p))])

ChangedSince(l) == {x \in Reported(l) : x.ver > l.since /\ x.path # Marker}

ReportChanged(p) ==
    /\ Doing(p, "changed") /\ Local
    /\ GoOn(p, [loc[p] EXCEPT !.items =
           @ \cup {x \in ChangedSince(loc[p]) : Readable(p, x.path)}])
--------------------------------------------------------------------------------
\* Variant: the directories are expected to exist.
MakeNoDirs(q) == UNCHANGED dirs

\* MkdirAll.
MakeDirs(q) == dirs' = dirs \cup {d \in Dir : Within(q, d)}

\* Write, AppendSection and Patch; a patch needs the file.
SaveFile(p) ==
    /\ Doing(p, "save") /\ change < MaxChange
    /\ req[p].method = "patch" => tree[With(p)] # 0
    /\ change' = change + 1
    /\ tree' = [tree EXCEPT ![With(p)] = change + 1]
    /\ MakeDirs(With(p))
    /\ UNCHANGED <<manifest, git, clients>>
    /\ GoOn(p, loc[p])

MoveFile(p) ==
    LET from == req[p].path
    IN /\ Doing(p, "rename")
       /\ tree[from] # 0 /\ tree[With(p)] = 0
       /\ tree' = [tree EXCEPT ![With(p)] = tree[from], ![from] = 0]
       /\ MakeDirs(With(p))
       /\ UNCHANGED <<manifest, change, git, clients>>
       /\ GoOn(p, loc[p])

\* The store refuses: a bad observation, text that is not there, an I/O error; it
\* may have made the directories.
RefuseChange(p) ==
    /\ Doing(p, "save") \/ Doing(p, "rename")
    /\ UNCHANGED dirs \/ MakeDirs(With(p))
    /\ UNCHANGED <<manifest, tree, change, git, clients>>
    /\ Fail(p, "store")

\* git add holds index.lock while it looks at the files; no other git command that
\* writes the index gets past it.
Adding(p) == Doing(p, "add")
Locked(p) == \E q \in Proc \ {p} : Adding(q)

StageFiles(p) ==
    /\ Doing(p, "stage") /\ Local
    /\ IF Locked(p) THEN Fail(p, "store")
       ELSE GoOn(p, [loc[p] EXCEPT !.todo =
                Picked(Order, {i \in DOMAIN Order : /\ Order[i] \in Path
                                                    /\ With(p) = "tracked" => index[Order[i]] # 0})])

AddFile(p) ==
    LET l == loc[p]
        q == Head(l.todo)
    IN /\ Doing(p, "add")
       /\ UNCHANGED <<manifest, files, head, clients>>
       /\ IF l.todo = <<>> THEN GoOn(p, l) /\ UNCHANGED index
          ELSE /\ index' = [index EXCEPT ![q] = tree[q]]
               /\ Loop(p, [l EXCEPT !.todo = Tail(@)])

\* git commit exits with an error when nothing is staged.
Commit(p) ==
    /\ Doing(p, "commit")
    /\ UNCHANGED <<manifest, files, index, clients>>
    /\ IF Locked(p) \/ index = head THEN Fail(p, "store") /\ UNCHANGED head
       ELSE head' = index /\ GoOn(p, loc[p])

\* Someone edits domains.yml.
Edit ==
    /\ edits < MaxEdits
    /\ disk' \in Manifests \ {disk}
    /\ edits' = edits + 1
    /\ UNCHANGED <<reg, stage, held>> /\ Aside

Run(p) ==
    \/ CheckParams(p) \/ CheckMessage(p) \/ PassGate(p)
    \/ GetDomain(p) \/ ResolveFile(p) \/ ListTargets(p) \/ ListDomains(p)
    \/ ResolveEach(p) \/ FindOwner(p) \/ CheckMisplaced(p) \/ NextFile(p)
    \/ OpenFile(p) \/ CheckExists(p) \/ ReadContent(p) \/ EnterDir(p) \/ VisitNext(p)
    \/ ScanNext(p) \/ StoreFails(p) \/ FindEntities(p) \/ Permit(p) \/ Hide(p)
    \/ SelectBelow(p) \/ Report(p) \/ AddRoots(p) \/ StatMarker(p) \/ ReportChanged(p)
    \/ SaveFile(p) \/ MoveFile(p) \/ RefuseChange(p)
    \/ StageFiles(p) \/ AddFile(p) \/ Commit(p) \/ Reply(p)

Next == Edit \/ \E p \in Proc : Start(p) \/ Reload(p) \/ Run(p)

\* A handler is a goroutine that waits for nobody: it runs on as long as it can.
Spec == /\ Init /\ [][Next]_vars
        /\ \A p \in Proc : WF_vars(Reload(p) \/ Run(p))
--------------------------------------------------------------------------------
\* Types, and the bounds of the counters.
TypeOK ==
    /\ disk \in Manifests /\ reg \in Manifests /\ Valid(reg) /\ edits \in 0 .. MaxEdits
    /\ stage \in [Proc -> {"ask", "install", "answer"}]
    /\ held \in [Proc -> Manifests \cup {<<>>}]
    /\ \A p \in Proc : stage[p] = "install" => held[p] \in Manifests /\ Valid(held[p])
    /\ tree \in [Path -> 0 .. MaxChange] /\ change \in 0 .. MaxChange
    /\ \A q \in Path, d \in Dir : tree[q] # 0 /\ Within(q, d) => d \in dirs
    /\ index \in [Path -> 0 .. MaxChange] /\ head \in [Path -> 0 .. MaxChange]
    /\ \A p \in Proc :
        /\ req[p] \in DOMAIN Handler /\ \A k \in DOMAIN queue[p] : queue[p][k] \in Request
        /\ at[p] \in 0 .. Len(Handler[req[p]]) + 1
        /\ code[p] \in {"none", "invalid", "denied", "store"}
        /\ at[p] = 0 => loc[p] = Locals /\ req[p] = NoRequest /\ code[p] = "none"

Ok(p) == Answered(p) /\ code[p] = "none"

\* The contents q has had since p's request began; 0 is no file.
Was(p, q) == IF q \in Path THEN during[p].past[q] ELSE {0}

\* What the answer names was there while the request ran: every file with the
\* content it was read with, and every pair of a domain and a file in one of the
\* registries the controller held meanwhile.  The methods that filter name no file the
\* role may not read.
AnswersSound ==
    \A p \in Proc : Ok(p) =>
        /\ \A x \in loc[p].items :
            /\ x.ver \in Was(p, x.path)
            /\ x.id # "" => \E m \in during[p].regs : \E d \in Domains(m) :
                   d.id = x.id /\ Parent(x.path) = d.path /\ Declares(d, Base(x.path))
            /\ req[p].method \in Filtered \/ x.id # "" => Readable(p, x.path)
        /\ \A k \in DOMAIN loc[p].doms : \E m \in during[p].regs :
               loc[p].doms[k] \in Domains(m)

\* Files that were there, and the same, all the time the request ran.
Steady(p) == {q \in Path : tree[q] # 0 /\ during[p].past[q] = {tree[q]}}

FilesOf(method) ==
    CASE method \in {"open_actions", "session_brief"} -> {"action-items"}
      [] method \in {"recent_observations", "cluster_check"} -> {"observations"}
      [] method = "entity_audit" -> {"entities"}
      [] method = "housekeeping_scan" -> {"observations", "action-items", "hot-memory"}
      [] OTHER -> {}

\* The domain and the file are asked for, and declared in m.
InScope(r, m, id, q) ==
    /\ \E d \in Domains(m) : d.id = id /\ Parent(q) = d.path /\ Declares(d, Base(q))
    /\ \/ r.method = "domain_summary" /\ r.domain = id
       \/ Base(q) \in FilesOf(r.method) /\ r.domain \in {"", id}

\* A walk of dir comes to what lies below it.
Below(q, dir) == q # dir /\ Within(q, dir)

\* The walk of the request comes to file q.
InWalk(p, q) ==
    LET r == req[p]
    IN CASE r.method \in {"search", "list"} -> TRUE
         [] r.method = "read" -> r.path \in Special
         [] r.method \in {"stats", "l0index"} -> Within(q, r.path)
         [] r.method = "scenario_check" -> Below(q, Scenarios)
         [] r.method = "glacier_index_compute" -> Below(q, Glacier)
         [] r.method = "wiki_index_compute" -> Below(q, Wiki) /\ ~Derived(q)
         [] r.method = "link_index_compute" -> q # Marker
         [] r.method = "housekeeping_scan" ->
                q # Marker /\ \A v \in Was(p, Marker) : tree[q] > v
         [] OTHER -> FALSE

\* Nobody's concurrent writes, moves and edits make a request miss a file they do
\* not touch: a file that was there unchanged, that the role may read and that every
\* registry the controller held meanwhile puts in scope is in the answer.
AnswersComplete ==
    \A p \in Proc : Ok(p) =>
        \A q \in Steady(p) :
            /\ InWalk(p, q) /\ (req[p].method \in Filtered => Readable(p, q))
                   => Entry("", q, tree[q]) \in loc[p].items
            /\ \A id \in {d.id : d \in UNION {Domains(m) : m \in during[p].regs}} :
                   /\ \A m \in during[p].regs : InScope(req[p], m, id, q)
                   /\ Readable(p, q)
                   => Entry(id, q, tree[q]) \in loc[p].items

\* Whatever is installed between the two calls of ValidateWrite and the write: a write
\* or append that uses a domain id as a path under every registry that the controller
\* held meanwhile never reaches the store.
StrayNeverWritten ==
    \A p \in Proc : Doing(p, "save") /\ req[p].method \in {"write", "append"} =>
        \E m \in during[p].regs : ~Misplaced(m, req[p].path)

\* A commit that is reported to be made holds every file as it was at some time of
\* the request, whoever else stages and commits: nothing older is taken for it.
CommitCovers ==
    \A p \in Proc : Ok(p) /\ req[p].method = "git" /\ req[p].domain = "commit" =>
        \A q \in Path : head[q] \in during[p].past[q]

\* A file changes only by a request that may write it, or away to a path that the
\* request may write.
ChangesPermitted ==
    [][\A q \in Path : tree'[q] # tree[q] =>
        \E p \in Proc :
            \/ /\ req[p].method \in {"write", "append", "patch"}
               /\ q = req[p].path /\ Check(req[p].role, q, "write")
            \/ /\ req[p].method = "move"
               /\ q \in {req[p].path, req[p].to}
               /\ Check(req[p].role, req[p].to, "write")]_vars

\* Every request is answered, whatever the others do.
RequestsServed == \A p \in Proc : at[p] # 0 ~> at[p] = 0
================================================================================
