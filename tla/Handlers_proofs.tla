----------------------------- MODULE Handlers_proofs ---------------------------
(***************************************************************************)
(* For any number of handlers, requests, paths and manifests: a file       *)
(* changes only by a request that may change it, a path that no registry   *)
(* of the time allows is not written, whatever is edited and installed in  *)
(* between, the state of the handlers is well formed at each step, and a   *)
(* commit that is reported holds every file as it was at some time of its  *)
(* request.                                                                *)
(***************************************************************************)
EXTENDS Handlers, FiniteSetTheorems, TLAPS

\* A program that changes no file.
Harmless(s) == \E S : s \in Seq(S) /\ \A x \in S : x.do \notin {"save", "rename"}

\* What is made of steps that change nothing changes nothing.
LEMMA HarmlessOf ==
    ASSUME NEW S, NEW s \in Seq(S), \A x \in S : x.do \notin {"save", "rename"}
    PROVE  Harmless(s)
  BY Zenon DEF Harmless

\* One step that changes nothing.
LEMMA Harmless1 ==
    ASSUME NEW a,
           \A x \in {a} : x.do \notin {"save", "rename"}
    PROVE  Harmless(<<a>>)
<1> DEFINE S == {a}
<1>1. <<a>> \in Seq(S)
  OBVIOUS
<1>2. \A x \in S : x.do \notin {"save", "rename"}
  OBVIOUS
<1> HIDE DEF S
<1> QED
  BY <1>1, <1>2, HarmlessOf

\* Two steps that change nothing.
LEMMA Harmless2 ==
    ASSUME NEW a, NEW b,
           \A x \in {a, b} : x.do \notin {"save", "rename"}
    PROVE  Harmless(<<a, b>>)
<1> DEFINE S == {a, b}
<1>1. <<a, b>> \in Seq(S)
  OBVIOUS
<1>2. \A x \in S : x.do \notin {"save", "rename"}
  OBVIOUS
<1> HIDE DEF S
<1> QED
  BY <1>1, <1>2, HarmlessOf

\* Three steps that change nothing.
LEMMA Harmless3 ==
    ASSUME NEW a, NEW b, NEW c,
           \A x \in {a, b, c} : x.do \notin {"save", "rename"}
    PROVE  Harmless(<<a, b, c>>)
<1> DEFINE S == {a, b, c}
<1>1. <<a, b, c>> \in Seq(S)
  OBVIOUS
<1>2. \A x \in S : x.do \notin {"save", "rename"}
  OBVIOUS
<1> HIDE DEF S
<1> QED
  BY <1>1, <1>2, HarmlessOf

\* Four steps that change nothing.
LEMMA Harmless4 ==
    ASSUME NEW a, NEW b, NEW c, NEW d,
           \A x \in {a, b, c, d} : x.do \notin {"save", "rename"}
    PROVE  Harmless(<<a, b, c, d>>)
<1> DEFINE S == {a, b, c, d}
<1>1. <<a, b, c, d>> \in Seq(S)
  OBVIOUS
<1>2. \A x \in S : x.do \notin {"save", "rename"}
  OBVIOUS
<1> HIDE DEF S
<1> QED
  BY <1>1, <1>2, HarmlessOf

\* Five steps that change nothing.
LEMMA Harmless5 ==
    ASSUME NEW a, NEW b, NEW c, NEW d, NEW e,
           \A x \in {a, b, c, d, e} : x.do \notin {"save", "rename"}
    PROVE  Harmless(<<a, b, c, d, e>>)
<1> DEFINE S == {a, b, c, d, e}
<1>1. <<a, b, c, d, e>> \in Seq(S)
  OBVIOUS
<1>2. \A x \in S : x.do \notin {"save", "rename"}
  OBVIOUS
<1> HIDE DEF S
<1> QED
  BY <1>1, <1>2, HarmlessOf

\* Six steps that change nothing.
LEMMA Harmless6 ==
    ASSUME NEW a, NEW b, NEW c, NEW d, NEW e, NEW f,
           \A x \in {a, b, c, d, e, f} : x.do \notin {"save", "rename"}
    PROVE  Harmless(<<a, b, c, d, e, f>>)
<1> DEFINE S == {a, b, c, d, e, f}
<1>1. <<a, b, c, d, e, f>> \in Seq(S)
  OBVIOUS
<1>2. \A x \in S : x.do \notin {"save", "rename"}
  OBVIOUS
<1> HIDE DEF S
<1> QED
  BY <1>1, <1>2, HarmlessOf

\* Seven steps that change nothing.
LEMMA Harmless7 ==
    ASSUME NEW a, NEW b, NEW c, NEW d, NEW e, NEW f, NEW g,
           \A x \in {a, b, c, d, e, f, g} : x.do \notin {"save", "rename"}
    PROVE  Harmless(<<a, b, c, d, e, f, g>>)
<1> DEFINE S == {a, b, c, d, e, f, g}
<1>1. <<a, b, c, d, e, f, g>> \in Seq(S)
  OBVIOUS
<1>2. \A x \in S : x.do \notin {"save", "rename"}
  OBVIOUS
<1> HIDE DEF S
<1> QED
  BY <1>1, <1>2, HarmlessOf

\* Harmless programs one after the other.
LEMMA HarmlessJoin ==
    ASSUME NEW s, NEW t, Harmless(s), Harmless(t)
    PROVE  Harmless(s \o t)
<1>1. PICK S : s \in Seq(S) /\ \A x \in S : x.do \notin {"save", "rename"}
  BY DEF Harmless
<1>2. PICK T : t \in Seq(T) /\ \A x \in T : x.do \notin {"save", "rename"}
  BY DEF Harmless
<1>3. s \o t \in Seq(S \cup T)
  <2>1. s \in Seq(S \cup T) /\ t \in Seq(S \cup T)
    BY <1>1, <1>2
  <2> QED
    BY <2>1
<1> QED
  BY <1>1, <1>2, <1>3 DEF Harmless

\* What a step does is what it was made for.
LEMMA DoWhat == \A what, with : Do(what, with).do = what /\ Do(what, with).with = with
  BY DEF Do

\* Walks change nothing.
LEMMA WalksHarmless ==
    /\ \A dir, visit : Harmless(Walk(dir, visit))
    /\ Harmless(ScanFiles) /\ Harmless(ReadAll)
<1>1. \A dir, visit : Harmless(Walk(dir, visit))
  BY Harmless2, DoWhat DEF Walk
<1>2. Harmless(ScanFiles)
  BY <1>1 DEF ScanFiles
<1>3. Harmless(<<Do("scan", "found")>>)
  BY Harmless1, DoWhat
<1> QED
  BY <1>1, <1>2, <1>3, HarmlessJoin DEF ReadAll

\* Neither do the targets of a file.
LEMMA TargetsHarmless == \A r, file : Harmless(TargetsOf(r, file))
<1> TAKE r, file
<1>1. Harmless(<<Do("targets", file)>>)
  BY Harmless1, DoWhat
<1>2. Harmless(<<Do("get", "invalid"), Do("resolve", file)>>)
  BY Harmless2, DoWhat
<1> QED
  BY <1>1, <1>2 DEF TargetsOf

Changers == {"write", "append", "patch", "move"}

\* The methods that are not meant to change files have no step that does.
LEMMA OthersHarmless ==
    ASSUME NEW r, r.method \notin Changers
    PROVE  Harmless(Program(r))
<1> USE DoWhat, HarmlessJoin, WalksHarmless, TargetsHarmless
<1>1. Harmless(HandleRead(r))
  <2>1. Harmless(<<Do("report", "found")>>)
    BY Harmless1
  <2>2. Harmless(<<GateRead(r.path), Do("open", r.path)>>)
    BY Harmless2 DEF GateRead
  <2>3. Harmless(<<Need({"params", "path"})>>)
    BY Harmless1 DEF Need
  <2> QED
    BY <2>1, <2>2, <2>3 DEF HandleRead
<1>2. Harmless(HandleOutline(r))
  <2>1. Harmless(<<Need({"params", "path"}), GateRead(r.path), Do("open", r.path)>>)
    BY Harmless3 DEF Need, GateRead
  <2> QED
    BY <2>1 DEF HandleOutline
<1>3. Harmless(HandleSearch(r))
  <2>1. Harmless(<<Need({"params", "query"}), Do("gateSearch", Everything)>>)
    BY Harmless2 DEF Need
  <2> QED
    BY <2>1 DEF HandleSearch
<1>4. Harmless(HandleStats(r))
  <2>1. Harmless(<<Need({"params"})>>)
    BY Harmless1 DEF Need
  <2>2. Harmless(<<Do("below", "found"), Do("scan", "found")>>)
    BY Harmless2
  <2> QED
    BY <2>1, <2>2 DEF HandleStats
<1>5. Harmless(HandleL0Index(r))
  <2>1. Harmless(<<Need({"params"})>>)
    BY Harmless1 DEF Need
  <2>2. Harmless(<<Do("below", "items")>>)
    BY Harmless1
  <2> QED
    BY <2>1, <2>2 DEF HandleL0Index
<1>6. Harmless(HandleList(r))
  <2>1. Harmless(<<Need({"params"})>>)
    BY Harmless1 DEF Need
  <2>2. Harmless(<<Do("report", "found")>>)
    BY Harmless1
  <2> QED
    BY <2>1, <2>2 DEF HandleList
<1>7. Harmless(HandleOpenActions(r))
  <2>1. Harmless(<<Need({"params", "role"})>>)
    BY Harmless1 DEF Need
  <2>2. Harmless(<<Do("count", "targets"), Do("hide", "items")>>)
    BY Harmless2
  <2> QED
    BY <2>1, <2>2 DEF HandleOpenActions
<1>8. Harmless(HandleRecentObservations(r))
  <2>1. Harmless(<<Need({"params", "role", "alias", "since"})>>)
    BY Harmless1 DEF Need
  <2>2. Harmless(<<Do("permit", "targets"), Do("count", "targets")>>)
    BY Harmless2
  <2> QED
    BY <2>1, <2>2 DEF HandleRecentObservations
<1>9. Harmless(HandleClusterCheck(r))
  <2>1. Harmless(<<Need({"params", "role"})>>)
    BY Harmless1 DEF Need
  <2>2. Harmless(<<Do("permit", "targets"), Need({"since"}), Do("count", "targets")>>)
    BY Harmless3 DEF Need
  <2> QED
    BY <2>1, <2>2 DEF HandleClusterCheck
<1>10. Harmless(HandleEntityAudit(r))
  <2>1. Harmless(<<Need({"params", "role"})>>)
    BY Harmless1 DEF Need
  <2>2. Harmless(<<Do("permit", "targets"), Do("count", "targets")>>)
    BY Harmless2
  <2> QED
    BY <2>1, <2>2 DEF HandleEntityAudit
<1>11. Harmless(HandleScenarioCheck(r))
  <2>1. Harmless(<<Need({"params", "role"})>>)
    BY Harmless1 DEF Need
  <2>2. Harmless(<<Do("hide", "items")>>)
    BY Harmless1
  <2> QED
    BY <2>1, <2>2 DEF HandleScenarioCheck
<1>12. Harmless(HandleGlacierIndex(r))
  <2>1. Harmless(<<Need({"params", "role"})>>)
    BY Harmless1 DEF Need
  <2>2. Harmless(<<Do("hide", "items")>>)
    BY Harmless1
  <2> QED
    BY <2>1, <2>2 DEF HandleGlacierIndex
<1>13. Harmless(HandleWikiIndex(r))
  <2>1. Harmless(<<Need({"params", "role"})>>)
    BY Harmless1 DEF Need
  <2>2. Harmless(<<Do("hide", "items")>>)
    BY Harmless1
  <2> QED
    BY <2>1, <2>2 DEF HandleWikiIndex
<1>14. Harmless(HandleDomainsList(r))
  <2>1. Harmless(<<Need({"params"}), Do("domains", "top")>>)
    BY Harmless2 DEF Need
  <2> QED
    BY <2>1 DEF HandleDomainsList
<1>15. Harmless(HandleDomainsGet(r))
  <2>1. Harmless(<<Need({"params", "domain"}), Do("get", "store"), Do("gateDomain", "read")>>)
    BY Harmless3 DEF Need
  <2> QED
    BY <2>1 DEF HandleDomainsGet
<1>16. Harmless(HandleDomainSummary(r))
  <2>1. Harmless(<<Need({"params", "role", "domain"}), Do("get", "invalid"),
               Do("gateDomain", "read"), Need({"since"}),
               Do("nextFile", "read"), Do("exists", "read"), Do("content", "read")>>)
    BY Harmless7 DEF Need
  <2> QED
    BY <2>1 DEF HandleDomainSummary
<1>17. Harmless(HandleSessionBrief(r))
  <2>1. Harmless(<<Need({"params", "role"}), Do("domains", "each"), Do("targets", "action-items"),
               Do("open", HotMemory), Do("open", Patterns), Do("countEach", "targets"),
               Do("hide", "counts")>>)
    BY Harmless7 DEF Need
  <2> QED
    BY <2>1 DEF HandleSessionBrief
<1>18. Harmless(HandleHousekeepingScan(r))
  <2>1. Harmless(<<Need({"params", "role"}), Do("domains", "all"), Do("resolveEach", "read"),
               Do("roots", "read"), Do("permit", "targets"), Do("marker", Marker)>>)
    BY Harmless6 DEF Need
  <2>2. Harmless(<<Do("scan", "targets"), Do("changed", "found")>>)
    BY Harmless2
  <2> QED
    BY <2>1, <2>2 DEF HandleHousekeepingScan
<1>19. Harmless(HandleLinkIndex(r))
  <2>1. Harmless(<<Need({"params", "role"})>>)
    BY Harmless1 DEF Need
  <2>2. Harmless(<<Do("scanNotes", "found"), Do("hide", "items")>>)
    BY Harmless2
  <2> QED
    BY <2>1, <2>2 DEF HandleLinkIndex
<1>20. Harmless(HandleLinkAudit(r))
  <2>1. Harmless(<<Need({"params", "role"})>>)
    BY Harmless1 DEF Need
  <2>2. Harmless(<<Do("permit", "found"), Do("entities", "found"), Do("scanNotes", "found")>>)
    BY Harmless3
  <2> QED
    BY <2>1, <2>2 DEF HandleLinkAudit
<1>21. Harmless(HandleGit(r))
  <2>1. Harmless(<<Need({"params", "op"})>>)
    BY Harmless1 DEF Need
  <2>2. Harmless(<<Need({"params", "op"}), GateWrite(Everything), Do("message", "commit"),
               Do("stage", "all"), Do("add", "all"), Do("commit", "index")>>)
    BY Harmless6 DEF Need, GateWrite
  <2> QED
    BY <2>1, <2>2 DEF HandleGit
<1>22. Harmless(<<>>)
  <2> DEFINE S == {}
  <2>1. <<>> \in Seq(S) /\ \A x \in S : x.do \notin {"save", "rename"}
    OBVIOUS
  <2> HIDE DEF S
  <2> QED
    BY <2>1, HarmlessOf
<1> HIDE DoWhat, HarmlessJoin, WalksHarmless, TargetsHarmless
<1> QED
  BY <1>1, <1>2, <1>3, <1>4, <1>5, <1>6, <1>7, <1>8, <1>9, <1>10,
     <1>11, <1>12, <1>13, <1>14, <1>15, <1>16, <1>17, <1>18, <1>19,
     <1>20, <1>21, <1>22 DEF Program, Changers
--------------------------------------------------------------------------------
\* The path a request changes.
Changed(r) == IF r.method = "move" THEN r.to ELSE r.path

\* The steps of the methods that change files: the parameters, the gate, the
\* manifest, the change.
LEMMA ChangersSteps ==
    ASSUME NEW r
    PROVE  /\ r.method \in {"write", "append"} =>
               Program(r) = <<Need({"params", "path"}), GateWrite(r.path),
                              Do("owner", r.path), Do("misplaced", r.path),
                              Do("save", r.path)>>
           /\ r.method = "patch" =>
               Program(r) = <<Need({"params", "path"}), GateWrite(r.path),
                              Do("save", r.path)>>
           /\ r.method = "move" =>
               Program(r) = <<Need({"params", "path", "to"}), GateWrite(r.to),
                              Do("rename", r.to)>>
<1>1. r.method \in {"write", "append"} => Program(r) = HandleWrite(r)
  BY DEF Program
<1>2. r.method = "patch" => Program(r) = HandlePatch(r)
  BY DEF Program
<1>3. r.method = "move" => Program(r) = HandleMove(r)
  BY DEF Program
<1> QED
  BY <1>1, <1>2, <1>3 DEF HandleWrite, HandlePatch, HandleMove

\* What a handler of such a method can be doing, and that no other one changes a file.
LEMMA WhatIsDone ==
    ASSUME NEW p \in Proc, NEW w, Doing(p, w), req[p] \in DOMAIN Handler
    PROVE  /\ req[p].method \in {"write", "append"} =>
               /\ at[p] \in 1 .. 5
               /\ w = <<"need", "gateWrite", "owner", "misplaced", "save">>[at[p]]
               /\ at[p] > 1 => With(p) = req[p].path
           /\ req[p].method = "patch" =>
               /\ at[p] \in 1 .. 3 /\ w = <<"need", "gateWrite", "save">>[at[p]]
               /\ at[p] > 1 => With(p) = req[p].path
           /\ req[p].method = "move" =>
               /\ at[p] \in 1 .. 3 /\ w = <<"need", "gateWrite", "rename">>[at[p]]
               /\ at[p] > 1 => With(p) = req[p].to
           /\ req[p].method \notin Changers => w \notin {"save", "rename"}
<1> DEFINE r == req[p]
           k == at[p]
<1>1. Handler[r] = Program(r)
  BY DEF Handler
<1>2. k \in DOMAIN Program(r) /\ w = Program(r)[k].do /\ With(p) = Program(r)[k].with
  BY <1>1 DEF Doing, Running, Now, With
<1> HIDE DEF r, k
<1>3. CASE r.method \in {"write", "append"}
  <2>1. Program(r) = <<Need({"params", "path"}), GateWrite(r.path), Do("owner", r.path),
                       Do("misplaced", r.path), Do("save", r.path)>>
    BY <1>3, ChangersSteps
  <2>2. k \in {1, 2, 3, 4, 5}
    BY <1>2, <2>1
  <2> QED
    BY <1>2, <1>3, <2>1, <2>2 DEF Need, GateWrite, Do, Changers, r, k
<1>4. CASE r.method = "patch"
  <2>1. Program(r) = <<Need({"params", "path"}), GateWrite(r.path), Do("save", r.path)>>
    BY <1>4, ChangersSteps
  <2>2. k \in {1, 2, 3}
    BY <1>2, <2>1
  <2> QED
    BY <1>2, <1>4, <2>1, <2>2 DEF Need, GateWrite, Do, Changers, r, k
<1>5. CASE r.method = "move"
  <2>1. Program(r) = <<Need({"params", "path", "to"}), GateWrite(r.to), Do("rename", r.to)>>
    BY <1>5, ChangersSteps
  <2>2. k \in {1, 2, 3}
    BY <1>2, <2>1
  <2> QED
    BY <1>2, <1>5, <2>1, <2>2 DEF Need, GateWrite, Do, Changers, r, k
<1>6. CASE r.method \notin Changers
  <2>1. PICK S : Program(r) \in Seq(S) /\ \A x \in S : x.do \notin {"save", "rename"}
    BY <1>6, OthersHarmless DEF Harmless
  <2>2. Program(r)[k] \in S
    BY <1>2, <2>1
  <2> QED
    BY <1>2, <1>6, <2>1, <2>2 DEF Changers, r
<1> QED
  BY <1>3, <1>4, <1>5, <1>6 DEF Changers
--------------------------------------------------------------------------------
\* What the proofs need of types.
Types ==
    /\ at \in [Proc -> Int] /\ DOMAIN code = Proc /\ DOMAIN tree = Path
    /\ DOMAIN loc = Proc /\ \A p \in Proc : DOMAIN loc[p] = DOMAIN Locals
    /\ req \in [Proc -> DOMAIN Handler] /\ queue \in [Proc -> Seq(Request)]

\* Behind the gate the role may write what the request changes.
GatedAt(p) ==
    req[p].method \in Changers =>
        at[p] \in {0, 1, 2} \/ Check(req[p].role, Changed(req[p]), "write")
Gated == \A p \in Proc : GatedAt(p)

\* Behind ValidateWrite's first call an owner was found in a registry of the time,
\* behind the second one of them does not reject the path.
VettedBy(r, n, owner, regs) ==
    /\ n = 4 /\ owner # {} => \E m \in regs : DomainForPath(m, r.path) # {}
    /\ n = 5 => \E m \in regs : ~Misplaced(m, r.path)
VettedAt(p) ==
    req[p].method \in {"write", "append"} /\ code[p] = "none" =>
        VettedBy(req[p], at[p], loc[p].owner, during[p].regs)
Vetted == \A p \in Proc : VettedAt(p)

IInv == Types /\ Gated /\ Vetted

\* A step of p that leaves the requests and the other handlers alone.
Moves(p) ==
    /\ UNCHANGED clients /\ Observe
    /\ at' \in [Proc -> Int] /\ DOMAIN code' = Proc
    /\ DOMAIN loc' = Proc /\ DOMAIN loc'[p] = DOMAIN loc[p]
    /\ \A o \in Proc \ {p} : at'[o] = at[o] /\ code'[o] = code[o] /\ loc'[o] = loc[o]

\* A step that no method that changes files has.
Elsewhere(p) ==
    /\ Moves(p) /\ UNCHANGED tree
    /\ \E w : /\ Doing(p, w)
             /\ w \notin {"need", "gateWrite", "owner", "misplaced", "save", "rename"}

\* Going on, or not, is such a step.
LEMMA JumpMoves ==
    ASSUME NEW p \in Proc, Types, UNCHANGED clients,
           NEW n \in Int, NEW l, DOMAIN l = DOMAIN loc[p], Jump(p, n, l)
    PROVE  Moves(p)
  BY DEF Types, Jump, Moves

\* So is failing.
LEMMA FailMoves ==
    ASSUME NEW p \in Proc, Types, UNCHANGED clients, NEW c, Fail(p, c)
    PROVE  Moves(p)
  BY DEF Types, Fail, Moves

\* So is a loop's next round.
LEMMA LoopMoves ==
    ASSUME NEW p \in Proc, Types, UNCHANGED clients,
           NEW l, DOMAIN l = DOMAIN loc[p], Loop(p, l) \/ GoOn(p, l)
    PROVE  Moves(p)
  BY JumpMoves DEF Loop, GoOn

\* The steps that look after parameters and the controller.
LEMMA ControllerElsewhere ==
    ASSUME NEW p \in Proc, Types,
           \/ CheckMessage(p) \/ GetDomain(p) \/ ResolveFile(p) \/ ListTargets(p)
           \/ ListDomains(p) \/ ResolveEach(p) \/ NextFile(p)
    PROVE  Elsewhere(p)
<1> USE JumpMoves, FailMoves, LoopMoves
<1>1. CASE CheckMessage(p)
  BY <1>1 DEF CheckMessage, Elsewhere, Local, files
<1>2. CASE GetDomain(p)
  BY <1>2 DEF GetDomain, Elsewhere, Query, files
<1>3. CASE ResolveFile(p)
  BY <1>3 DEF ResolveFile, Elsewhere, Query, files
<1>4. CASE ListTargets(p)
  BY <1>4 DEF ListTargets, Elsewhere, Query, files
<1>5. CASE ListDomains(p)
  BY <1>5 DEF ListDomains, Elsewhere, Query, files
<1>6. CASE ResolveEach(p)
  <2> DEFINE l == loc[p]
             left == IF l.todo = <<>> THEN Thrice(l.doms) ELSE l.todo
             id == Head(left).id
             file == Head(left).file
             t == Target(Get(reg, id), file)
             ts == IF ~Resolves(reg, id, file) THEN l.targets
                   ELSE IF file = "observations" THEN l.targets \o <<t, t>>
                   ELSE Append(l.targets, t)
             rest == Tail(left)
  <2>1. UNCHANGED clients /\ UNCHANGED tree /\ Doing(p, "resolveEach")
    BY <1>6, Zenon DEF ResolveEach, Query, Local, files
  <2>2. GoOn(p, l) \/ Loop(p, [l EXCEPT !.todo = rest, !.targets = ts])
    BY <1>6, Zenon DEF ResolveEach
  <2> HIDE DEF l, ts, rest
  <2>3. DOMAIN [l EXCEPT !.todo = rest, !.targets = ts] = DOMAIN l
    OBVIOUS
  <2>4. Moves(p)
    BY <2>1, <2>2, <2>3, LoopMoves DEF l
  <2> QED
    BY <2>1, <2>4 DEF Elsewhere
<1>7. CASE NextFile(p)
  <2> DEFINE l == loc[p]
             ts == <<Target(Get(reg, l.dom[1].id), l.dom[1].files[l.i + 1])>>
             i == l.i + 1
             next == [l EXCEPT !.i = i]
             found == [next EXCEPT !.targets = ts]
  <2>1. UNCHANGED clients /\ UNCHANGED tree /\ Doing(p, "nextFile")
    BY <1>7, Zenon DEF NextFile, Query, Local, files
  <2>2. Jump(p, 3, l) \/ GoOn(p, found) \/ Jump(p, 0, next)
    BY <1>7, Zenon DEF NextFile
  <2> HIDE DEF l, ts, i
  <2>3. DOMAIN next = DOMAIN l /\ DOMAIN found = DOMAIN l
    OBVIOUS
  <2> HIDE DEF next, found
  <2>4. Moves(p)
    BY <2>1, <2>2, <2>3 DEF l
  <2> QED
    BY <2>1, <2>4 DEF Elsewhere
<1> QED
  BY <1>1, <1>2, <1>3, <1>4, <1>5, <1>6, <1>7

\* The steps that look at files.
LEMMA FilesElsewhere ==
    ASSUME NEW p \in Proc, Types,
           \/ OpenFile(p) \/ CheckExists(p) \/ ReadContent(p) \/ EnterDir(p)
           \/ VisitNext(p) \/ ScanNext(p) \/ StoreFails(p) \/ FindEntities(p)
    PROVE  Elsewhere(p)
<1> USE JumpMoves, FailMoves, LoopMoves DEF Elsewhere, Local, files
<1>1. CASE OpenFile(p)
  <2> DEFINE S == {x \in {Entry("", With(p), Content(With(p)))} : x.ver # 0}
             I == loc[p].items \cup S
  <2>1. GoOn(p, [loc[p] EXCEPT !.items = I])
    BY <1>1, Zenon DEF OpenFile
  <2>2. Local /\ Doing(p, "open")
    BY <1>1, Zenon DEF OpenFile
  <2> HIDE DEF I
  <2>3. Moves(p)
    BY <2>1, <2>2
  <2> QED
    BY <2>2, <2>3
<1>2. CASE CheckExists(p)
  BY <1>2 DEF CheckExists
<1>3. CASE ReadContent(p)
  BY <1>3 DEF ReadContent
<1>4. CASE EnterDir(p)
  BY <1>4 DEF EnterDir
<1>5. CASE VisitNext(p)
  <2> DEFINE l == loc[p]
             n == Head(l.todo)
             down == Entries(n) \o Tail(l.todo)
             rest == Tail(l.todo)
             here == [l EXCEPT !.todo = rest]
             next == IF n \in Dir THEN [l EXCEPT !.todo = down] ELSE Visit(With(p), here, n)
  <2>1. UNCHANGED clients /\ UNCHANGED tree /\ Doing(p, "walk") /\ Loop(p, next)
    BY <1>5, Zenon DEF VisitNext
  <2> HIDE DEF down, rest, n
  <2>2. DOMAIN Visit(With(p), here, n) = DOMAIN here
    <3> HIDE DEF here
    <3> QED
      BY DEF Visit
  <2>3. DOMAIN next = DOMAIN l
    <3> HIDE DEF l
    <3>1. DOMAIN here = DOMAIN l /\ DOMAIN [l EXCEPT !.todo = down] = DOMAIN l
      OBVIOUS
    <3> HIDE DEF here
    <3> QED
      BY <2>2, <3>1
  <2> HIDE DEF next
  <2>4. Moves(p)
    BY <2>1, <2>3, LoopMoves
  <2> QED
    BY <2>1, <2>4 DEF Elsewhere
<1>6. CASE ScanNext(p)
  BY <1>6 DEF ScanNext, Scans
<1>7. CASE StoreFails(p)
  BY <1>7 DEF StoreFails
<1>8. CASE FindEntities(p)
  BY <1>8 DEF FindEntities
<1> QED
  BY <1>1, <1>2, <1>3, <1>4, <1>5, <1>6, <1>7, <1>8

\* The steps that filter what was found, and git's.
LEMMA AnswersElsewhere ==
    ASSUME NEW p \in Proc, Types,
           \/ Permit(p) \/ Hide(p) \/ SelectBelow(p) \/ Report(p) \/ AddRoots(p)
           \/ StatMarker(p) \/ ReportChanged(p)
           \/ StageFiles(p) \/ AddFile(p) \/ Commit(p)
    PROVE  Elsewhere(p)
<1> USE JumpMoves, FailMoves, LoopMoves DEF Elsewhere, Local, files
<1>1. CASE Permit(p)
  BY <1>1 DEF Permit
<1>2. CASE Hide(p)
  <2> DEFINE I == {x \in loc[p].items : \/ Readable(p, x.path)
                                        \/ With(p) = "counts" /\ x.id = ""}
  <2>1. GoOn(p, [loc[p] EXCEPT !.items = I])
    BY <1>2, Zenon DEF Hide
  <2>2. Local /\ Doing(p, "hide")
    BY <1>2, Zenon DEF Hide
  <2> HIDE DEF I
  <2>3. Moves(p)
    BY <2>1, <2>2
  <2> QED
    BY <2>2, <2>3
<1>3. CASE SelectBelow(p)
  BY <1>3 DEF SelectBelow
<1>4. CASE Report(p)
  BY <1>4 DEF Report
<1>5. CASE AddRoots(p)
  <2> DEFINE ts == loc[p].targets \o <<Entry("", HotMemory, 0), Entry("", Improvements, 0),
                                       Entry("", Patterns, 0)>>
  <2>1. GoOn(p, [loc[p] EXCEPT !.targets = ts])
    BY <1>5, Zenon DEF AddRoots
  <2>2. Local /\ Doing(p, "roots")
    BY <1>5, Zenon DEF AddRoots
  <2> HIDE DEF ts
  <2>3. Moves(p)
    BY <2>1, <2>2
  <2> QED
    BY <2>2, <2>3
<1>6. CASE StatMarker(p)
  BY <1>6 DEF StatMarker
<1>7. CASE ReportChanged(p)
  BY <1>7 DEF ReportChanged
<1>8. CASE StageFiles(p)
  BY <1>8 DEF StageFiles
<1>9. CASE AddFile(p)
  BY <1>9 DEF AddFile
<1>10. CASE Commit(p)
  BY <1>10 DEF Commit
<1> QED
  BY <1>1, <1>2, <1>3, <1>4, <1>5, <1>6, <1>7, <1>8, <1>9, <1>10

\* A gate, but that of a write, is one of them as well.
LEMMA PassGateMoves ==
    ASSUME NEW p \in Proc, Types, PassGate(p)
    PROVE  \/ Elsewhere(p)
           \/ /\ Doing(p, "gateWrite") /\ Moves(p) /\ UNCHANGED tree
              /\ at'[p] # at[p] =>
                     at'[p] = at[p] + 1 /\ Check(req[p].role, With(p), "write")
<1>1. UNCHANGED clients /\ UNCHANGED tree
  BY DEF PassGate, Local, files
<1>2. Moves(p)
  BY <1>1, FailMoves, LoopMoves DEF PassGate
<1>3. PICK g \in Gates : Doing(p, g)
  BY DEF PassGate
<1>4. CASE g = "gateWrite"
  <2>1. Passes(p) = Check(req[p].role, With(p), "write")
    BY <1>3, <1>4 DEF Passes, Doing
  <2>2. \/ Fail(p, "denied")
        \/ Passes(p) /\ Jump(p, 1, loc[p])
    BY Zenon DEF PassGate, GoOn
  <2>3. at'[p] # at[p] => at'[p] = at[p] + 1 /\ Passes(p)
    BY <2>2 DEF Jump, Fail, Types
  <2> QED
    BY <1>1, <1>2, <1>3, <1>4, <2>1, <2>3
<1>5. CASE g # "gateWrite"
  BY <1>1, <1>2, <1>3, <1>5 DEF Elsewhere, Gates
<1> QED
  BY <1>4, <1>5

\* What a running request has lived through only grows.
LEMMA Remembered ==
    ASSUME NEW p \in Proc, Observe, at'[p] # 0
    PROVE  /\ during[p].regs \subseteq during'[p].regs
           /\ reg' \in during'[p].regs
  BY DEF Observe, Both, Moment

\* More manifests to choose from change nothing.
LEMMA VettedGrows ==
    ASSUME NEW r, NEW n, NEW owner, NEW R, NEW S, R \subseteq S, VettedBy(r, n, owner, R)
    PROVE  VettedBy(r, n, owner, S)
  BY Zenon DEF VettedBy

\* A step of others keeps what is known of p.
LEMMA OthersKeep ==
    ASSUME NEW p \in Proc, GatedAt(p), VettedAt(p), Observe, req'[p] = req[p],
           at'[p] = at[p], code'[p] = code[p], loc'[p] = loc[p]
    PROVE  GatedAt(p)' /\ VettedAt(p)'
<1>1. GatedAt(p)'
  BY DEF GatedAt
<1>2. CASE at'[p] = 0
  BY <1>1, <1>2 DEF VettedAt, VettedBy
<1>3. CASE at'[p] # 0
  BY <1>1, <1>3, Remembered, VettedGrows DEF VettedAt
<1> QED
  BY <1>1, <1>2, <1>3

\* So does a step of p for the others.
LEMMA MovesKeeps ==
    ASSUME NEW p \in Proc, IInv, Moves(p), DOMAIN tree' = Path,
           GatedAt(p)', VettedAt(p)'
    PROVE  IInv'
<1>1. Types'
  BY DEF IInv, Types, Moves, clients
<1>2. ASSUME NEW o \in Proc, o # p
      PROVE  GatedAt(o)' /\ VettedAt(o)'
  BY <1>2, OthersKeep DEF IInv, Gated, Vetted, Moves, clients
<1> QED
  BY <1>1, <1>2 DEF IInv, Gated, Vetted

\* A step that no method that changes files has keeps the invariant.
LEMMA ElsewhereKeeps ==
    ASSUME NEW p \in Proc, IInv, Elsewhere(p)
    PROVE  IInv'
<1>1. PICK w : /\ Doing(p, w)
               /\ w \notin {"need", "gateWrite", "owner", "misplaced", "save", "rename"}
  BY DEF Elsewhere
<1>2. req[p] \in DOMAIN Handler
  BY DEF IInv, Types
<1>3. req[p].method \notin Changers
  <2>1. ASSUME at[p] \in 1 .. 5
        PROVE  at[p] \in {1, 2, 3, 4, 5}
    BY <2>1
  <2>2. ASSUME at[p] \in 1 .. 3
        PROVE  at[p] \in {1, 2, 3}
    BY <2>2
  <2> QED
    BY <1>1, <1>2, <2>1, <2>2, WhatIsDone DEF Changers
<1>4. req'[p] = req[p]
  BY DEF Elsewhere, Moves, clients
<1>5. GatedAt(p)' /\ VettedAt(p)'
  BY <1>3, <1>4 DEF GatedAt, VettedAt, Changers
<1> QED
  BY <1>5, MovesKeeps DEF Elsewhere, IInv, Types
--------------------------------------------------------------------------------
\* Where in its program a method that changes files is when it does what.
LEMMA Places ==
    ASSUME NEW p \in Proc, NEW w, Doing(p, w), req[p] \in DOMAIN Handler,
           w \in {"need", "gateWrite", "owner", "misplaced", "save", "rename"}
    PROVE  /\ req[p].method \in Changers =>
               /\ w = "need" => at[p] = 1
               /\ w = "gateWrite" => at[p] = 2
               /\ w \notin {"need", "gateWrite"} => at[p] > 2
               /\ w # "need" => With(p) = Changed(req[p])
           /\ req[p].method \in {"write", "append"} =>
               /\ w = "owner" => at[p] = 3
               /\ w = "misplaced" => at[p] = 4
               /\ w = "save" => at[p] = 5
               /\ w # "rename"
           /\ w = "save" => req[p].method \in {"write", "append", "patch"}
           /\ w = "rename" => req[p].method = "move"
<1> DEFINE r == req[p]
           k == at[p]
<1>1. CASE r.method \in {"write", "append"}
  <2>1. /\ k \in 1 .. 5 /\ w = <<"need", "gateWrite", "owner", "misplaced", "save">>[k]
        /\ k > 1 => With(p) = r.path
    BY <1>1, WhatIsDone
  <2>2. k \in {1, 2, 3, 4, 5}
    BY <2>1
  <2> HIDE DEF r, k
  <2>3. Changed(r) = r.path
    BY <1>1 DEF Changed
  <2> QED
    BY <1>1, <2>1, <2>2, <2>3 DEF r, k
<1>2. CASE r.method = "patch"
  <2>1. /\ k \in 1 .. 3 /\ w = <<"need", "gateWrite", "save">>[k]
        /\ k > 1 => With(p) = r.path
    BY <1>2, WhatIsDone
  <2>2. k \in {1, 2, 3}
    BY <2>1
  <2> HIDE DEF r, k
  <2>3. Changed(r) = r.path
    BY <1>2 DEF Changed
  <2> QED
    BY <1>2, <2>1, <2>2, <2>3 DEF r, k
<1>3. CASE r.method = "move"
  <2>1. /\ k \in 1 .. 3 /\ w = <<"need", "gateWrite", "rename">>[k]
        /\ k > 1 => With(p) = r.to
    BY <1>3, WhatIsDone
  <2>2. k \in {1, 2, 3}
    BY <2>1
  <2> HIDE DEF r, k
  <2>3. Changed(r) = r.to
    BY <1>3 DEF Changed
  <2> QED
    BY <1>3, <2>1, <2>2, <2>3 DEF r, k
<1>4. CASE r.method \notin Changers
  BY <1>4, WhatIsDone DEF Changers
<1> QED
  BY <1>1, <1>2, <1>3, <1>4 DEF Changers

\* A request begins ahead of its gate.
LEMMA StartKeeps ==
    ASSUME NEW p \in Proc, IInv, Start(p)
    PROVE  IInv'
<1> USE DEF IInv, Types
<1>1. Head(queue[p]) \in DOMAIN Handler /\ Tail(queue[p]) \in Seq(Request)
  <2>1. Head(queue[p]) \in Request /\ Tail(queue[p]) \in Seq(Request)
    BY DEF Start
  <2> QED
    BY <2>1 DEF Handler
<1>2. Types'
  BY <1>1 DEF Start, files
<1>3. GatedAt(p)' /\ VettedAt(p)'
  BY DEF Start, GatedAt, VettedAt, VettedBy
<1>4. ASSUME NEW o \in Proc, o # p
      PROVE  GatedAt(o)' /\ VettedAt(o)'
  BY <1>4, OthersKeep DEF Start, Gated, Vetted
<1> QED
  BY <1>2, <1>3, <1>4 DEF Gated, Vetted

\* An answer leaves no request.
LEMMA ReplyKeeps ==
    ASSUME NEW p \in Proc, IInv, Reply(p)
    PROVE  IInv'
<1> USE DEF IInv, Types
<1>1. Types'
  <2>1. NoRequest \in DOMAIN Handler
    BY DEF Handler
  <2> QED
    BY <2>1 DEF Reply, files
<1>2. GatedAt(p)' /\ VettedAt(p)'
  BY DEF Reply, GatedAt, VettedAt, VettedBy
<1>3. ASSUME NEW o \in Proc, o # p
      PROVE  GatedAt(o)' /\ VettedAt(o)'
  BY <1>3, OthersKeep DEF Reply, Gated, Vetted
<1> QED
  BY <1>1, <1>2, <1>3 DEF Gated, Vetted

\* The check of the parameters comes first.
LEMMA CheckParamsKeeps ==
    ASSUME NEW p \in Proc, IInv, CheckParams(p)
    PROVE  IInv' /\ UNCHANGED tree
<1>1. UNCHANGED clients /\ UNCHANGED tree /\ Doing(p, "need")
  BY DEF CheckParams, Local, files
<1>2. Fail(p, "invalid") \/ Jump(p, 1, loc[p])
  BY Zenon DEF CheckParams, GoOn
<1>3. Moves(p) /\ at'[p] \in {at[p], at[p] + 1}
  <2>1. Moves(p)
    BY <1>1, <1>2, FailMoves, JumpMoves DEF IInv
  <2> QED
    BY <1>2, <2>1 DEF IInv, Types, Fail, Jump
<1>4. req[p].method \in Changers => at[p] = 1
  BY <1>1, Places DEF IInv, Types
<1>5. GatedAt(p)' /\ VettedAt(p)'
  BY <1>1, <1>3, <1>4 DEF GatedAt, VettedAt, VettedBy, clients, Changers
<1> QED
  BY <1>1, <1>3, <1>5, MovesKeeps DEF IInv, Types

\* Who passes the gate of a write may write.
LEMMA PassGateKeeps ==
    ASSUME NEW p \in Proc, IInv, PassGate(p)
    PROVE  IInv' /\ UNCHANGED tree
<1>1. CASE Elsewhere(p)
  BY <1>1, ElsewhereKeeps DEF Elsewhere
<1>2. CASE ~Elsewhere(p)
  <2>1. /\ Doing(p, "gateWrite") /\ Moves(p) /\ UNCHANGED tree
        /\ at'[p] # at[p] => at'[p] = at[p] + 1 /\ Check(req[p].role, With(p), "write")
    BY <1>2, PassGateMoves DEF IInv
  <2>2. req[p].method \in Changers => at[p] = 2 /\ With(p) = Changed(req[p])
    BY <2>1, Places DEF IInv, Types
  <2>3. req'[p] = req[p]
    BY <2>1 DEF Moves, clients
  <2>4. GatedAt(p)'
    BY <2>1, <2>2, <2>3 DEF GatedAt
  <2>5. VettedAt(p)'
    BY <2>1, <2>2, <2>3 DEF VettedAt, VettedBy, Changers
  <2> QED
    BY <2>1, <2>4, <2>5, MovesKeeps DEF IInv, Types
<1> QED
  BY <1>1, <1>2

\* The first call of ValidateWrite asks a registry of the time.
LEMMA FindOwnerKeeps ==
    ASSUME NEW p \in Proc, IInv, FindOwner(p)
    PROVE  IInv' /\ UNCHANGED tree
<1> DEFINE owner == DomainForPath(reg, With(p))
           l == [loc[p] EXCEPT !.owner = owner]
<1>1. UNCHANGED clients /\ UNCHANGED tree /\ Doing(p, "owner")
  BY DEF FindOwner, Query, files
<1>2. Jump(p, 1, l) /\ reg' = reg
  BY Zenon DEF FindOwner, Query, GoOn
<1> HIDE DEF owner
<1>3. Moves(p) /\ at'[p] = at[p] + 1 /\ loc'[p].owner = owner
  <2>1. DOMAIN l = DOMAIN loc[p]
    OBVIOUS
  <2>2. l.owner = owner
    BY DEF IInv, Types, Locals
  <2> HIDE DEF l
  <2>3. Moves(p)
    BY <1>1, <1>2, <2>1, JumpMoves DEF IInv
  <2> QED
    BY <1>2, <2>2, <2>3 DEF IInv, Types, Jump
<1>4. /\ req[p].method \in Changers => at[p] > 2 /\ With(p) = Changed(req[p])
      /\ req[p].method \in {"write", "append"} => at[p] = 3
  BY <1>1, Places DEF IInv, Types
<1>5. req'[p] = req[p]
  BY <1>1 DEF clients
<1>6. GatedAt(p)'
  BY <1>3, <1>4, <1>5 DEF GatedAt, IInv, Gated
<1>7. VettedAt(p)'
  <2>1. SUFFICES ASSUME req[p].method \in {"write", "append"}
                 PROVE  VettedBy(req[p], 4, owner, during'[p].regs)
    BY <1>3, <1>4, <1>5 DEF VettedAt
  <2>2. reg \in during'[p].regs
    BY <1>2, <1>3, <1>4, <2>1, Remembered DEF Moves
  <2>3. With(p) = req[p].path
    BY <1>4, <2>1 DEF Changed, Changers
  <2> QED
    BY <2>2, <2>3 DEF VettedBy, owner
<1> QED
  BY <1>1, <1>3, <1>6, <1>7, MovesKeeps DEF IInv, Types

\* The second call may ask another one.
LEMMA CheckMisplacedKeeps ==
    ASSUME NEW p \in Proc, IInv, CheckMisplaced(p)
    PROVE  IInv' /\ UNCHANGED tree
<1>1. UNCHANGED clients /\ UNCHANGED tree /\ Doing(p, "misplaced")
  BY DEF CheckMisplaced, Query, files
<1>2. reg' = reg
  BY DEF CheckMisplaced, Query
<1>3. \/ Fail(p, "invalid")
      \/ Jump(p, 1, loc[p]) /\ ~(loc[p].owner = {} /\ IDAsPath(reg, With(p)))
  BY Zenon DEF CheckMisplaced, GoOn
<1>4. Moves(p) /\ at'[p] \in {at[p], at[p] + 1} /\ loc'[p] = loc[p]
  <2>1. Moves(p)
    BY <1>1, <1>3, FailMoves, JumpMoves DEF IInv
  <2> QED
    BY <1>3, <2>1 DEF IInv, Types, Fail, Jump
<1>5. /\ req[p].method \in Changers => at[p] > 2 /\ With(p) = Changed(req[p])
      /\ req[p].method \in {"write", "append"} => at[p] = 4
  BY <1>1, Places DEF IInv, Types
<1>6. req'[p] = req[p]
  BY <1>1 DEF clients
<1>7. GatedAt(p)'
  BY <1>4, <1>5, <1>6 DEF GatedAt, IInv, Gated
<1>8. VettedAt(p)'
  <2>1. SUFFICES ASSUME req[p].method \in {"write", "append"}, code'[p] = "none"
                 PROVE  VettedBy(req[p], at'[p], loc'[p].owner, during'[p].regs)
    BY <1>6 DEF VettedAt
  <2>2. CASE Fail(p, "invalid")
    <3>1. code'[p] = "invalid"
      BY <2>2 DEF Fail, IInv, Types
    <3> QED
      BY <2>1, <3>1
  <2>3. CASE Jump(p, 1, loc[p]) /\ ~(loc[p].owner = {} /\ IDAsPath(reg, With(p)))
    <3>1. at[p] = 4 /\ at'[p] = 5 /\ code[p] = "none" /\ Observe
      BY <1>5, <2>1, <2>3 DEF Jump, IInv, Types
    <3>2. reg \in during'[p].regs /\ during[p].regs \subseteq during'[p].regs
      BY <1>2, <3>1, Remembered
    <3>3. loc[p].owner # {} => \E m \in during[p].regs : DomainForPath(m, req[p].path) # {}
      BY <2>1, <3>1 DEF IInv, Vetted, VettedAt, VettedBy
    <3>4. With(p) = req[p].path
      BY <1>5, <2>1 DEF Changed, Changers
    <3> QED
      BY <2>3, <3>1, <3>2, <3>3, <3>4 DEF VettedBy, Misplaced
  <2> QED
    BY <1>3, <2>2, <2>3
<1> QED
  BY <1>1, <1>4, <1>7, <1>8, MovesKeeps DEF IInv, Types

\* A change, made or refused, is the last step.
LEMMA ChangeKeeps ==
    ASSUME NEW p \in Proc, IInv, SaveFile(p) \/ MoveFile(p) \/ RefuseChange(p)
    PROVE  IInv'
<1>1. PICK w \in {"save", "rename"} : Doing(p, w)
  BY DEF SaveFile, MoveFile, RefuseChange
<1>2. UNCHANGED clients /\ DOMAIN tree' = Path
  BY DEF SaveFile, MoveFile, RefuseChange, IInv, Types
<1>3. Fail(p, "store") \/ Jump(p, 1, loc[p])
  BY Zenon DEF SaveFile, MoveFile, RefuseChange, GoOn
<1>4. Moves(p) /\ (at'[p] = at[p] + 1 \/ code'[p] = "store")
  <2>1. Moves(p)
    BY <1>2, <1>3, FailMoves, JumpMoves DEF IInv
  <2> QED
    BY <1>3, <2>1 DEF IInv, Types, Fail, Jump
<1>5. /\ req[p].method \in Changers => at[p] > 2
      /\ req[p].method \in {"write", "append"} => at[p] = 5
  BY <1>1, Places DEF IInv, Types
<1>6. req'[p] = req[p]
  BY <1>2 DEF clients
<1>7. GatedAt(p)'
  BY <1>5, <1>6 DEF GatedAt, IInv, Gated
<1>8. VettedAt(p)'
  BY <1>4, <1>5, <1>6 DEF VettedAt, VettedBy
<1> QED
  BY <1>2, <1>4, <1>7, <1>8, MovesKeeps

\* At the start no handler serves a request.
LEMMA InitHolds == Init => IInv
<1> SUFFICES ASSUME Init
             PROVE  IInv
  OBVIOUS
<1>1. Types
  <2>1. NoRequest \in DOMAIN Handler
    BY DEF Handler
  <2>2. queue \in [Proc -> Seq(Request)] /\ DOMAIN tree = Path
    BY HandlersAssumption DEF Init
  <2> QED
    BY <2>1, <2>2 DEF Init, Types
<1>2. \A p \in Proc : GatedAt(p) /\ VettedAt(p)
  BY DEF Init, GatedAt, VettedAt, VettedBy
<1> QED
  BY <1>1, <1>2 DEF IInv, Gated, Vetted

\* The manifest or the registry changes, but no handler gets on.
Turns == Edit \/ \E p \in Proc : Reload(p)

LEMMA TurnsAside == Turns => Aside
  BY Zenon DEF Turns, Edit, Reload, ReadManifest, InstallManifest

\* Edits of the manifest and reloads disturb no handler.
LEMMA IdleKeeps ==
    ASSUME IInv, Turns \/ UNCHANGED vars
    PROVE  IInv'
<1>1. CASE Aside
  <2>1. Types'
    BY <1>1 DEF IInv, Types, Aside, files, clients
  <2>2. ASSUME NEW p \in Proc
        PROVE  GatedAt(p)' /\ VettedAt(p)'
    BY <1>1, <2>2, OthersKeep DEF IInv, Gated, Vetted, Aside, clients
  <2> QED
    BY <2>1, <2>2 DEF IInv, Gated, Vetted
<1>2. CASE UNCHANGED vars
  <2>1. Types'
    BY <1>2 DEF IInv, Types, vars, files, clients
  <2>2. ASSUME NEW p \in Proc
        PROVE  GatedAt(p)' /\ VettedAt(p)'
    BY <1>2, <2>2 DEF IInv, Gated, Vetted, GatedAt, VettedAt, vars, clients
  <2> QED
    BY <2>1, <2>2 DEF IInv, Gated, Vetted
<1> QED
  BY <1>1, <1>2, TurnsAside

\* No step of a handler breaks the invariant, and only two change a file.
LEMMA RunKeeps ==
    ASSUME NEW p \in Proc, IInv, Run(p)
    PROVE  IInv' /\ (UNCHANGED tree \/ SaveFile(p) \/ MoveFile(p))
<1>1. Types
  BY DEF IInv
<1>2. CASE CheckParams(p) \/ PassGate(p) \/ FindOwner(p) \/ CheckMisplaced(p)
  BY <1>2, CheckParamsKeeps, PassGateKeeps, FindOwnerKeeps, CheckMisplacedKeeps
<1>3. CASE \/ CheckMessage(p) \/ GetDomain(p) \/ ResolveFile(p) \/ ListTargets(p)
           \/ ListDomains(p) \/ ResolveEach(p) \/ NextFile(p)
  BY <1>1, <1>3, ControllerElsewhere, ElsewhereKeeps DEF Elsewhere
<1>4. CASE \/ OpenFile(p) \/ CheckExists(p) \/ ReadContent(p) \/ EnterDir(p)
           \/ VisitNext(p) \/ ScanNext(p) \/ StoreFails(p) \/ FindEntities(p)
  BY <1>1, <1>4, FilesElsewhere, ElsewhereKeeps DEF Elsewhere
<1>5. CASE \/ Permit(p) \/ Hide(p) \/ SelectBelow(p) \/ Report(p) \/ AddRoots(p)
           \/ StatMarker(p) \/ ReportChanged(p)
           \/ StageFiles(p) \/ AddFile(p) \/ Commit(p)
  BY <1>1, <1>5, AnswersElsewhere, ElsewhereKeeps DEF Elsewhere
<1>6. CASE SaveFile(p) \/ MoveFile(p) \/ RefuseChange(p)
  <2>1. RefuseChange(p) => UNCHANGED tree
    BY DEF RefuseChange
  <2> QED
    BY <1>6, <2>1, ChangeKeeps
<1>7. CASE Reply(p)
  BY <1>7, ReplyKeeps DEF Reply, files
<1> QED
  BY <1>2, <1>3, <1>4, <1>5, <1>6, <1>7 DEF Run

\* Behind each check a handler knows what the check established, for any number of
\* handlers and requests: the gate for the rest of the request, ValidateWrite for
\* one of the registries of the time.
THEOREM ChecksHold == Spec => []IInv
<1>1. IInv /\ [Next]_vars => IInv'
  BY IdleKeeps, StartKeeps, RunKeeps DEF Next, Turns
<1> QED
  BY <1>1, InitHolds, PTL DEF Spec

\* A write or an append that every registry which the controller held while the request
\* ran rejects never reaches the store, whatever is edited, read and installed between the
\* two calls of ValidateWrite and the write.
THEOREM StraysRejected == Spec => []StrayNeverWritten
<1>1. IInv => StrayNeverWritten
  <2> SUFFICES ASSUME IInv, NEW p \in Proc, Doing(p, "save"),
                      req[p].method \in {"write", "append"}
               PROVE  \E m \in during[p].regs : ~Misplaced(m, req[p].path)
    BY DEF StrayNeverWritten
  <2>1. at[p] = 5
    BY Places DEF IInv, Types
  <2> QED
    BY <2>1 DEF IInv, Vetted, VettedAt, VettedBy, Doing, Running
<1> QED
  BY <1>1, ChecksHold, PTL

\* Whatever handlers do in between, a file is changed by those that may write it, or
\* moved away by those that may write where it goes.
THEOREM OnlyPermittedChanges == Spec => ChangesPermitted
<1> DEFINE A == \A q \in Path : tree'[q] # tree[q] =>
               \E p \in Proc :
                   \/ /\ req[p].method \in {"write", "append", "patch"}
                      /\ q = req[p].path /\ Check(req[p].role, q, "write")
                   \/ /\ req[p].method = "move"
                      /\ q \in {req[p].path, req[p].to}
                      /\ Check(req[p].role, req[p].to, "write")
<1>1. ASSUME IInv, [Next]_vars
      PROVE  A
  <2>1. CASE Turns \/ UNCHANGED vars \/ \E p \in Proc : Start(p)
    BY <2>1, TurnsAside DEF Aside, Start, vars, files
  <2>2. ASSUME NEW p \in Proc, Run(p)
        PROVE  A
    <3>1. CASE UNCHANGED tree
      BY <3>1
    <3>2. CASE SaveFile(p)
      <4>1. /\ Doing(p, "save")
            /\ \A q \in Path : tree'[q] # tree[q] => q = With(p)
        BY <1>1, <3>2 DEF SaveFile, IInv, Types
      <4>2. req[p].method \in {"write", "append", "patch"} /\ at[p] > 2 /\ With(p) = Changed(req[p])
        BY <1>1, <4>1, Places DEF IInv, Types, Changers
      <4>3. Check(req[p].role, req[p].path, "write") /\ With(p) = req[p].path
        BY <1>1, <4>2 DEF IInv, Gated, GatedAt, Changers, Changed
      <4> QED
        BY <4>1, <4>2, <4>3
    <3>3. CASE MoveFile(p)
      <4>1. /\ Doing(p, "rename")
            /\ \A q \in Path : tree'[q] # tree[q] => q \in {req[p].path, With(p)}
        BY <1>1, <3>3 DEF MoveFile, IInv, Types
      <4>2. req[p].method = "move" /\ at[p] > 2 /\ With(p) = Changed(req[p])
        BY <1>1, <4>1, Places DEF IInv, Types, Changers
      <4>3. Check(req[p].role, req[p].to, "write") /\ With(p) = req[p].to
        BY <1>1, <4>2 DEF IInv, Gated, GatedAt, Changers, Changed
      <4> QED
        BY <4>1, <4>2, <4>3
    <3> QED
      BY <1>1, <2>2, <3>1, <3>2, <3>3, RunKeeps
  <2> QED
    BY <1>1, <2>1, <2>2 DEF Next, Turns
<1>2. IInv /\ [Next]_vars => A
  BY <1>1
<1>3. []IInv /\ [][Next]_vars => [][A]_vars
  BY <1>2, PTL
<1>4. Spec => [][Next]_vars
  BY PTL DEF Spec
<1> QED
  BY <1>3, <1>4, ChecksHold DEF ChangesPermitted
--------------------------------------------------------------------------------
\* What the order of the steps of a program must be for their jumps to stay in it,
\* and to arrive where the data is ready: a walk follows the entry of its directory,
\* the rounds of domain_summary are three steps, and git fills the index right after
\* it has listed the files.  A scan, and a filter of what it scans, is of a list,
\* and the marker that is looked at is the one of housekeeping_scan.
StepFits(s, k) ==
    /\ s[k].do = "enter" => k + 1 \in DOMAIN s /\ s[k + 1].do = "walk"
    /\ s[k].do = "entities" => k + 1 \in DOMAIN s /\ s[k + 1].do = "scanNotes"
    /\ s[k].do = "nextFile" => /\ {k + 1, k + 2} \subseteq DOMAIN s
                               /\ s[k + 1].do = "exists" /\ s[k + 2].do = "content"
    /\ s[k].do = "exists" => k - 1 \in DOMAIN s /\ s[k - 1].do = "nextFile"
    /\ s[k].do = "content" => /\ {k - 1, k - 2} \subseteq DOMAIN s
                              /\ s[k - 1].do = "exists" /\ s[k - 2].do = "nextFile"
    /\ s[k].do = "get" => s[k].with \in {"invalid", "store"}
    /\ s[k].do = "stage" => k + 1 \in DOMAIN s /\ s[k + 1].do = "add"
    /\ s[k].do \in Scans \cup {"permit"} => s[k].with \in {"targets", "found"}
    /\ s[k].do = "marker" => s[k].with = Marker

Fits(s) == (\E S : s \in Seq(S)) /\ \A k \in DOMAIN s : StepFits(s, k)

\* Programs that fit still do one after the other.
LEMMA FitsJoin ==
    ASSUME NEW s, NEW t, Fits(s), Fits(t)
    PROVE  Fits(s \o t)
<1>1. PICK S : s \in Seq(S)
  BY DEF Fits
<1>2. PICK T : t \in Seq(T)
  BY DEF Fits
<1> DEFINE u == s \o t
<1>3. s \in Seq(S \cup T) /\ t \in Seq(S \cup T) /\ u \in Seq(S \cup T)
  <2>1. s \in Seq(S \cup T) /\ t \in Seq(S \cup T)
    BY <1>1, <1>2
  <2> QED
    BY <2>1
<1>4. /\ Len(s) \in Nat /\ Len(t) \in Nat
      /\ DOMAIN s = 1 .. Len(s) /\ DOMAIN t = 1 .. Len(t) /\ DOMAIN u = 1 .. (Len(s) + Len(t))
      /\ \A k \in 1 .. Len(s) : u[k] = s[k]
      /\ \A k \in 1 .. Len(t) : u[Len(s) + k] = t[k]
  BY <1>3
<1> HIDE DEF u
<1>5. ASSUME NEW k \in DOMAIN u
      PROVE  StepFits(u, k)
  <2>1. CASE k <= Len(s)
    <3>1. StepFits(s, k) /\ k \in DOMAIN s
      BY <1>4, <2>1 DEF Fits
    <3> QED
      BY <1>4, <3>1 DEF StepFits
  <2>2. CASE k > Len(s)
    <3>1. PICK j \in DOMAIN t : k = Len(s) + j
      <4>1. k - Len(s) \in DOMAIN t /\ k = Len(s) + (k - Len(s))
        BY <1>4, <2>2
      <4> QED
        BY <4>1
    <3>2. StepFits(t, j)
      BY DEF Fits
    <3>3. ASSUME NEW i \in {-2, -1, 0, 1, 2}, j + i \in DOMAIN t
          PROVE  k + i \in DOMAIN u /\ u[k + i] = t[j + i]
      <4>1. /\ Len(s) \in Nat /\ Len(t) \in Nat /\ j \in 1 .. Len(t) /\ i \in Int
            /\ DOMAIN t = 1 .. Len(t) /\ DOMAIN u = 1 .. (Len(s) + Len(t))
        BY <1>4
      <4>2. k + i = Len(s) + (j + i) /\ k + i \in DOMAIN u
        BY <3>1, <3>3, <4>1
      <4>3. u[Len(s) + (j + i)] = t[j + i]
        BY <1>4, <3>3
      <4> QED
        BY <4>2, <4>3
    <3>4. j \in Int /\ k \in Int
      BY <1>4
    <3>5. u[k] = t[j]
      BY <1>4, <3>1
    <3>6. /\ j + 1 \in DOMAIN t => k + 1 \in DOMAIN u /\ u[k + 1] = t[j + 1]
          /\ j + 2 \in DOMAIN t => k + 2 \in DOMAIN u /\ u[k + 2] = t[j + 2]
      BY <3>3
    <3>7. /\ j - 1 \in DOMAIN t => k - 1 \in DOMAIN u /\ u[k - 1] = t[j - 1]
          /\ j - 2 \in DOMAIN t => k - 2 \in DOMAIN u /\ u[k - 2] = t[j - 2]
      <4>1. j + (-1) = j - 1 /\ j + (-2) = j - 2 /\ k + (-1) = k - 1 /\ k + (-2) = k - 2
        BY <3>4
      <4> QED
        BY <3>3, <4>1
    <3> QED
      BY <3>2, <3>5, <3>6, <3>7 DEF StepFits
  <2> QED
    BY <1>4, <2>1, <2>2
<1> QED
  BY <1>3, <1>5 DEF Fits, u

\* Programs of steps that jump nowhere fit.
Plain == {"need", "message", "gateRead", "gateWrite", "gateSearch", "gateDomain", "resolve",
          "targets", "domains", "resolveEach", "owner", "misplaced", "open", "walk", "scan",
          "scanNotes", "count", "countEach", "permit", "hide", "below", "report", "roots",
          "marker", "changed", "save", "rename", "add", "commit"}
PlainStep(x) ==
    /\ x.do \in Plain
    /\ x.do \in Scans \cup {"permit"} => x.with \in {"targets", "found"}
    /\ x.do = "marker" => x.with = Marker

LEMMA FitsPlain ==
    ASSUME NEW S, NEW s \in Seq(S), \A x \in S : PlainStep(x)
    PROVE  Fits(s)
<1>1. ASSUME NEW k \in DOMAIN s
      PROVE  StepFits(s, k)
  <2>1. s[k] \in S
    OBVIOUS
  <2>2. PlainStep(s[k])
    BY <2>1
  <2> QED
    BY <2>2 DEF StepFits, PlainStep, Plain
<1> QED
  BY <1>1 DEF Fits

\* One to four plain steps.
LEMMA FitsFew ==
    /\ \A a : PlainStep(a) => Fits(<<a>>)
    /\ \A a, b : PlainStep(a) /\ PlainStep(b) => Fits(<<a, b>>)
    /\ \A a, b, c : PlainStep(a) /\ PlainStep(b) /\ PlainStep(c) => Fits(<<a, b, c>>)
    /\ \A a, b, c, d :
           PlainStep(a) /\ PlainStep(b) /\ PlainStep(c) /\ PlainStep(d) => Fits(<<a, b, c, d>>)
<1>1. ASSUME NEW a, PlainStep(a)
      PROVE  Fits(<<a>>)
  <2> DEFINE S == {a}
  <2>1. <<a>> \in Seq(S) /\ \A x \in S : PlainStep(x)
    BY <1>1
  <2> HIDE DEF S
  <2> QED
    BY <2>1, FitsPlain
<1>2. ASSUME NEW a, NEW b, PlainStep(a) /\ PlainStep(b)
      PROVE  Fits(<<a, b>>)
  <2> DEFINE S == {a, b}
  <2>1. <<a, b>> \in Seq(S) /\ \A x \in S : PlainStep(x)
    BY <1>2
  <2> HIDE DEF S
  <2> QED
    BY <2>1, FitsPlain
<1>3. ASSUME NEW a, NEW b, NEW c, PlainStep(a) /\ PlainStep(b) /\ PlainStep(c)
      PROVE  Fits(<<a, b, c>>)
  <2> DEFINE S == {a, b, c}
  <2>1. <<a, b, c>> \in Seq(S) /\ \A x \in S : PlainStep(x)
    BY <1>3
  <2> HIDE DEF S
  <2> QED
    BY <2>1, FitsPlain
<1>4. ASSUME NEW a, NEW b, NEW c, NEW d,
             PlainStep(a) /\ PlainStep(b) /\ PlainStep(c) /\ PlainStep(d)
      PROVE  Fits(<<a, b, c, d>>)
  <2> DEFINE S == {a, b, c, d}
  <2>1. <<a, b, c, d>> \in Seq(S) /\ \A x \in S : PlainStep(x)
    BY <1>4
  <2> HIDE DEF S
  <2> QED
    BY <2>1, FitsPlain
<1> QED
  BY <1>1, <1>2, <1>3, <1>4

\* Walks, and the targets of a file, fit.
LEMMA PiecesFit ==
    /\ \A dir, visit : Fits(Walk(dir, visit))
    /\ Fits(ScanFiles) /\ Fits(ReadAll)
    /\ \A r, file : Fits(TargetsOf(r, file))
<1>1. ASSUME NEW dir, NEW visit
      PROVE  Fits(Walk(dir, visit))
  <2> DEFINE a == Do("enter", dir)
             b == Do("walk", visit)
             s == <<a, b>>
  <2>1. a.do = "enter" /\ b.do = "walk"
    BY DoWhat
  <2> HIDE DEF a, b
  <2>2. s \in Seq({a, b}) /\ DOMAIN s = {1, 2} /\ s[1] = a /\ s[2] = b
    OBVIOUS
  <2> HIDE DEF s
  <2>3. StepFits(s, 1) /\ StepFits(s, 2)
    BY <2>1, <2>2 DEF StepFits, Scans
  <2>4. Fits(s)
    BY <2>2, <2>3 DEF Fits
  <2> QED
    BY <2>4 DEF Walk, s, a, b
<1>2. Fits(ScanFiles)
  BY <1>1 DEF ScanFiles
<1>3. Fits(ReadAll)
  <2>1. Fits(<<Do("scan", "found")>>)
    BY FitsFew, DoWhat DEF PlainStep, Plain, Scans
  <2> QED
    BY <1>2, <2>1, FitsJoin DEF ReadAll
<1>4. ASSUME NEW r, NEW file
      PROVE  Fits(TargetsOf(r, file))
  <2>1. Fits(<<Do("targets", file)>>)
    BY FitsFew, DoWhat DEF PlainStep, Plain, Scans
  <2> DEFINE a == Do("get", "invalid")
             b == Do("resolve", file)
             s == <<a, b>>
  <2>2. a.do = "get" /\ a.with = "invalid" /\ b.do = "resolve"
    BY DoWhat
  <2> HIDE DEF a, b
  <2>3. s \in Seq({a, b}) /\ DOMAIN s = {1, 2} /\ s[1] = a /\ s[2] = b
    OBVIOUS
  <2> HIDE DEF s
  <2>4. StepFits(s, 1) /\ StepFits(s, 2)
    BY <2>2, <2>3 DEF StepFits, Scans
  <2>5. Fits(s)
    BY <2>3, <2>4 DEF Fits
  <2> QED
    BY <2>1, <2>5 DEF TargetsOf, s, a, b
<1> QED
  BY <1>1, <1>2, <1>3, <1>4

\* Every program fits.
LEMMA ProgramFits == \A r : Fits(Program(r))
<1> TAKE r
<1>1. Fits(HandleRead(r))
  <2>1. Fits(<<Do("report", "found")>>)
    BY FitsFew, DoWhat DEF PlainStep, Plain, Scans
  <2>2. Fits(<<GateRead(r.path), Do("open", r.path)>>)
    BY FitsFew, DoWhat DEF PlainStep, Plain, Scans, GateRead
  <2>3. Fits(<<Need({"params", "path"})>>)
    BY FitsFew, DoWhat DEF PlainStep, Plain, Scans, Need
  <2> QED
    BY <2>1, <2>2, <2>3, PiecesFit, FitsJoin DEF HandleRead
<1>2. Fits(HandleWrite(r))
  <2>1. Fits(<<Need({"params", "path"}), GateWrite(r.path), Do("owner", r.path), Do("misplaced", r.path), Do("save", r.path)>>)
    <3> DEFINE S == {Need({"params", "path"}), GateWrite(r.path), Do("owner", r.path), Do("misplaced", r.path), Do("save", r.path)}
    <3>1. <<Need({"params", "path"}), GateWrite(r.path), Do("owner", r.path), Do("misplaced", r.path), Do("save", r.path)>> \in Seq(S)
      OBVIOUS
    <3>2. \A x \in S : PlainStep(x)
      BY DoWhat DEF PlainStep, Plain, Scans, GateWrite, Need
    <3> HIDE DEF S
    <3> QED
      BY <3>1, <3>2, FitsPlain
  <2> QED
    BY <2>1 DEF HandleWrite
<1>3. Fits(HandlePatch(r))
  <2>1. Fits(<<Need({"params", "path"}), GateWrite(r.path), Do("save", r.path)>>)
    BY FitsFew, DoWhat DEF PlainStep, Plain, Scans, GateWrite, Need
  <2> QED
    BY <2>1 DEF HandlePatch
<1>4. Fits(HandleMove(r))
  <2>1. Fits(<<Need({"params", "path", "to"}), GateWrite(r.to), Do("rename", r.to)>>)
    BY FitsFew, DoWhat DEF PlainStep, Plain, Scans, GateWrite, Need
  <2> QED
    BY <2>1 DEF HandleMove
<1>5. Fits(HandleOutline(r))
  <2>1. Fits(<<Need({"params", "path"}), GateRead(r.path), Do("open", r.path)>>)
    BY FitsFew, DoWhat DEF PlainStep, Plain, Scans, GateRead, Need
  <2> QED
    BY <2>1 DEF HandleOutline
<1>6. Fits(HandleSearch(r))
  <2>1. Fits(<<Need({"params", "query"}), Do("gateSearch", Everything)>>)
    BY FitsFew, DoWhat DEF PlainStep, Plain, Scans, Need
  <2> QED
    BY <2>1, PiecesFit, FitsJoin DEF HandleSearch
<1>7. Fits(HandleStats(r))
  <2>1. Fits(<<Need({"params"})>>)
    BY FitsFew, DoWhat DEF PlainStep, Plain, Scans, Need
  <2>2. Fits(<<Do("below", "found"), Do("scan", "found")>>)
    BY FitsFew, DoWhat DEF PlainStep, Plain, Scans
  <2> QED
    BY <2>1, <2>2, PiecesFit, FitsJoin DEF HandleStats
<1>8. Fits(HandleL0Index(r))
  <2>1. Fits(<<Need({"params"})>>)
    BY FitsFew, DoWhat DEF PlainStep, Plain, Scans, Need
  <2>2. Fits(<<Do("below", "items")>>)
    BY FitsFew, DoWhat DEF PlainStep, Plain, Scans
  <2> QED
    BY <2>1, <2>2, PiecesFit, FitsJoin DEF HandleL0Index
<1>9. Fits(HandleList(r))
  <2>1. Fits(<<Need({"params"})>>)
    BY FitsFew, DoWhat DEF PlainStep, Plain, Scans, Need
  <2>2. Fits(<<Do("report", "found")>>)
    BY FitsFew, DoWhat DEF PlainStep, Plain, Scans
  <2> QED
    BY <2>1, <2>2, PiecesFit, FitsJoin DEF HandleList
<1>10. Fits(HandleOpenActions(r))
  <2>1. Fits(<<Need({"params", "role"})>>)
    BY FitsFew, DoWhat DEF PlainStep, Plain, Scans, Need
  <2>2. Fits(<<Do("count", "targets"), Do("hide", "items")>>)
    BY FitsFew, DoWhat DEF PlainStep, Plain, Scans
  <2> QED
    BY <2>1, <2>2, PiecesFit, FitsJoin DEF HandleOpenActions
<1>11. Fits(HandleRecentObservations(r))
  <2>1. Fits(<<Need({"params", "role", "alias", "since"})>>)
    BY FitsFew, DoWhat DEF PlainStep, Plain, Scans, Need
  <2>2. Fits(<<Do("permit", "targets"), Do("count", "targets")>>)
    BY FitsFew, DoWhat DEF PlainStep, Plain, Scans
  <2> QED
    BY <2>1, <2>2, PiecesFit, FitsJoin DEF HandleRecentObservations
<1>12. Fits(HandleClusterCheck(r))
  <2>1. Fits(<<Need({"params", "role"})>>)
    BY FitsFew, DoWhat DEF PlainStep, Plain, Scans, Need
  <2>2. Fits(<<Do("permit", "targets"), Need({"since"}), Do("count", "targets")>>)
    BY FitsFew, DoWhat DEF PlainStep, Plain, Scans, Need
  <2> QED
    BY <2>1, <2>2, PiecesFit, FitsJoin DEF HandleClusterCheck
<1>13. Fits(HandleEntityAudit(r))
  <2>1. Fits(<<Need({"params", "role"})>>)
    BY FitsFew, DoWhat DEF PlainStep, Plain, Scans, Need
  <2>2. Fits(<<Do("permit", "targets"), Do("count", "targets")>>)
    BY FitsFew, DoWhat DEF PlainStep, Plain, Scans
  <2> QED
    BY <2>1, <2>2, PiecesFit, FitsJoin DEF HandleEntityAudit
<1>14. Fits(HandleScenarioCheck(r))
  <2>1. Fits(<<Need({"params", "role"})>>)
    BY FitsFew, DoWhat DEF PlainStep, Plain, Scans, Need
  <2>2. Fits(<<Do("hide", "items")>>)
    BY FitsFew, DoWhat DEF PlainStep, Plain, Scans
  <2> QED
    BY <2>1, <2>2, PiecesFit, FitsJoin DEF HandleScenarioCheck
<1>15. Fits(HandleGlacierIndex(r))
  <2>1. Fits(<<Need({"params", "role"})>>)
    BY FitsFew, DoWhat DEF PlainStep, Plain, Scans, Need
  <2>2. Fits(<<Do("hide", "items")>>)
    BY FitsFew, DoWhat DEF PlainStep, Plain, Scans
  <2> QED
    BY <2>1, <2>2, PiecesFit, FitsJoin DEF HandleGlacierIndex
<1>16. Fits(HandleWikiIndex(r))
  <2>1. Fits(<<Need({"params", "role"})>>)
    BY FitsFew, DoWhat DEF PlainStep, Plain, Scans, Need
  <2>2. Fits(<<Do("hide", "items")>>)
    BY FitsFew, DoWhat DEF PlainStep, Plain, Scans
  <2> QED
    BY <2>1, <2>2, PiecesFit, FitsJoin DEF HandleWikiIndex
<1>17. Fits(HandleDomainsList(r))
  <2>1. Fits(<<Need({"params"}), Do("domains", "top")>>)
    BY FitsFew, DoWhat DEF PlainStep, Plain, Scans, Need
  <2> QED
    BY <2>1 DEF HandleDomainsList
<1>18. Fits(HandleDomainsGet(r))
  <2> DEFINE a == Need({"params", "domain"})
             b == Do("get", "store")
             c == Do("gateDomain", "read")
             s == <<a, b, c>>
  <2>1. a.do = "need" /\ b.do = "get" /\ b.with = "store" /\ c.do = "gateDomain"
    BY DoWhat DEF Need
  <2> HIDE DEF a, b, c
  <2>2. s \in Seq({a, b, c}) /\ DOMAIN s = {1, 2, 3} /\ s[1] = a /\ s[2] = b /\ s[3] = c
    OBVIOUS
  <2> HIDE DEF s
  <2>3. StepFits(s, 1) /\ StepFits(s, 2) /\ StepFits(s, 3)
    BY <2>1, <2>2 DEF StepFits, Scans
  <2>4. Fits(s)
    BY <2>2, <2>3 DEF Fits
  <2> QED
    BY <2>4 DEF HandleDomainsGet, s, a, b, c
<1>19. Fits(HandleDomainSummary(r))
  <2> DEFINE a == Need({"params", "role", "domain"})
             b == Do("get", "invalid")
             c == Do("gateDomain", "read")
             d == Need({"since"})
             e == Do("nextFile", "read")
             f == Do("exists", "read")
             g == Do("content", "read")
             s == <<a, b, c, d, e, f, g>>
  <2>1. /\ a.do = "need" /\ b.do = "get" /\ b.with = "invalid" /\ c.do = "gateDomain"
        /\ d.do = "need" /\ e.do = "nextFile" /\ f.do = "exists" /\ g.do = "content"
    BY DoWhat DEF Need
  <2> HIDE DEF a, b, c, d, e, f, g
  <2>2. /\ s \in Seq({a, b, c, d, e, f, g}) /\ DOMAIN s = {1, 2, 3, 4, 5, 6, 7}
        /\ s[1] = a /\ s[2] = b /\ s[3] = c /\ s[4] = d /\ s[5] = e /\ s[6] = f /\ s[7] = g
    OBVIOUS
  <2> HIDE DEF s
  <2>3. /\ StepFits(s, 1) /\ StepFits(s, 2) /\ StepFits(s, 3) /\ StepFits(s, 4)
        /\ StepFits(s, 5) /\ StepFits(s, 6) /\ StepFits(s, 7)
    BY <2>1, <2>2 DEF StepFits, Scans
  <2>4. Fits(s)
    BY <2>2, <2>3 DEF Fits
  <2> QED
    BY <2>4 DEF HandleDomainSummary, s, a, b, c, d, e, f, g
<1>20. Fits(HandleSessionBrief(r))
  <2>1. Fits(<<Need({"params", "role"}), Do("domains", "each"), Do("targets", "action-items"), Do("open", HotMemory), Do("open", Patterns), Do("countEach", "targets"), Do("hide", "counts")>>)
    <3> DEFINE S == {Need({"params", "role"}), Do("domains", "each"), Do("targets", "action-items"), Do("open", HotMemory), Do("open", Patterns), Do("countEach", "targets"), Do("hide", "counts")}
    <3>1. <<Need({"params", "role"}), Do("domains", "each"), Do("targets", "action-items"), Do("open", HotMemory), Do("open", Patterns), Do("countEach", "targets"), Do("hide", "counts")>> \in Seq(S)
      OBVIOUS
    <3>2. \A x \in S : PlainStep(x)
      BY DoWhat DEF PlainStep, Plain, Scans, Need
    <3> HIDE DEF S
    <3> QED
      BY <3>1, <3>2, FitsPlain
  <2> QED
    BY <2>1 DEF HandleSessionBrief
<1>21. Fits(HandleHousekeepingScan(r))
  <2>1. Fits(<<Need({"params", "role"}), Do("domains", "all"), Do("resolveEach", "read"), Do("roots", "read"), Do("permit", "targets"), Do("marker", Marker)>>)
    <3> DEFINE S == {Need({"params", "role"}), Do("domains", "all"), Do("resolveEach", "read"), Do("roots", "read"), Do("permit", "targets"), Do("marker", Marker)}
    <3>1. <<Need({"params", "role"}), Do("domains", "all"), Do("resolveEach", "read"), Do("roots", "read"), Do("permit", "targets"), Do("marker", Marker)>> \in Seq(S)
      OBVIOUS
    <3>2. \A x \in S : PlainStep(x)
      BY DoWhat DEF PlainStep, Plain, Scans, Need
    <3> HIDE DEF S
    <3> QED
      BY <3>1, <3>2, FitsPlain
  <2>2. Fits(<<Do("scan", "targets"), Do("changed", "found")>>)
    BY FitsFew, DoWhat DEF PlainStep, Plain, Scans
  <2> QED
    BY <2>1, <2>2, PiecesFit, FitsJoin DEF HandleHousekeepingScan
<1>22. Fits(HandleLinkIndex(r))
  <2>1. Fits(<<Need({"params", "role"})>>)
    BY FitsFew, DoWhat DEF PlainStep, Plain, Scans, Need
  <2>2. Fits(<<Do("scanNotes", "found"), Do("hide", "items")>>)
    BY FitsFew, DoWhat DEF PlainStep, Plain, Scans
  <2> QED
    BY <2>1, <2>2, PiecesFit, FitsJoin DEF HandleLinkIndex
<1>23. Fits(HandleLinkAudit(r))
  <2>1. Fits(<<Need({"params", "role"})>>)
    BY FitsFew, DoWhat DEF PlainStep, Plain, Scans, Need
  <2> DEFINE a == Do("permit", "found")
             b == Do("entities", "found")
             c == Do("scanNotes", "found")
             s == <<a, b, c>>
  <2>2. /\ a.do = "permit" /\ b.do = "entities" /\ c.do = "scanNotes"
        /\ a.with = "found" /\ c.with = "found"
    BY DoWhat
  <2> HIDE DEF a, b, c
  <2>3. s \in Seq({a, b, c}) /\ DOMAIN s = {1, 2, 3} /\ s[1] = a /\ s[2] = b /\ s[3] = c
    OBVIOUS
  <2> HIDE DEF s
  <2>4. StepFits(s, 1) /\ StepFits(s, 2) /\ StepFits(s, 3)
    BY <2>2, <2>3 DEF StepFits, Scans
  <2>5. Fits(s)
    BY <2>3, <2>4 DEF Fits
  <2> QED
    BY <2>1, <2>5, PiecesFit, FitsJoin DEF HandleLinkAudit, s, a, b, c
<1>24. Fits(HandleGit(r))
  <2>1. Fits(<<Need({"params", "op"})>>)
    BY FitsFew, DoWhat DEF PlainStep, Plain, Scans, Need
  <2> DEFINE a == Need({"params", "op"})
             b == GateWrite(Everything)
             c == Do("message", "commit")
             d == Do("stage", "all")
             e == Do("add", "all")
             f == Do("commit", "index")
             s == <<a, b, c, d, e, f>>
  <2>2. /\ a.do = "need" /\ b.do = "gateWrite" /\ c.do = "message"
        /\ d.do = "stage" /\ e.do = "add" /\ f.do = "commit"
    BY DoWhat DEF Need, GateWrite
  <2> HIDE DEF a, b, c, d, e, f
  <2>3. /\ s \in Seq({a, b, c, d, e, f}) /\ DOMAIN s = {1, 2, 3, 4, 5, 6}
        /\ s[1] = a /\ s[2] = b /\ s[3] = c /\ s[4] = d /\ s[5] = e /\ s[6] = f
    OBVIOUS
  <2> HIDE DEF s
  <2>4. /\ StepFits(s, 1) /\ StepFits(s, 2) /\ StepFits(s, 3) /\ StepFits(s, 4)
        /\ StepFits(s, 5) /\ StepFits(s, 6)
    BY <2>2, <2>3 DEF StepFits, Scans
  <2>5. Fits(s)
    BY <2>3, <2>4 DEF Fits
  <2> QED
    BY <2>1, <2>5 DEF HandleGit, s, a, b, c, d, e, f
<1>25. Fits(<<>>)
  <2>1. <<>> \in Seq({}) /\ DOMAIN <<>> = {}
    OBVIOUS
  <2> QED
    BY <2>1 DEF Fits
<1> QED
  BY <1>1, <1>2, <1>3, <1>4, <1>5, <1>6, <1>7, <1>8, <1>9, <1>10, <1>11, <1>12, <1>13,
     <1>14, <1>15, <1>16, <1>17, <1>18, <1>19, <1>20, <1>21, <1>22, <1>23, <1>24, <1>25
     DEF Program
--------------------------------------------------------------------------------
\* Where a handler that runs is in its program.
LEMMA InProgram ==
    ASSUME NEW p \in Proc, Types, NEW w, Doing(p, w)
    PROVE  /\ at[p] \in 1 .. Len(Handler[req[p]]) /\ Len(Handler[req[p]]) \in Nat
           /\ DOMAIN Handler[req[p]] = 1 .. Len(Handler[req[p]])
           /\ StepFits(Handler[req[p]], at[p])
           /\ Handler[req[p]][at[p]].do = w /\ Handler[req[p]][at[p]].with = With(p)
           /\ code[p] = "none" /\ at[p] # 0
<1> DEFINE s == Handler[req[p]]
<1>1. s = Program(req[p])
  BY DEF Types, Handler
<1>2. Fits(s)
  BY <1>1, ProgramFits
<1> HIDE DEF s
<1>3. at[p] \in DOMAIN s /\ code[p] = "none" /\ s[at[p]].do = w /\ s[at[p]].with = With(p)
  BY DEF Doing, Running, Now, With, s
<1>4. Len(s) \in Nat /\ DOMAIN s = 1 .. Len(s)
  BY <1>2 DEF Fits
<1>5. at[p] \in 1 .. Len(s) /\ at[p] # 0
  BY <1>3, <1>4
<1>6. StepFits(s, at[p])
  BY <1>2, <1>3 DEF Fits
<1> QED
  BY <1>3, <1>4, <1>5, <1>6 DEF s

\* The two halves of the types: what the handlers share, and what each one has.
SharedOK ==
    /\ disk \in Manifests /\ reg \in Manifests /\ Valid(reg) /\ edits \in 0 .. MaxEdits
    /\ stage \in [Proc -> {"ask", "install", "answer"}]
    /\ held \in [Proc -> Manifests \cup {<<>>}]
    /\ \A p \in Proc : stage[p] = "install" => held[p] \in Manifests /\ Valid(held[p])
    /\ tree \in [Path -> 0 .. MaxChange] /\ change \in 0 .. MaxChange
    /\ \A q \in Path, d \in Dir : tree[q] # 0 /\ Within(q, d) => d \in dirs
    /\ index \in [Path -> 0 .. MaxChange] /\ head \in [Path -> 0 .. MaxChange]

HandlerOK(p) ==
    /\ req[p] \in DOMAIN Handler /\ \A k \in DOMAIN queue[p] : queue[p][k] \in Request
    /\ at[p] \in 0 .. Len(Handler[req[p]]) + 1
    /\ code[p] \in {"none", "invalid", "denied", "store"}
    /\ at[p] = 0 => loc[p] = Locals /\ req[p] = NoRequest /\ code[p] = "none"

LEMMA TypesOfParts == TypeOK <=> SharedOK /\ \A p \in Proc : HandlerOK(p)
  BY DEF TypeOK, SharedOK, HandlerOK

\* What a step of p does to the control of the handlers: it goes to a place in the
\* program or right behind it, or fails.
Goes(p) ==
    /\ UNCHANGED clients /\ at[p] # 0 /\ code[p] = "none"
    /\ \/ \E n \in Int : \E l :
              at[p] + n \in 1 .. Len(Handler[req[p]]) + 1 /\ Jump(p, n, l)
       \/ \E c \in {"invalid", "denied", "store"} : Fail(p, c)

LEMMA GoesKeeps ==
    ASSUME NEW p \in Proc, Types, \A o \in Proc : HandlerOK(o), Goes(p)
    PROVE  \A o \in Proc : HandlerOK(o)'
<1> SUFFICES ASSUME NEW o \in Proc
             PROVE  HandlerOK(o)'
  OBVIOUS
<1>1. HandlerOK(o) /\ HandlerOK(p)
  OBVIOUS
<1>2. req' = req /\ queue' = queue
  BY DEF Goes, clients
<1>3. ASSUME o # p
      PROVE  at'[o] = at[o] /\ loc'[o] = loc[o] /\ code'[o] = code[o]
  BY <1>3 DEF Goes, Jump, Fail, Types
<1>4. CASE \E n \in Int : \E l :
             at[p] + n \in 1 .. Len(Handler[req[p]]) + 1 /\ Jump(p, n, l)
  <2>1. at'[p] \in 1 .. Len(Handler[req[p]]) + 1 /\ code' = code
    BY <1>4 DEF Jump, Types
  <2>2. at'[p] \in 0 .. Len(Handler[req[p]]) + 1 /\ at'[p] # 0
    BY <2>1
  <2> QED
    BY <1>1, <1>2, <1>3, <2>1, <2>2 DEF HandlerOK
<1>5. CASE \E c \in {"invalid", "denied", "store"} : Fail(p, c)
  <2>1. at' = at /\ code'[p] \in {"invalid", "denied", "store"}
    BY <1>5 DEF Fail, Types
  <2>2. at[p] # 0
    BY DEF Goes
  <2> QED
    BY <1>1, <1>2, <1>3, <2>1, <2>2 DEF HandlerOK
<1> QED
  BY <1>4, <1>5 DEF Goes

\* Going on, a round of a loop and an error are such steps.
LEMMA GoesOn ==
    ASSUME NEW p \in Proc, Types, UNCHANGED clients, NEW w, Doing(p, w),
           \/ \E l : GoOn(p, l) \/ Loop(p, l) \/ Jump(p, 0, l)
           \/ \E c \in {"invalid", "denied", "store"} : Fail(p, c)
    PROVE  Goes(p)
<1>1. /\ at[p] + 1 \in 1 .. Len(Handler[req[p]]) + 1 /\ at[p] + 0 \in 1 .. Len(Handler[req[p]]) + 1
      /\ at[p] # 0 /\ code[p] = "none"
  BY InProgram
<1>2. ASSUME NEW l, GoOn(p, l) \/ Loop(p, l) \/ Jump(p, 0, l)
      PROVE  \E n \in Int : \E m : at[p] + n \in 1 .. Len(Handler[req[p]]) + 1 /\ Jump(p, n, m)
  <2>1. Jump(p, 1, l) \/ Jump(p, 0, l)
    BY <1>2, Zenon DEF GoOn, Loop
  <2>2. 0 \in Int /\ 1 \in Int
    OBVIOUS
  <2> QED
    BY <1>1, <2>1, <2>2, Zenon
<1> QED
  BY <1>1, <1>2, Zenon DEF Goes

\* So is a jump to another step of the program, or behind it.
LEMMA GoesTo ==
    ASSUME NEW p \in Proc, Types, UNCHANGED clients, NEW w, Doing(p, w),
           NEW n \in Int, NEW l, Jump(p, n, l),
           at[p] + n \in 1 .. Len(Handler[req[p]]) + 1
    PROVE  Goes(p)
<1>1. at[p] # 0 /\ code[p] = "none"
  BY InProgram
<1> QED
  BY <1>1, Zenon DEF Goes

\* Each step of a request keeps to its program.
LEMMA RunGoes ==
    ASSUME NEW p \in Proc, Types, Run(p), ~Reply(p)
    PROVE  Goes(p)
<1> USE DEF Local, Query
<1>1. CASE CheckParams(p) \/ CheckMessage(p)
  <2>1. UNCHANGED clients /\ \E w : Doing(p, w)
    BY <1>1, Zenon DEF CheckParams, CheckMessage
  <2>2. \/ \E l : GoOn(p, l)
        \/ \E c \in {"invalid", "denied", "store"} : Fail(p, c)
    BY <1>1, Zenon DEF CheckParams, CheckMessage
  <2> QED
    BY <2>1, <2>2, GoesOn
<1>2. CASE PassGate(p)
  <2>1. UNCHANGED clients /\ \E w : Doing(p, w)
    BY <1>2, Zenon DEF PassGate
  <2>2. \/ \E l : GoOn(p, l)
        \/ \E c \in {"invalid", "denied", "store"} : Fail(p, c)
    BY <1>2, Zenon DEF PassGate
  <2> QED
    BY <2>1, <2>2, GoesOn
<1>3. CASE GetDomain(p)
  <2>1. UNCHANGED clients /\ Doing(p, "get")
    BY <1>3, Zenon DEF GetDomain
  <2>2. With(p) \in {"invalid", "store"}
    BY <2>1, InProgram DEF StepFits
  <2>3. \/ \E l : GoOn(p, l)
        \/ \E c \in {"invalid", "denied", "store"} : Fail(p, c)
    <3>1. (\E l : GoOn(p, l)) \/ Fail(p, With(p))
      BY <1>3, Zenon DEF GetDomain
    <3> QED
      BY <2>2, <3>1
  <2> QED
    BY <2>1, <2>3, GoesOn
<1>4. CASE ResolveFile(p) \/ ListTargets(p) \/ ListDomains(p) \/ FindOwner(p) \/ CheckMisplaced(p)
  <2>1. UNCHANGED clients /\ \E w : Doing(p, w)
    BY <1>4, Zenon DEF ResolveFile, ListTargets, ListDomains, FindOwner, CheckMisplaced
  <2>2. \/ \E l : GoOn(p, l)
        \/ \E c \in {"invalid", "denied", "store"} : Fail(p, c)
    BY <1>4, Zenon DEF ResolveFile, ListTargets, ListDomains, FindOwner, CheckMisplaced
  <2> QED
    BY <2>1, <2>2, GoesOn
<1>5. CASE ResolveEach(p)
  <2>1. UNCHANGED clients /\ Doing(p, "resolveEach") /\ \E l : GoOn(p, l) \/ Loop(p, l)
    BY <1>5, Zenon DEF ResolveEach
  <2> QED
    BY <2>1, GoesOn
<1>6. CASE NextFile(p)
  <2>1. /\ UNCHANGED clients /\ Doing(p, "nextFile")
        /\ \E l : GoOn(p, l) \/ Jump(p, 0, l) \/ Jump(p, 3, l)
    BY <1>6, Zenon DEF NextFile
  <2>2. CASE \E l : GoOn(p, l) \/ Jump(p, 0, l)
    BY <2>1, <2>2, GoesOn
  <2>3. CASE \E l : Jump(p, 3, l)
    <3>1. at[p] + 3 \in 1 .. Len(Handler[req[p]]) + 1
      BY <2>1, InProgram DEF StepFits
    <3> QED
      BY <2>1, <2>3, <3>1, GoesTo
  <2> QED
    BY <2>1, <2>2, <2>3
<1>7. CASE OpenFile(p) \/ StoreFails(p) \/ ScanNext(p) \/ VisitNext(p)
  <2>1. UNCHANGED clients /\ \E w : Doing(p, w)
    BY <1>7, Zenon DEF OpenFile, StoreFails, ScanNext, VisitNext
  <2>2. \/ \E l : GoOn(p, l) \/ Loop(p, l)
        \/ \E c \in {"invalid", "denied", "store"} : Fail(p, c)
    BY <1>7, Zenon DEF OpenFile, StoreFails, ScanNext, VisitNext
  <2> QED
    BY <2>1, <2>2, GoesOn
<1>8. CASE CheckExists(p)
  <2>1. UNCHANGED clients /\ Doing(p, "exists") /\ \E l : GoOn(p, l) \/ Jump(p, -1, l)
    BY <1>8, Zenon DEF CheckExists
  <2>2. CASE \E l : GoOn(p, l)
    BY <2>1, <2>2, GoesOn
  <2>3. CASE \E l : Jump(p, -1, l)
    <3>1. at[p] + (-1) \in 1 .. Len(Handler[req[p]]) + 1
      BY <2>1, InProgram DEF StepFits
    <3> QED
      BY <2>1, <2>3, <3>1, GoesTo
  <2> QED
    BY <2>1, <2>2, <2>3
<1>9. CASE ReadContent(p)
  <2>1. UNCHANGED clients /\ Doing(p, "content") /\ \E l : Jump(p, -2, l)
    BY <1>9, Zenon DEF ReadContent
  <2>2. at[p] + (-2) \in 1 .. Len(Handler[req[p]]) + 1
    BY <2>1, InProgram DEF StepFits
  <2> QED
    BY <2>1, <2>2, GoesTo
<1>10. CASE EnterDir(p) \/ FindEntities(p)
  <2>1. PICK w \in {"enter", "entities"} : Doing(p, w)
    BY <1>10, Zenon DEF EnterDir, FindEntities
  <2>2. UNCHANGED clients /\ \E l : GoOn(p, l) \/ Jump(p, 2, l)
    BY <1>10, Zenon DEF EnterDir, FindEntities
  <2>3. CASE \E l : GoOn(p, l)
    BY <2>1, <2>2, <2>3, GoesOn
  <2>4. CASE \E l : Jump(p, 2, l)
    <3>1. at[p] + 2 \in 1 .. Len(Handler[req[p]]) + 1
      BY <2>1, InProgram DEF StepFits
    <3> QED
      BY <2>1, <2>2, <2>4, <3>1, GoesTo
  <2> QED
    BY <2>2, <2>3, <2>4
<1>11. CASE \/ Permit(p) \/ Hide(p) \/ SelectBelow(p) \/ Report(p) \/ AddRoots(p)
            \/ StatMarker(p) \/ ReportChanged(p)
  <2>1. /\ UNCHANGED clients /\ \E w : Doing(p, w)
        /\ \E l : GoOn(p, l)
    BY <1>11, Zenon DEF Permit, Hide, SelectBelow, Report, AddRoots, StatMarker, ReportChanged
  <2> QED
    BY <2>1, GoesOn
<1>12. CASE SaveFile(p) \/ MoveFile(p) \/ RefuseChange(p)
  <2>1. UNCHANGED clients /\ \E w : Doing(p, w)
    BY <1>12, Zenon DEF SaveFile, MoveFile, RefuseChange
  <2>2. \/ \E l : GoOn(p, l)
        \/ \E c \in {"invalid", "denied", "store"} : Fail(p, c)
    BY <1>12, Zenon DEF SaveFile, MoveFile, RefuseChange
  <2> QED
    BY <2>1, <2>2, GoesOn
<1>13. CASE StageFiles(p) \/ AddFile(p) \/ Commit(p)
  <2>1. UNCHANGED clients /\ \E w : Doing(p, w)
    BY <1>13, Zenon DEF StageFiles, AddFile, Commit
  <2>2. \/ \E l : GoOn(p, l) \/ Loop(p, l)
        \/ \E c \in {"invalid", "denied", "store"} : Fail(p, c)
    BY <1>13, Zenon DEF StageFiles, AddFile, Commit
  <2> QED
    BY <2>1, <2>2, GoesOn
<1> QED
  BY <1>1, <1>2, <1>3, <1>4, <1>5, <1>6, <1>7, <1>8, <1>9, <1>10, <1>11, <1>12, <1>13 DEF Run

\* A request begins with its first step.
LEMMA StartTypes ==
    ASSUME NEW p \in Proc, Types, \A o \in Proc : HandlerOK(o), Start(p)
    PROVE  \A o \in Proc : HandlerOK(o)'
<1> SUFFICES ASSUME NEW o \in Proc
             PROVE  HandlerOK(o)'
  OBVIOUS
<1>1. HandlerOK(o) /\ queue[p] \in Seq(Request) /\ queue[p] # <<>>
  BY DEF Types, Start
<1>2. CASE o = p
  <2>1. /\ req'[p] = Head(queue[p]) /\ queue'[p] = Tail(queue[p]) /\ at'[p] = 1
        /\ code'[p] = code[p]
    BY DEF Start, Types
  <2>2. Head(queue[p]) \in Request /\ Tail(queue[p]) \in Seq(Request)
    BY <1>1
  <2>3. req'[p] \in DOMAIN Handler
    BY <2>1, <2>2 DEF Handler
  <2>4. Len(Handler[req'[p]]) \in Nat
    <3>1. Handler[req'[p]] = Program(req'[p])
      BY <2>3 DEF Handler
    <3> QED
      BY <3>1, ProgramFits DEF Fits
  <2>5. at'[p] \in 0 .. Len(Handler[req'[p]]) + 1 /\ at'[p] # 0
    BY <2>1, <2>4
  <2>6. code'[p] \in {"none", "invalid", "denied", "store"}
    BY <1>1, <1>2, <2>1 DEF HandlerOK
  <2>7. Tail(queue[p]) \in Seq(Request) => \A k \in DOMAIN Tail(queue[p]) : Tail(queue[p])[k] \in Request
    OBVIOUS
  <2>8. \A k \in DOMAIN queue'[p] : queue'[p][k] \in Request
    BY <2>1, <2>2, <2>7
  <2>9. Handler' = Handler
    BY DEF Handler
  <2> QED
    BY <1>2, <2>3, <2>5, <2>6, <2>8, <2>9 DEF HandlerOK
<1>3. CASE o # p
  <2>1. req'[o] = req[o] /\ queue'[o] = queue[o] /\ at'[o] = at[o] /\ code'[o] = code[o] /\ loc'[o] = loc[o]
    BY <1>3 DEF Start, Types
  <2> QED
    BY <1>1, <2>1 DEF HandlerOK
<1> QED
  BY <1>2, <1>3

\* A reply leaves a handler as it was at the start.
LEMMA ReplyTypes ==
    ASSUME NEW p \in Proc, Types, \A o \in Proc : HandlerOK(o), Reply(p)
    PROVE  \A o \in Proc : HandlerOK(o)'
<1> SUFFICES ASSUME NEW o \in Proc
             PROVE  HandlerOK(o)'
  OBVIOUS
<1>1. HandlerOK(o)
  OBVIOUS
<1>2. CASE o = p
  <2>1. /\ req'[p] = NoRequest /\ queue'[p] = queue[p] /\ at'[p] = 0
        /\ code'[p] = "none" /\ loc'[p] = Locals
    BY DEF Reply, Types
  <2>2. NoRequest \in DOMAIN Handler
    BY DEF Handler
  <2>3. Len(Handler[NoRequest]) \in Nat
    <3>1. Handler[NoRequest] = Program(NoRequest)
      BY <2>2 DEF Handler
    <3> QED
      BY <3>1, ProgramFits DEF Fits
  <2>4. 0 \in 0 .. Len(Handler[NoRequest]) + 1
    BY <2>3
  <2> QED
    BY <1>1, <1>2, <2>1, <2>2, <2>4 DEF HandlerOK
<1>3. CASE o # p
  <2>1. req'[o] = req[o] /\ queue'[o] = queue[o] /\ at'[o] = at[o] /\ code'[o] = code[o] /\ loc'[o] = loc[o]
    BY <1>3 DEF Reply, Types
  <2> QED
    BY <1>1, <2>1 DEF HandlerOK
<1> QED
  BY <1>2, <1>3
--------------------------------------------------------------------------------
\* A call of the controller leaves it with a manifest that is valid.
LEMMA QueryShared ==
    ASSUME NEW p \in Proc, SharedOK, Query(p)
    PROVE  SharedOK'
  BY DEF SharedOK, Query, files, git

\* What a reload has read stays valid until it is installed.
LEMMA TurnsShared ==
    ASSUME SharedOK, Turns
    PROVE  SharedOK'
<1>1. CASE Edit
  BY <1>1, HandlersAssumption DEF Edit, Aside, SharedOK, files, git
<1>2. ASSUME NEW p \in Proc, ReadManifest(p)
      PROVE  SharedOK'
  BY <1>2 DEF ReadManifest, Aside, SharedOK, files, git
<1>3. ASSUME NEW p \in Proc, InstallManifest(p)
      PROVE  SharedOK'
  BY <1>3 DEF InstallManifest, Aside, SharedOK, files, git
<1> QED
  BY <1>1, <1>2, <1>3 DEF Turns, Reload

\* A change leaves the directories of all files in place.
LEMMA ChangeShared ==
    ASSUME NEW p \in Proc, Types, SharedOK, SaveFile(p) \/ MoveFile(p) \/ RefuseChange(p)
    PROVE  SharedOK'
<1> USE DEF SharedOK
<1>1. UNCHANGED manifest /\ UNCHANGED git
  BY DEF SaveFile, MoveFile, RefuseChange
<1>2. change' \in 0 .. MaxChange /\ tree' \in [Path -> 0 .. MaxChange]
  <2>1. CASE SaveFile(p)
    <3>1. change + 1 \in 0 .. MaxChange
      BY <2>1, HandlersAssumption DEF SaveFile
    <3> QED
      BY <2>1, <3>1 DEF SaveFile
  <2>2. CASE MoveFile(p)
    <3>1. Doing(p, "rename") /\ UNCHANGED change
      BY <2>2 DEF MoveFile
    <3>2. req[p].method = "move"
      BY <3>1, Places DEF Types
    <3>3. req[p] \in Request
      <4>1. req[p] \in Request \cup {NoRequest} /\ NoRequest.method = "none"
        BY DEF Types, Handler, NoRequest
      <4> QED
        BY <3>2, <4>1
    <3>4. req[p].path \in Path
      BY <3>2, <3>3, HandlersAssumption
    <3>5. tree[req[p].path] \in 0 .. MaxChange
      BY <3>4
    <3>6. 0 \in 0 .. MaxChange
      BY HandlersAssumption
    <3>7. tree' = [tree EXCEPT ![With(p)] = tree[req[p].path], ![req[p].path] = 0]
      BY <2>2 DEF MoveFile
    <3> QED
      BY <3>1, <3>5, <3>6, <3>7
  <2>3. CASE RefuseChange(p)
    BY <2>3 DEF RefuseChange
  <2> QED
    BY <2>1, <2>2, <2>3
<1>3. \/ UNCHANGED tree
      \/ MakeDirs(With(p)) /\ \A q \in Path : tree'[q] # 0 => tree[q] # 0 \/ q = With(p)
  <2>1. CASE SaveFile(p)
    BY <2>1 DEF SaveFile
  <2>2. CASE MoveFile(p)
    <3> DEFINE v == tree[req[p].path]
    <3>1. MakeDirs(With(p)) /\ tree' = [tree EXCEPT ![With(p)] = v, ![req[p].path] = 0]
      BY <2>2 DEF MoveFile
    <3> HIDE DEF v
    <3> QED
      BY <3>1
  <2>3. CASE RefuseChange(p)
    BY <2>3 DEF RefuseChange
  <2> QED
    BY <2>1, <2>2, <2>3
<1>4. dirs \subseteq dirs'
  BY DEF SaveFile, MoveFile, RefuseChange, MakeDirs
<1>5. \A q \in Path, d \in Dir : tree'[q] # 0 /\ Within(q, d) => d \in dirs'
  <2> SUFFICES ASSUME NEW q \in Path, NEW d \in Dir, tree'[q] # 0, Within(q, d)
               PROVE  d \in dirs'
    OBVIOUS
  <2>1. CASE tree[q] # 0
    BY <1>4, <2>1
  <2>2. CASE tree[q] = 0
    BY <1>3, <2>2 DEF MakeDirs
  <2> QED
    BY <2>1, <2>2
<1> QED
  BY <1>1, <1>2, <1>5 DEF manifest, git

\* What git stages and commits are contents.
LEMMA GitShared ==
    ASSUME NEW p \in Proc, SharedOK, StageFiles(p) \/ AddFile(p) \/ Commit(p)
    PROVE  SharedOK'
<1> USE DEF SharedOK
<1>1. UNCHANGED manifest /\ UNCHANGED files
  BY DEF StageFiles, AddFile, Commit, Local
<1>2. index' \in [Path -> 0 .. MaxChange] /\ head' \in [Path -> 0 .. MaxChange]
  <2>1. CASE StageFiles(p)
    BY <2>1 DEF StageFiles, Local, git
  <2>2. CASE AddFile(p)
    <3> DEFINE q == Head(loc[p].todo)
    <3>1. head' = head /\ (index' = index \/ index' = [index EXCEPT ![q] = tree[q]])
      BY <2>2, Zenon DEF AddFile
    <3> HIDE DEF q
    <3>2. CASE q \in Path
      BY <3>1, <3>2
    <3>3. CASE q \notin Path
      <4>1. [index EXCEPT ![q] = tree[q]] = index
        BY <3>3
      <4> QED
        BY <3>1, <4>1
    <3> QED
      BY <3>2, <3>3
  <2>3. CASE Commit(p)
    <3>1. index' = index /\ (head' = head \/ head' = index)
      BY <2>3, Zenon DEF Commit
    <3> QED
      BY <3>1
  <2> QED
    BY <2>1, <2>2, <2>3
<1> QED
  BY <1>1, <1>2 DEF manifest, files

\* No step of a handler breaks the types of what is shared.
LEMMA RunShared ==
    ASSUME NEW p \in Proc, Types, SharedOK, Run(p)
    PROVE  SharedOK'
<1>1. CASE UNCHANGED <<manifest, files, git>>
  BY <1>1 DEF SharedOK, manifest, files, git
<1>2. CASE Query(p)
  BY <1>2, QueryShared
<1>3. CASE SaveFile(p) \/ MoveFile(p) \/ RefuseChange(p)
  BY <1>3, ChangeShared
<1>4. CASE StageFiles(p) \/ AddFile(p) \/ Commit(p)
  BY <1>4, GitShared
<1>5. CASE \/ GetDomain(p) \/ ResolveFile(p) \/ ListTargets(p) \/ ListDomains(p)
           \/ ResolveEach(p) \/ FindOwner(p) \/ CheckMisplaced(p) \/ NextFile(p)
  <2>1. Query(p) \/ Local
    BY <1>5, Zenon DEF GetDomain, ResolveFile, ListTargets, ListDomains,
                       ResolveEach, FindOwner, CheckMisplaced, NextFile
  <2> QED
    BY <1>1, <1>2, <2>1 DEF Local
<1>6. CASE \/ CheckParams(p) \/ CheckMessage(p) \/ PassGate(p)
           \/ OpenFile(p) \/ CheckExists(p) \/ ReadContent(p) \/ EnterDir(p)
           \/ VisitNext(p) \/ ScanNext(p) \/ StoreFails(p) \/ FindEntities(p)
  <2>1. Local
    BY <1>6, Zenon DEF CheckParams, CheckMessage, PassGate, OpenFile, CheckExists, ReadContent,
                       EnterDir, VisitNext, ScanNext, StoreFails, FindEntities
  <2> QED
    BY <1>1, <2>1 DEF Local
<1>7. CASE \/ Permit(p) \/ Hide(p) \/ SelectBelow(p) \/ Report(p) \/ AddRoots(p)
           \/ StatMarker(p) \/ ReportChanged(p)
  <2>1. Local
    BY <1>7, Zenon DEF Permit, Hide, SelectBelow, Report, AddRoots, StatMarker, ReportChanged
  <2> QED
    BY <1>1, <2>1 DEF Local
<1>8. CASE Reply(p)
  BY <1>1, <1>8 DEF Reply
<1> QED
  BY <1>3, <1>4, <1>5, <1>6, <1>7, <1>8 DEF Run

\* The types hold at the start.
LEMMA InitTypes == Init => TypeOK
<1> SUFFICES ASSUME Init
             PROVE  TypeOK
  OBVIOUS
<1>1. SharedOK
  <2>1. tree \in [Path -> 0 .. MaxChange] /\ change \in 0 .. MaxChange
    BY HandlersAssumption DEF Init
  <2>2. disk \in Manifests /\ reg \in Manifests /\ Valid(reg) /\ edits \in 0 .. MaxEdits
    BY HandlersAssumption DEF Init
  <2> QED
    BY <2>1, <2>2 DEF Init, SharedOK
<1>2. ASSUME NEW p \in Proc
      PROVE  HandlerOK(p)
  <2>1. NoRequest \in DOMAIN Handler
    BY DEF Handler
  <2>2. Len(Handler[NoRequest]) \in Nat
    <3>1. Handler[NoRequest] = Program(NoRequest)
      BY <2>1 DEF Handler
    <3> QED
      BY <3>1, ProgramFits DEF Fits
  <2>3. 0 \in 0 .. Len(Handler[NoRequest]) + 1
    BY <2>2
  <2>4. queue[p] \in Seq(Request)
    BY HandlersAssumption DEF Init
  <2>5. \A k \in DOMAIN queue[p] : queue[p][k] \in Request
    BY <2>4
  <2> QED
    BY <2>1, <2>3, <2>5 DEF Init, HandlerOK
<1> QED
  BY <1>1, <1>2, TypesOfParts

\* The types hold at each step, for any number of handlers, requests and manifests:
\* no handler leaves its program, the manifest that is served, and the one that any
\* reload is about to install, is valid, and every file has its directories.
THEOREM HandlersTyped == Spec => []TypeOK
<1>1. IInv /\ TypeOK /\ [Next]_vars => TypeOK'
  <2> SUFFICES ASSUME IInv, TypeOK, [Next]_vars
               PROVE  TypeOK'
    OBVIOUS
  <2>1. Types /\ SharedOK /\ \A o \in Proc : HandlerOK(o)
    BY TypesOfParts DEF IInv
  <2>2. SharedOK' /\ (\A o \in Proc : HandlerOK(o)') => TypeOK'
    BY DEF TypeOK, SharedOK, HandlerOK
  <2>3. CASE UNCHANGED vars
    BY <2>3 DEF TypeOK, vars, manifest, files, git, clients
  <2>4. CASE Turns
    <3>1. SharedOK'
      BY <2>1, <2>4, TurnsShared
    <3>2. \A o \in Proc : HandlerOK(o)'
      BY <2>1, <2>4, TurnsAside DEF Aside, HandlerOK, clients
    <3> QED
      BY <2>2, <3>1, <3>2
  <2>5. ASSUME NEW p \in Proc, Start(p)
        PROVE  TypeOK'
    <3>1. SharedOK'
      BY <2>1, <2>5 DEF Start, SharedOK, manifest, files, git
    <3> QED
      BY <2>1, <2>2, <2>5, <3>1, StartTypes
  <2>6. ASSUME NEW p \in Proc, Run(p)
        PROVE  TypeOK'
    <3>1. SharedOK'
      BY <2>1, <2>6, RunShared
    <3>2. \A o \in Proc : HandlerOK(o)'
      BY <2>1, <2>6, ReplyTypes, RunGoes, GoesKeeps
    <3> QED
      BY <2>2, <3>1, <3>2
  <2> QED
    BY <2>3, <2>4, <2>5, <2>6 DEF Next, Turns
<1> QED
  BY <1>1, InitTypes, ChecksHold, PTL DEF Spec
--------------------------------------------------------------------------------
\* Picked takes the members at the positions it is given, all of them and no others.
LEMMA PickedMembers ==
    ASSUME NEW S, NEW s \in Seq(S), NEW I, I \subseteq DOMAIN s
    PROVE  /\ Picked(s, I) \in Seq(S)
           /\ \A k \in DOMAIN Picked(s, I) : \E i \in I : Picked(s, I)[k] = s[i]
           /\ \A i \in I : \E k \in DOMAIN Picked(s, I) : Picked(s, I)[k] = s[i]
<1> DEFINE below(i) == {j \in I : j <= i}
           rank == [i \in I |-> Cardinality(below(i))]
           n == Cardinality(I)
<1>1. IsFiniteSet(I) /\ n \in Nat /\ I \subseteq Nat /\ Len(s) \in Nat
  <2>1. I \in SUBSET (1 .. Len(s)) /\ Len(s) \in Nat
    OBVIOUS
  <2>2. IsFiniteSet(1 .. Len(s))
    BY <2>1, FS_Interval
  <2>3. IsFiniteSet(I)
    BY <2>1, <2>2, FS_Subset
  <2> QED
    BY <2>1, <2>3, FS_CardinalityType
<1>2. ASSUME NEW i \in I
      PROVE  IsFiniteSet(below(i)) /\ Cardinality(below(i)) \in 1 .. n
  <2>1. below(i) \in SUBSET I /\ i \in below(i)
    BY <1>1
  <2>2. IsFiniteSet(below(i)) /\ Cardinality(below(i)) <= n
    BY <1>1, <2>1, FS_Subset
  <2>3. Cardinality(below(i)) \in Nat /\ Cardinality(below(i)) # 0
    BY <2>1, <2>2, FS_CardinalityType, FS_EmptySet
  <2> QED
    BY <1>1, <2>2, <2>3
<1>3. ASSUME NEW i \in I, NEW j \in I, i < j
      PROVE  rank[i] # rank[j]
  <2>1. below(i) \in SUBSET below(j) /\ j \in below(j) /\ j \notin below(i)
    BY <1>1, <1>3
  <2>2. Cardinality(below(i)) # Cardinality(below(j))
    BY <1>2, <2>1, FS_Subset
  <2> QED
    BY <2>2
<1>4. rank \in Injection(I, 1 .. n)
  <2>1. rank \in [I -> 1 .. n]
    BY <1>2
  <2> HIDE DEF rank
  <2>2. ASSUME NEW i \in I, NEW j \in I, rank[i] = rank[j]
        PROVE  i = j
    BY <1>1, <1>3, <2>2
  <2> QED
    BY <2>1, <2>2 DEF Injection, IsInjective
<1>5. rank \in Surjection(I, 1 .. n)
  <2>1. IsFiniteSet(1 .. n) /\ Cardinality(1 .. n) = n
    BY <1>1, FS_Interval
  <2> HIDE DEF rank
  <2> QED
    BY <1>4, <2>1, FS_Injection
<1> DEFINE place(k) == CHOOSE i \in I : rank[i] = k
<1>6. Picked(s, I) = [k \in 1 .. n |-> s[place(k)]]
  BY DEF Picked
<1> HIDE DEF rank, n
<1>7. ASSUME NEW k \in 1 .. n
      PROVE  place(k) \in I /\ rank[place(k)] = k
  BY <1>5 DEF Surjection
<1>8. ASSUME NEW i \in I
      PROVE  rank[i] \in 1 .. n /\ place(rank[i]) = i
  <2>1. rank[i] \in 1 .. n
    BY <1>4 DEF Injection
  <2>2. place(rank[i]) \in I /\ rank[place(rank[i])] = rank[i]
    BY <1>7, <2>1
  <2> HIDE DEF place
  <2> QED
    BY <1>4, <2>1, <2>2 DEF Injection, IsInjective
<1> HIDE DEF place
<1>9. ASSUME NEW k \in 1 .. n
      PROVE  s[place(k)] \in S
  BY <1>7
<1> QED
  BY <1>1, <1>6, <1>7, <1>8, <1>9
--------------------------------------------------------------------------------
\* A commit that has not failed, and the files its git add has yet to look at.
Commits(p) == req[p].method = "git" /\ req[p].domain = "commit" /\ code[p] = "none"
Left(p) == {loc[p].todo[k] : k \in DOMAIN loc[p].todo}

\* While the index is filled each file is yet to come or is staged as it was at some
\* time of the request, and nobody can stage anything older behind its back.
Fresh(p, q) == index[q] \in during[p].past[q]
CoversAt(p) ==
    Commits(p) =>
        /\ at[p] = 5 => /\ loc[p].todo \in Seq(Path)
                        /\ \A q \in Path : q \in Left(p) \/ Fresh(p, q)
        /\ at[p] \in {6, 7} => \A q \in Path : Fresh(p, q)
        /\ at[p] = 7 => \A q \in Path : head[q] \in during[p].past[q]

\* The steps of a commit.
LEMMA CommitSteps ==
    ASSUME NEW p \in Proc, Types, Commits(p), NEW w, Doing(p, w)
    PROVE  \/ at[p] = 1 /\ w = "need"
           \/ at[p] = 2 /\ w = "gateWrite"
           \/ at[p] = 3 /\ w = "message"
           \/ at[p] = 4 /\ w = "stage" /\ With(p) = "all"
           \/ at[p] = 5 /\ w = "add"
           \/ at[p] = 6 /\ w = "commit"
<1> DEFINE r == req[p]
           k == at[p]
<1>1. Handler[r] = Program(r) /\ Program(r) = HandleGit(r)
  BY DEF Types, Handler, Commits, Program
<1>2. Program(r) = <<Need({"params", "op"}), GateWrite(Everything), Do("message", "commit"),
                     Do("stage", "all"), Do("add", "all"), Do("commit", "index")>>
  BY <1>1 DEF HandleGit, Commits
<1>3. k \in DOMAIN Program(r) /\ w = Program(r)[k].do /\ With(p) = Program(r)[k].with
  BY <1>1 DEF Doing, Running, Now, With
<1> HIDE DEF r, k
<1>4. k \in {1, 2, 3, 4, 5, 6}
  BY <1>2, <1>3
<1> QED
  BY <1>2, <1>3, <1>4 DEF Need, GateWrite, Do, r, k

\* A commit that is done is behind its last step.
LEMMA CommitEnd ==
    ASSUME NEW p \in Proc, Types, HandlerOK(p), Commits(p), Answered(p)
    PROVE  at[p] = 7
<1> DEFINE r == req[p]
<1>1. Handler[r] = Program(r) /\ Program(r) = HandleGit(r)
  BY DEF Types, Handler, Commits, Program
<1>2. Program(r) = <<Need({"params", "op"}), GateWrite(Everything), Do("message", "commit"),
                     Do("stage", "all"), Do("add", "all"), Do("commit", "index")>>
  BY <1>1 DEF HandleGit, Commits
<1>3. Len(Handler[r]) = 6 /\ DOMAIN Handler[r] = 1 .. 6
  BY <1>1, <1>2
<1>4. at[p] \in 0 .. 7 /\ at[p] # 0 /\ at[p] \notin 1 .. 6
  BY <1>3 DEF HandlerOK, Answered, Running, Commits
<1> QED
  BY <1>4

\* What git stages is on disk at that time, what it commits is staged.
LEMMA GitTakes ==
    ASSUME Types, SharedOK, [Next]_vars
    PROVE  /\ \A q \in Path : index'[q] \in {index[q], tree'[q]}
           /\ head' \in {head, index}
<1>1. CASE UNCHANGED git
  BY <1>1 DEF git
<1>2. ASSUME NEW p \in Proc, AddFile(p)
      PROVE  /\ \A q \in Path : index'[q] \in {index[q], tree'[q]}
             /\ head' = head
  <2> DEFINE f == Head(loc[p].todo)
  <2>1. /\ tree' = tree /\ head' = head
        /\ index' = index \/ index' = [index EXCEPT ![f] = tree[f]]
    BY <1>2, Zenon DEF AddFile, files
  <2> HIDE DEF f
  <2> QED
    BY <2>1 DEF SharedOK
<1>3. ASSUME NEW p \in Proc, Commit(p)
      PROVE  index' = index /\ head' \in {head, index}
  BY <1>3, Zenon DEF Commit
<1>4. ASSUME NEW p \in Proc, Run(p), ~AddFile(p), ~Commit(p)
      PROVE  UNCHANGED git
  <2>1. CASE \/ GetDomain(p) \/ ResolveFile(p) \/ ListTargets(p) \/ ListDomains(p)
             \/ ResolveEach(p) \/ FindOwner(p) \/ CheckMisplaced(p) \/ NextFile(p)
    BY <2>1, Zenon DEF GetDomain, ResolveFile, ListTargets, ListDomains, ResolveEach, FindOwner,
                       CheckMisplaced, NextFile, Query, Local
  <2>2. CASE \/ CheckParams(p) \/ CheckMessage(p) \/ PassGate(p)
             \/ OpenFile(p) \/ CheckExists(p) \/ ReadContent(p) \/ EnterDir(p)
             \/ VisitNext(p) \/ ScanNext(p) \/ StoreFails(p) \/ FindEntities(p)
    BY <2>2, Zenon DEF CheckParams, CheckMessage, PassGate, OpenFile, CheckExists, ReadContent,
                       EnterDir, VisitNext, ScanNext, StoreFails, FindEntities, Local
  <2>3. CASE \/ Permit(p) \/ Hide(p) \/ SelectBelow(p) \/ Report(p) \/ AddRoots(p)
             \/ StatMarker(p) \/ ReportChanged(p) \/ StageFiles(p)
    BY <2>3, Zenon DEF Permit, Hide, SelectBelow, Report, AddRoots, StatMarker, ReportChanged,
                       StageFiles, Local
  <2>4. CASE SaveFile(p) \/ MoveFile(p) \/ RefuseChange(p) \/ Reply(p)
    BY <2>4, Zenon DEF SaveFile, MoveFile, RefuseChange, Reply
  <2> QED
    BY <1>4, <2>1, <2>2, <2>3, <2>4, Zenon DEF Run
<1>5. CASE Turns \/ UNCHANGED vars \/ \E p \in Proc : Start(p)
  <2>1. UNCHANGED git
    BY <1>5, TurnsAside, Zenon DEF Aside, vars, Start
  <2> QED
    BY <1>1, <2>1
<1> QED
  BY <1>1, <1>2, <1>3, <1>4, <1>5 DEF Next, Turns

\* A running request remembers each content there is, and all it has seen before.
LEMMA PastGrows ==
    ASSUME NEW p \in Proc, Observe, at'[p] # 0, NEW q \in Path
    PROVE  during[p].past[q] \subseteq during'[p].past[q] /\ tree'[q] \in during'[p].past[q]
  BY DEF Observe, Both, Moment

\* Nobody makes a commit of p stale while p stands still or takes a step of its own
\* that leaves the files it has yet to look at alone.
LEMMA CoversStays ==
    ASSUME NEW p \in Proc, Types, SharedOK, [Next]_vars, Observe, CoversAt(p),
           req'[p] = req[p], at'[p] = at[p], code'[p] = code[p], loc'[p] = loc[p]
    PROVE  CoversAt(p)'
<1> SUFFICES ASSUME Commits(p), at[p] \in {5, 6, 7}
             PROVE  CoversAt(p)'
  BY DEF CoversAt, Commits
<1>1. at'[p] # 0
  OBVIOUS
<1>2. ASSUME NEW q \in Path, Fresh(p, q)
      PROVE  Fresh(p, q)'
  BY <1>1, <1>2, GitTakes, PastGrows DEF Fresh
<1>3. Left(p)' = Left(p)
  BY DEF Left
<1>4. ASSUME at[p] = 7, NEW q \in Path
      PROVE  head'[q] \in during'[p].past[q]
  <2>1. head[q] \in during[p].past[q] /\ index[q] \in during[p].past[q]
    BY <1>4 DEF CoversAt, Fresh
  <2>2. head'[q] \in {head[q], index[q]}
    BY GitTakes
  <2> QED
    BY <1>1, <2>1, <2>2, PastGrows
<1> QED
  BY <1>2, <1>3, <1>4 DEF CoversAt

\* A step of p leaves the other requests alone.
LEMMA RunAlone ==
    ASSUME NEW p \in Proc, Types, Run(p) \/ Start(p), NEW o \in Proc, o # p
    PROVE  /\ Observe
           /\ req'[o] = req[o] /\ at'[o] = at[o] /\ code'[o] = code[o] /\ loc'[o] = loc[o]
<1>1. CASE Start(p)
  BY <1>1 DEF Start, Types
<1>2. CASE Reply(p)
  BY <1>2 DEF Reply, Types
<1>3. CASE Run(p) /\ ~Reply(p)
  <2>1. UNCHANGED clients /\ ((\E n, l : Jump(p, n, l)) \/ \E c : Fail(p, c))
    BY <1>3, RunGoes, Zenon DEF Goes
  <2> QED
    BY <2>1 DEF Jump, Fail, Types, clients
<1> QED
  BY <1>1, <1>2, <1>3

\* Each action is a step of one kind, but for three that share theirs.
LEMMA ActsDo ==
    ASSUME NEW p
    PROVE  /\ CheckParams(p) => Doing(p, "need")
           /\ CheckMessage(p) => Doing(p, "message")
           /\ GetDomain(p) => Doing(p, "get")
           /\ ResolveFile(p) => Doing(p, "resolve")
           /\ ListTargets(p) => Doing(p, "targets")
           /\ ListDomains(p) => Doing(p, "domains")
           /\ ResolveEach(p) => Doing(p, "resolveEach")
           /\ FindOwner(p) => Doing(p, "owner")
           /\ CheckMisplaced(p) => Doing(p, "misplaced")
           /\ NextFile(p) => Doing(p, "nextFile")
           /\ OpenFile(p) => Doing(p, "open")
           /\ CheckExists(p) => Doing(p, "exists")
           /\ ReadContent(p) => Doing(p, "content")
           /\ EnterDir(p) => Doing(p, "enter")
           /\ VisitNext(p) => Doing(p, "walk")
           /\ FindEntities(p) => Doing(p, "entities")
           /\ Permit(p) => Doing(p, "permit")
           /\ Hide(p) => Doing(p, "hide")
           /\ SelectBelow(p) => Doing(p, "below")
           /\ Report(p) => Doing(p, "report")
           /\ AddRoots(p) => Doing(p, "roots")
           /\ StatMarker(p) => Doing(p, "marker")
           /\ ReportChanged(p) => Doing(p, "changed")
           /\ SaveFile(p) => Doing(p, "save")
           /\ MoveFile(p) => Doing(p, "rename")
           /\ StageFiles(p) => Doing(p, "stage")
           /\ AddFile(p) => Doing(p, "add")
           /\ Commit(p) => Doing(p, "commit")
           /\ PassGate(p) => \E w \in Gates : Doing(p, w)
           /\ ScanNext(p) => \E w \in Scans : Doing(p, w)
           /\ StoreFails(p) => \E w \in {"open", "count", "countEach"} : Doing(p, w)
           /\ RefuseChange(p) => Doing(p, "save") \/ Doing(p, "rename")
           /\ Reply(p) => Answered(p)
  BY Zenon DEF CheckParams, CheckMessage, GetDomain, ResolveFile, ListTargets,
               ListDomains, ResolveEach, FindOwner, CheckMisplaced, NextFile, OpenFile,
               CheckExists, ReadContent, EnterDir, VisitNext, FindEntities, Permit, Hide,
               SelectBelow, Report, AddRoots, StatMarker, ReportChanged, SaveFile,
               MoveFile, StageFiles, AddFile, Commit, PassGate, ScanNext, StoreFails,
               RefuseChange, Reply

\* A running handler does one thing at a time, and takes the action for it.
LEMMA DoesOne ==
    ASSUME NEW p, NEW w, Doing(p, w)
    PROVE  ~Answered(p) /\ \A v : Doing(p, v) => v = w
  BY DEF Doing, Answered

LEMMA RunDoes ==
    ASSUME NEW p, NEW w, Doing(p, w), Run(p)
    PROVE  \/ w \in Gates /\ PassGate(p)
           \/ w \in Scans /\ (ScanNext(p) \/ StoreFails(p))
           \/ w \in {"save", "rename"} /\ (SaveFile(p) \/ MoveFile(p) \/ RefuseChange(p))
           \/ w = "open" /\ (OpenFile(p) \/ StoreFails(p))
           \/ w = "need" /\ CheckParams(p)
           \/ w = "message" /\ CheckMessage(p)
           \/ w = "get" /\ GetDomain(p)
           \/ w = "resolve" /\ ResolveFile(p)
           \/ w = "targets" /\ ListTargets(p)
           \/ w = "domains" /\ ListDomains(p)
           \/ w = "resolveEach" /\ ResolveEach(p)
           \/ w = "owner" /\ FindOwner(p)
           \/ w = "misplaced" /\ CheckMisplaced(p)
           \/ w = "nextFile" /\ NextFile(p)
           \/ w = "exists" /\ CheckExists(p)
           \/ w = "content" /\ ReadContent(p)
           \/ w = "enter" /\ EnterDir(p)
           \/ w = "walk" /\ VisitNext(p)
           \/ w = "entities" /\ FindEntities(p)
           \/ w = "permit" /\ Permit(p)
           \/ w = "hide" /\ Hide(p)
           \/ w = "below" /\ SelectBelow(p)
           \/ w = "report" /\ Report(p)
           \/ w = "roots" /\ AddRoots(p)
           \/ w = "marker" /\ StatMarker(p)
           \/ w = "changed" /\ ReportChanged(p)
           \/ w = "stage" /\ StageFiles(p)
           \/ w = "add" /\ AddFile(p)
           \/ w = "commit" /\ Commit(p)
<1>1. ~Reply(p) /\ \A v : Doing(p, v) => v = w
  BY DoesOne, ActsDo
<1>2. PassGate(p) => w \in Gates
  BY <1>1, ActsDo
<1>3. ScanNext(p) => w \in Scans
  BY <1>1, ActsDo
<1>4. StoreFails(p) => w = "open" \/ w \in Scans
  BY <1>1, ActsDo DEF Scans
<1>5. RefuseChange(p) \/ SaveFile(p) \/ MoveFile(p) => w \in {"save", "rename"}
  BY <1>1, ActsDo
<1>6. OpenFile(p) => w = "open"
  BY <1>1, ActsDo
<1>7. /\ CheckParams(p) => w = "need"
      /\ CheckMessage(p) => w = "message"
      /\ GetDomain(p) => w = "get"
      /\ ResolveFile(p) => w = "resolve"
      /\ ListTargets(p) => w = "targets"
      /\ ListDomains(p) => w = "domains"
      /\ ResolveEach(p) => w = "resolveEach"
      /\ FindOwner(p) => w = "owner"
      /\ CheckMisplaced(p) => w = "misplaced"
  BY <1>1, ActsDo
<1>8. /\ NextFile(p) => w = "nextFile"
      /\ CheckExists(p) => w = "exists"
      /\ ReadContent(p) => w = "content"
      /\ EnterDir(p) => w = "enter"
      /\ VisitNext(p) => w = "walk"
      /\ FindEntities(p) => w = "entities"
      /\ Permit(p) => w = "permit"
      /\ Hide(p) => w = "hide"
      /\ SelectBelow(p) => w = "below"
  BY <1>1, ActsDo
<1>9. /\ Report(p) => w = "report"
      /\ AddRoots(p) => w = "roots"
      /\ StatMarker(p) => w = "marker"
      /\ ReportChanged(p) => w = "changed"
      /\ StageFiles(p) => w = "stage"
      /\ AddFile(p) => w = "add"
      /\ Commit(p) => w = "commit"
  BY <1>1, ActsDo
<1> QED
  BY <1>1, <1>2, <1>3, <1>4, <1>5, <1>6, <1>7, <1>8, <1>9 DEF Run

LEMMA RunsDoing ==
    ASSUME NEW p, Run(p), ~Reply(p)
    PROVE  \E w : Doing(p, w)
  BY ActsDo, Zenon DEF Run

\* The first steps of a commit: what git has is left alone.
LEMMA CoversBegins ==
    ASSUME NEW p \in Proc, Types, Run(p), Commits(p), at[p] \in {1, 2, 3}
    PROVE  CoversAt(p)'
<1>1. CASE CheckParams(p) \/ CheckMessage(p) \/ PassGate(p)
  <2>1. (\E l : GoOn(p, l)) \/ \E c : Fail(p, c)
    BY <1>1, Zenon DEF CheckParams, CheckMessage, PassGate
  <2>2. at'[p] \in {at[p], at[p] + 1}
    BY <2>1 DEF GoOn, Jump, Fail, Types
  <2>3. at'[p] \notin {5, 6, 7}
    BY <2>2
  <2> QED
    BY <2>3 DEF CoversAt
<1>2. PICK w \in {"need", "gateWrite", "message"} : Doing(p, w)
  <2>1. Answered(p) \/ \E w : Doing(p, w)
    BY DEF Commits, Answered, Doing
  <2>2. ~Answered(p)
    <3>1. at[p] \in 1 .. 6 /\ code[p] = "none"
      BY DEF Commits
    <3>2. DOMAIN Handler[req[p]] = 1 .. 6
      <4>1. Handler[req[p]] = Program(req[p]) /\ Program(req[p]) = HandleGit(req[p])
        BY DEF Types, Handler, Commits, Program
      <4> QED
        BY <4>1 DEF HandleGit, Commits
    <3> QED
      BY <3>1, <3>2 DEF Answered, Running
  <2> QED
    BY <2>1, <2>2, CommitSteps
<1>3. CheckParams(p) \/ CheckMessage(p) \/ PassGate(p)
  BY <1>2, RunDoes DEF Gates, Scans
<1> QED
  BY <1>1, <1>3

\* From the listing on: every file is listed, the next one is staged, what is staged is
\* committed.
LEMMA CoversStep ==
    ASSUME NEW p \in Proc, Types, SharedOK, [Next]_vars, CoversAt(p), Commits(p), Observe,
           req'[p] = req[p], StageFiles(p) \/ AddFile(p) \/ Commit(p)
    PROVE  CoversAt(p)'
<1> DEFINE l == loc[p]
<1>1. CASE StageFiles(p)
  <2> DEFINE I == {i \in DOMAIN Order : /\ Order[i] \in Path
                                        /\ With(p) = "tracked" => index[Order[i]] # 0}
             files_ == Picked(Order, I)
             m == [l EXCEPT !.todo = files_]
  <2>1. at[p] = 4 /\ With(p) = "all"
    BY <1>1, ActsDo, CommitSteps
  <2>2. Fail(p, "store") \/ Jump(p, 1, m)
    BY <1>1, Zenon DEF StageFiles, GoOn
  <2>3. CASE Fail(p, "store")
    <3>1. code'[p] = "store"
      BY <2>3 DEF Fail, Types
    <3> QED
      BY <3>1 DEF CoversAt, Commits
  <2>4. CASE Jump(p, 1, m)
    <3>1. I = {i \in DOMAIN Order : Order[i] \in Path}
      BY <2>1
    <3>2. /\ files_ \in Seq(Path \cup Dir)
          /\ \A k \in DOMAIN files_ : files_[k] \in Path
          /\ \A q \in Path : \E k \in DOMAIN files_ : files_[k] = q
      <4> HIDE DEF I, m
      <4>1. Order \in Seq(Path \cup Dir) /\ \A q \in Path : \E i \in DOMAIN Order : Order[i] = q
        BY HandlersAssumption
      <4>2. I \subseteq DOMAIN Order /\ (\A i \in I : Order[i] \in Path)
            /\ \A q \in Path : \E i \in I : Order[i] = q
        BY <3>1, <4>1
      <4> DEFINE T == Path \cup Dir
      <4>3. /\ files_ \in Seq(T)
            /\ \A k \in DOMAIN files_ : \E i \in I : files_[k] = Order[i]
            /\ \A i \in I : \E k \in DOMAIN files_ : files_[k] = Order[i]
        <5> HIDE DEF T
        <5>1. Order \in Seq(T)
          BY <4>1 DEF T
        <5> QED
          BY <4>2, <5>1, PickedMembers
      <4> HIDE DEF files_
      <4> QED
        BY <4>2, <4>3
    <3> HIDE DEF files_
    <3>3. files_ \in Seq(Path)
      BY <3>2
    <3>4. m.todo = files_
      BY DEF Types, Locals
    <3>5. at'[p] = 5 /\ loc'[p].todo = files_
      <4> HIDE DEF m
      <4> QED
        BY <2>1, <2>4, <3>4 DEF Jump, Types
    <3> QED
      BY <3>2, <3>3, <3>5 DEF CoversAt, Left
  <2> QED
    BY <2>2, <2>3, <2>4
<1>2. CASE AddFile(p)
  <2> DEFINE q == Head(l.todo)
             rest == Tail(l.todo)
             m == [l EXCEPT !.todo = rest]
  <2>1. at[p] = 5 /\ l.todo \in Seq(Path)
    <3>1. at[p] = 5
      BY <1>2, ActsDo, CommitSteps
    <3> QED
      BY <3>1 DEF CoversAt
  <2>2. \/ l.todo = <<>> /\ Jump(p, 1, l)
        \/ /\ l.todo # <<>> /\ index' = [index EXCEPT ![q] = tree[q]] /\ tree' = tree
           /\ Jump(p, IF m.todo = <<>> THEN 1 ELSE 0, m)
    BY <1>2, Zenon DEF AddFile, GoOn, Loop, files
  <2>3. at'[p] # 0
    <3>1. at'[p] \in {5, 6}
      BY <2>1, <2>2 DEF Jump, Types
    <3> QED
      BY <3>1
  <2>4. ASSUME NEW f \in Path, Fresh(p, f)
        PROVE  Fresh(p, f)'
    BY <2>3, <2>4, GitTakes, PastGrows DEF Fresh
  <2>5. CASE l.todo = <<>> /\ Jump(p, 1, l)
    <3>1. at'[p] = 6
      BY <2>1, <2>5 DEF Jump, Types
    <3>2. Left(p) = {}
      BY <2>5 DEF Left
    <3> QED
      BY <2>1, <2>4, <3>1, <3>2 DEF CoversAt
  <2>6. CASE /\ l.todo # <<>> /\ index' = [index EXCEPT ![q] = tree[q]] /\ tree' = tree
             /\ Jump(p, IF m.todo = <<>> THEN 1 ELSE 0, m)
    <3>1. q \in Path /\ rest \in Seq(Path) /\ Left(p) = {q} \cup {rest[k] : k \in DOMAIN rest}
      <4> DEFINE s == l.todo
      <4>1. s \in Seq(Path) /\ s # <<>>
        BY <2>1, <2>6
      <4> HIDE DEF s
      <4>2. /\ Head(s) = s[1] /\ Head(s) \in Path /\ Tail(s) \in Seq(Path) /\ Len(s) \in Nat \ {0}
            /\ DOMAIN s = 1 .. Len(s) /\ DOMAIN Tail(s) = 1 .. (Len(s) - 1)
            /\ \A k \in 1 .. (Len(s) - 1) : Tail(s)[k] = s[k + 1]
        BY <4>1
      <4>3. ASSUME NEW k \in DOMAIN s
            PROVE  s[k] \in {Head(s)} \cup {Tail(s)[j] : j \in DOMAIN Tail(s)}
        <5>1. CASE k = 1
          BY <4>2, <5>1
        <5>2. CASE k # 1
          <6>1. k - 1 \in 1 .. (Len(s) - 1) /\ (k - 1) + 1 = k
            BY <4>2, <5>2
          <6>2. Tail(s)[k - 1] = s[k]
            BY <4>2, <6>1
          <6> QED
            BY <4>2, <6>1, <6>2
        <5> QED
          BY <5>1, <5>2
      <4>4. ASSUME NEW k \in DOMAIN Tail(s)
            PROVE  Tail(s)[k] \in {s[j] : j \in DOMAIN s}
        <5>1. k + 1 \in DOMAIN s /\ Tail(s)[k] = s[k + 1]
          BY <4>2
        <5> QED
          BY <5>1
      <4>5. 1 \in DOMAIN s
        BY <4>2
      <4>6. {s[j] : j \in DOMAIN s} = {Head(s)} \cup {Tail(s)[j] : j \in DOMAIN Tail(s)}
        BY <4>2, <4>3, <4>4, <4>5
      <4> QED
        BY <4>2, <4>6 DEF Left, s
    <3> HIDE DEF q, rest
    <3>2. m.todo = rest
      BY DEF Types, Locals
    <3> HIDE DEF m
    <3> PICK f \in Path : f = q
      BY <3>1
    <3>3. loc'[p].todo = rest /\ at'[p] = IF rest = <<>> THEN 6 ELSE 5
      BY <2>1, <2>6, <3>2 DEF Jump, Types
    <3>4. Fresh(p, f)'
      <4>1. index'[f] = tree'[f]
        BY <2>6 DEF SharedOK
      <4> QED
        BY <2>3, <4>1, PastGrows DEF Fresh
    <3>5. Left(p)' = {rest[k] : k \in DOMAIN rest}
      BY <3>3 DEF Left
    <3>6. ASSUME NEW g \in Path
          PROVE  g \in Left(p)' \/ Fresh(p, g)'
      <4>1. g \in Left(p) \/ Fresh(p, g)
        BY <2>1 DEF CoversAt
      <4>2. g \in Left(p) => g = f \/ g \in Left(p)'
        BY <3>1, <3>5
      <4> QED
        BY <2>4, <3>4, <4>1, <4>2
    <3>7. CASE rest = <<>>
      <4>1. Left(p)' = {} /\ at'[p] = 6
        BY <3>3, <3>5, <3>7
      <4> QED
        BY <3>6, <4>1 DEF CoversAt
    <3>8. CASE rest # <<>>
      <4>1. at'[p] = 5
        BY <3>3, <3>8
      <4> QED
        BY <3>1, <3>3, <3>6, <4>1 DEF CoversAt
    <3> QED
      BY <3>7, <3>8
  <2> QED
    BY <2>2, <2>5, <2>6
<1>3. CASE Commit(p)
  <2>1. at[p] = 6 /\ \A q \in Path : Fresh(p, q)
    <3>1. at[p] = 6
      BY <1>3, ActsDo, CommitSteps
    <3> QED
      BY <3>1 DEF CoversAt
  <2>2. \/ Fail(p, "store")
        \/ head' = index /\ index' = index /\ Jump(p, 1, l)
    BY <1>3, Zenon DEF Commit, GoOn
  <2>3. CASE Fail(p, "store")
    <3>1. code'[p] = "store"
      BY <2>3 DEF Fail, Types
    <3> QED
      BY <3>1 DEF CoversAt, Commits
  <2>4. CASE head' = index /\ index' = index /\ Jump(p, 1, l)
    <3>1. at'[p] = 7 /\ at'[p] # 0
      BY <2>1, <2>4 DEF Jump, Types
    <3>2. ASSUME NEW q \in Path
          PROVE  index[q] \in during'[p].past[q]
      BY <2>1, <3>1, PastGrows DEF Fresh
    <3> QED
      BY <2>4, <3>1, <3>2 DEF CoversAt, Fresh
  <2> QED
    BY <2>2, <2>3, <2>4
<1> QED
  BY <1>1, <1>2, <1>3

\* No step of anyone breaks what is known of a commit.
LEMMA CoversKept ==
    ASSUME Types, Types', SharedOK, [Next]_vars, NEW p \in Proc, HandlerOK(p), CoversAt(p)
    PROVE  CoversAt(p)'
<1>1. CASE UNCHANGED vars
  BY <1>1 DEF CoversAt, Commits, Left, Fresh, vars, clients, git
<1>2. CASE Turns
  BY <1>2, CoversStays, TurnsAside DEF Aside, clients
<1>3. ASSUME NEW o \in Proc, o # p, Start(o) \/ Run(o)
      PROVE  CoversAt(p)'
  BY <1>3, RunAlone, CoversStays
<1>4. CASE Start(p)
  <2>1. at'[p] = 1
    BY <1>4 DEF Start, Types
  <2> QED
    BY <2>1 DEF CoversAt
<1>5. CASE Reply(p)
  <2>1. at'[p] = 0
    BY <1>5 DEF Reply, Types
  <2> QED
    BY <2>1 DEF CoversAt
<1>6. CASE Run(p) /\ ~Reply(p)
  <2>1. /\ req'[p] = req[p] /\ Observe
        /\ code'[p] = "none" => code[p] = "none"
    <3>1. UNCHANGED clients /\ code[p] = "none" /\ ((\E n, l : Jump(p, n, l)) \/ \E c : Fail(p, c))
      BY <1>6, RunGoes, Zenon DEF Goes
    <3> QED
      BY <3>1 DEF clients, Jump, Fail
  <2>2. CASE ~Commits(p)
    BY <2>1, <2>2 DEF CoversAt, Commits
  <2>3. CASE Commits(p)
    <3>1. PICK w : Doing(p, w)
      BY <1>6, RunsDoing
    <3>2. CASE w \in {"need", "gateWrite", "message"}
      <4>1. at[p] \in {1, 2, 3}
        BY <2>3, <3>1, <3>2, CommitSteps
      <4> QED
        BY <1>6, <2>3, <4>1, CoversBegins
    <3>3. CASE w \in {"stage", "add", "commit"}
      <4>1. StageFiles(p) \/ AddFile(p) \/ Commit(p)
        BY <1>6, <3>1, <3>3, RunDoes DEF Gates, Scans
      <4> QED
        BY <2>1, <2>3, <4>1, CoversStep
    <3> QED
      BY <2>3, <3>1, <3>2, <3>3, CommitSteps
  <2> QED
    BY <2>2, <2>3
<1> QED
  BY <1>1, <1>2, <1>3, <1>4, <1>5, <1>6 DEF Next, Turns

\* A commit that is reported to be made holds every file as it was at some time of
\* the request, for any number of handlers that stage, commit and change files at the
\* same time: another git add stages what is on disk, another commit takes what is
\* staged, and both are of the time by then.
THEOREM CommitsCover == Spec => []CommitCovers
<1> DEFINE J == IInv /\ TypeOK /\ \A p \in Proc : CoversAt(p)
<1>1. Init => \A p \in Proc : CoversAt(p)
  BY DEF Init, CoversAt
<1>2. IInv /\ IInv' /\ TypeOK /\ (\A p \in Proc : CoversAt(p)) /\ [Next]_vars
          => (\A p \in Proc : CoversAt(p))'
  BY CoversKept, TypesOfParts DEF IInv
<1>3. J => CommitCovers
  <2> SUFFICES ASSUME J, NEW p \in Proc, Ok(p), req[p].method = "git", req[p].domain = "commit",
                      NEW q \in Path
               PROVE  head[q] \in during[p].past[q]
    BY DEF CommitCovers
  <2>1. Types /\ HandlerOK(p) /\ CoversAt(p)
    BY TypesOfParts DEF IInv
  <2>2. Commits(p) /\ at[p] = 7
    BY <2>1, CommitEnd DEF Ok, Commits
  <2> QED
    BY <2>1, <2>2 DEF CoversAt
<1> QED
  BY <1>1, <1>2, <1>3, ChecksHold, HandlersTyped, PTL DEF Spec
================================================================================
