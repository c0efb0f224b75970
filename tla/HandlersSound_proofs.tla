-------------------------- MODULE HandlersSound_proofs -------------------------
(***************************************************************************)
(* For any number of handlers, requests, paths and manifests: an answer    *)
(* names nothing that was not there while the request ran, and the methods *)
(* that filter show no file the role may not read.  What each step leaves  *)
(* in the local variables comes first, then where it leads, then what the  *)
(* programs of all requests look like.                                     *)
(***************************************************************************)
EXTENDS Handlers_proofs

\* What a step leaves in the local variables.
LEMMA NewLocals ==
    ASSUME NEW p \in Proc, Types
    PROVE  /\ \A n, l : Jump(p, n, l) => loc'[p] = l
           /\ \A l : GoOn(p, l) \/ Loop(p, l) => loc'[p] = l
           /\ \A c : Fail(p, c) => loc'[p] = loc[p]
<1>1. \A n, l : Jump(p, n, l) => loc'[p] = l
  BY DEF Jump, Types
<1>2. \A l : GoOn(p, l) => loc'[p] = l
  BY <1>1, Zenon DEF GoOn
<1>3. \A l : Loop(p, l) => loc'[p] = l
  BY <1>1, Zenon DEF Loop
<1>4. \A c : Fail(p, c) => loc'[p] = loc[p]
  BY DEF Fail
<1> QED
  BY <1>1, <1>2, <1>3, <1>4

\* Which steps write which local variables, of those the answer is made from.
Fillers == {"targets", "resolve", "resolveEach", "nextFile", "roots"}
Sources == {"open", "exists", "content", "report"}

\* The local variables that step w may change.
Touches(w) ==
    (IF w \in Fillers \cup {"permit"} THEN {"targets"} ELSE {}) \cup
    (IF w \in {"walk", "permit", "below"} THEN {"found"} ELSE {}) \cup
    (IF w \in Scans \cup Sources \cup {"walk", "hide", "below", "changed"} THEN {"items"} ELSE {}) \cup
    (IF w = "domains" THEN {"doms"} ELSE {}) \cup
    (IF w \in Scans \cup {"enter", "walk", "resolveEach", "stage", "add"} THEN {"todo"} ELSE {}) \cup
    (IF w = "get" THEN {"dom"} ELSE {}) \cup
    (IF w = "owner" THEN {"owner"} ELSE {}) \cup
    (IF w = "nextFile" THEN {"i"} ELSE {}) \cup
    (IF w = "marker" THEN {"since"} ELSE {})

\* A step of p changes no others.
Touched(p, w) == \A f \in DOMAIN Locals \ Touches(w) : loc'[p][f] = loc[p][f]

\* The steps that write nothing.
LEMMA TouchesNone ==
    ASSUME NEW p \in Proc, Types,
           \/ CheckParams(p) \/ CheckMessage(p) \/ PassGate(p) \/ CheckMisplaced(p)
           \/ StoreFails(p) \/ FindEntities(p) \/ SaveFile(p) \/ MoveFile(p)
           \/ RefuseChange(p) \/ Commit(p)
    PROVE  loc'[p] = loc[p]
<1>1. (\E n : Jump(p, n, loc[p])) \/ GoOn(p, loc[p]) \/ \E c : Fail(p, c)
  BY Zenon DEF CheckParams, CheckMessage, PassGate, CheckMisplaced, StoreFails, FindEntities,
               SaveFile, MoveFile, RefuseChange, Commit
<1> QED
  BY <1>1, NewLocals


\* The others write what they are for.
LEMMA RunTouches ==
    ASSUME NEW p \in Proc, Types, Run(p), ~Reply(p), NEW w, Doing(p, w)
    PROVE  Touched(p, w)
<1> DEFINE l == loc[p]
<1> SUFFICES ASSUME NEW f \in DOMAIN Locals \ Touches(w)
             PROVE  loc'[p][f] = l[f]
  BY DEF Touched
<1>b. DOMAIN l = DOMAIN Locals
  BY DEF Types
<1>1. CASE \/ CheckParams(p) \/ CheckMessage(p) \/ PassGate(p) \/ CheckMisplaced(p)
           \/ StoreFails(p) \/ FindEntities(p) \/ SaveFile(p) \/ MoveFile(p)
           \/ RefuseChange(p) \/ Commit(p)
  BY <1>1, TouchesNone
<1>2. CASE GetDomain(p)
  <2>1. w = "get"
    BY <1>2, ActsDo, DoesOne
  <2>2. \E d : loc'[p] = [l EXCEPT !.dom = d] \/ loc'[p] = l
    BY <1>2, NewLocals, Zenon DEF GetDomain
  <2> HIDE DEF l
  <2> QED
    BY <1>b, <2>1, <2>2 DEF Touches, Fillers, Sources
<1>3. CASE ResolveFile(p)
  <2>1. w = "resolve"
    BY <1>3, ActsDo, DoesOne
  <2>2. \E t : loc'[p] = [l EXCEPT !.targets = t] \/ loc'[p] = l
    BY <1>3, NewLocals, Zenon DEF ResolveFile
  <2> HIDE DEF l
  <2> QED
    BY <1>b, <2>1, <2>2 DEF Touches, Fillers, Sources
<1>4. CASE ListTargets(p)
  <2>1. w = "targets"
    BY <1>4, ActsDo, DoesOne
  <2>2. \E t : loc'[p] = [l EXCEPT !.targets = t]
    BY <1>4, NewLocals, Zenon DEF ListTargets
  <2> HIDE DEF l
  <2> QED
    BY <1>b, <2>1, <2>2 DEF Touches, Fillers, Sources
<1>5. CASE ListDomains(p)
  <2>1. w = "domains"
    BY <1>5, ActsDo, DoesOne
  <2>2. \E d : loc'[p] = [l EXCEPT !.doms = d]
    BY <1>5, NewLocals, Zenon DEF ListDomains
  <2> HIDE DEF l
  <2> QED
    BY <1>b, <2>1, <2>2 DEF Touches, Fillers, Sources
<1>6. CASE ResolveEach(p)
  <2>1. w = "resolveEach"
    BY <1>6, ActsDo, DoesOne
  <2>2. \E r, t : loc'[p] = [l EXCEPT !.todo = r, !.targets = t] \/ loc'[p] = l
    BY <1>6, NewLocals, Zenon DEF ResolveEach
  <2> HIDE DEF l
  <2> QED
    BY <1>b, <2>1, <2>2 DEF Touches, Fillers, Sources
<1>7. CASE FindOwner(p)
  <2>1. w = "owner"
    BY <1>7, ActsDo, DoesOne
  <2>2. \E o : loc'[p] = [l EXCEPT !.owner = o]
    BY <1>7, NewLocals, Zenon DEF FindOwner
  <2> HIDE DEF l
  <2> QED
    BY <1>b, <2>1, <2>2 DEF Touches, Fillers, Sources
<1>8. CASE NextFile(p)
  <2>1. w = "nextFile"
    BY <1>8, ActsDo, DoesOne
  <2>2. \E n, t : \/ loc'[p] = [[l EXCEPT !.i = n] EXCEPT !.targets = t]
                     \/ loc'[p] = [l EXCEPT !.i = n] \/ loc'[p] = l
    BY <1>8, NewLocals, Zenon DEF NextFile
  <2> HIDE DEF l
  <2> QED
    BY <1>b, <2>1, <2>2 DEF Touches, Fillers, Sources
<1>9. CASE OpenFile(p)
  <2>1. w = "open"
    BY <1>9, ActsDo, DoesOne
  <2>2. \E x : loc'[p] = [l EXCEPT !.items = x]
    BY <1>9, NewLocals, Zenon DEF OpenFile
  <2> HIDE DEF l
  <2> QED
    BY <1>b, <2>1, <2>2 DEF Touches, Fillers, Sources
<1>10. CASE CheckExists(p)
  <2>1. w = "exists"
    BY <1>10, ActsDo, DoesOne
  <2>2. \E x : loc'[p] = [l EXCEPT !.items = x] \/ loc'[p] = l
    BY <1>10, NewLocals, Zenon DEF CheckExists
  <2> HIDE DEF l
  <2> QED
    BY <1>b, <2>1, <2>2 DEF Touches, Fillers, Sources
<1>11. CASE ReadContent(p)
  <2>1. w = "content"
    BY <1>11, ActsDo, DoesOne
  <2>2. \E x : loc'[p] = [l EXCEPT !.items = x]
    BY <1>11, NewLocals, Zenon DEF ReadContent
  <2> HIDE DEF l
  <2> QED
    BY <1>b, <2>1, <2>2 DEF Touches, Fillers, Sources
<1>12. CASE EnterDir(p)
  <2>1. w = "enter"
    BY <1>12, ActsDo, DoesOne
  <2>2. \E r : loc'[p] = [l EXCEPT !.todo = r] \/ loc'[p] = l
    BY <1>12, NewLocals, Zenon DEF EnterDir
  <2> HIDE DEF l
  <2> QED
    BY <1>b, <2>1, <2>2 DEF Touches, Fillers, Sources
<1>13. CASE ScanNext(p)
  <2>1. w \in Scans
    BY <1>13, ActsDo, DoesOne
  <2>2. \E r, x : loc'[p] = [l EXCEPT !.todo = r, !.items = x] \/ loc'[p] = l
    BY <1>13, NewLocals, Zenon DEF ScanNext
  <2> HIDE DEF l
  <2> QED
    BY <1>b, <2>1, <2>2 DEF Touches, Fillers, Sources, Scans
<1>14. CASE Permit(p)
  <2>1. w = "permit"
    BY <1>14, ActsDo, DoesOne
  <2>2. \E t : loc'[p] = [l EXCEPT ![With(p)] = t]
    BY <1>14, NewLocals, Zenon DEF Permit
  <2> HIDE DEF l
  <2> QED
    BY <1>b, <2>1, <2>2, InProgram DEF Touches, Fillers, Sources, StepFits, l
<1>15. CASE Hide(p)
  <2>1. w = "hide"
    BY <1>15, ActsDo, DoesOne
  <2>2. \E x : loc'[p] = [l EXCEPT !.items = x]
    BY <1>15, NewLocals, Zenon DEF Hide
  <2> HIDE DEF l
  <2> QED
    BY <1>b, <2>1, <2>2 DEF Touches, Fillers, Sources
<1>16. CASE SelectBelow(p)
  <2>1. w = "below"
    BY <1>16, ActsDo, DoesOne
  <2>2. \E x : loc'[p] = [l EXCEPT !.items = x] \/ loc'[p] = [l EXCEPT !.found = x]
    BY <1>16, NewLocals, Zenon DEF SelectBelow
  <2> HIDE DEF l
  <2> QED
    BY <1>b, <2>1, <2>2 DEF Touches, Fillers, Sources
<1>17. CASE Report(p)
  <2>1. w = "report"
    BY <1>17, ActsDo, DoesOne
  <2>2. \E x : loc'[p] = [l EXCEPT !.items = x]
    BY <1>17, NewLocals, Zenon DEF Report
  <2> HIDE DEF l
  <2> QED
    BY <1>b, <2>1, <2>2 DEF Touches, Fillers, Sources
<1>18. CASE AddRoots(p)
  <2>1. w = "roots"
    BY <1>18, ActsDo, DoesOne
  <2>2. \E t : loc'[p] = [l EXCEPT !.targets = t]
    BY <1>18, NewLocals, Zenon DEF AddRoots
  <2> HIDE DEF l
  <2> QED
    BY <1>b, <2>1, <2>2 DEF Touches, Fillers, Sources
<1>19. CASE StatMarker(p)
  <2>1. w = "marker"
    BY <1>19, ActsDo, DoesOne
  <2>2. \E x : loc'[p] = [l EXCEPT !.since = x]
    BY <1>19, NewLocals, Zenon DEF StatMarker
  <2> HIDE DEF l
  <2> QED
    BY <1>b, <2>1, <2>2 DEF Touches, Fillers, Sources
<1>20. CASE ReportChanged(p)
  <2>1. w = "changed"
    BY <1>20, ActsDo, DoesOne
  <2>2. \E x : loc'[p] = [l EXCEPT !.items = x]
    BY <1>20, NewLocals, Zenon DEF ReportChanged
  <2> HIDE DEF l
  <2> QED
    BY <1>b, <2>1, <2>2 DEF Touches, Fillers, Sources
<1>21. CASE StageFiles(p)
  <2>1. w = "stage"
    BY <1>21, ActsDo, DoesOne
  <2>2. \E r : loc'[p] = [l EXCEPT !.todo = r] \/ loc'[p] = l
    BY <1>21, NewLocals, Zenon DEF StageFiles
  <2> HIDE DEF l
  <2> QED
    BY <1>b, <2>1, <2>2 DEF Touches, Fillers, Sources
<1>22. CASE AddFile(p)
  <2>1. w = "add"
    BY <1>22, ActsDo, DoesOne
  <2>2. \E r : loc'[p] = [l EXCEPT !.todo = r] \/ loc'[p] = l
    BY <1>22, NewLocals, Zenon DEF AddFile
  <2> HIDE DEF l
  <2> QED
    BY <1>b, <2>1, <2>2 DEF Touches, Fillers, Sources
<1>23. CASE VisitNext(p)
  <2>1. w = "walk"
    BY <1>23, ActsDo, DoesOne
  <2>2. \E r, n, v : \/ loc'[p] = [l EXCEPT !.todo = r]
                     \/ loc'[p] = Visit(v, [l EXCEPT !.todo = r], n)
    BY <1>23, NewLocals, Zenon DEF VisitNext
  <2> HIDE DEF l
  <2>3. f \notin {"todo", "items", "found"}
    BY <2>1 DEF Touches, Fillers, Sources
  <2>4. ASSUME NEW v, NEW m, NEW n, DOMAIN m = DOMAIN Locals
        PROVE  Visit(v, m, n)[f] = m[f]
    BY <2>3, <2>4 DEF Visit
  <2>5. \A r : DOMAIN [l EXCEPT !.todo = r] = DOMAIN Locals /\ [l EXCEPT !.todo = r][f] = l[f]
    BY <1>b, <2>3
  <2> QED
    BY <2>2, <2>4, <2>5
<1> QED
  BY <1>1, <1>2, <1>3, <1>4, <1>5, <1>6, <1>7, <1>8, <1>9, <1>10, <1>11, <1>12,
     <1>13, <1>14, <1>15, <1>16, <1>17, <1>18, <1>19, <1>20, <1>21, <1>22, <1>23 DEF
     Run
--------------------------------------------------------------------------------
\* Lists, and what is on them.
Members(s) == {s[k] : k \in DOMAIN s}
IsList(s) == s \in Seq(Members(s))

\* What is a sequence of anything is a list.
LEMMA ListOf ==
    ASSUME NEW S, NEW s \in Seq(S)
    PROVE  IsList(s) /\ Members(s) \subseteq S
  BY DEF IsList, Members

\* Lists one after the other.
LEMMA ListJoin ==
    ASSUME NEW s, NEW t, IsList(s), IsList(t)
    PROVE  IsList(s \o t) /\ Members(s \o t) \subseteq Members(s) \cup Members(t)
<1> DEFINE S == Members(s) \cup Members(t)
<1>1. s \in Seq(S) /\ t \in Seq(S)
  <2>1. s \in Seq(Members(s)) /\ t \in Seq(Members(t))
    BY DEF IsList
  <2> HIDE DEF Members
  <2> QED
    BY <2>1
<1> HIDE DEF S
<1>2. s \o t \in Seq(S)
  BY <1>1
<1> QED
  BY <1>2, ListOf DEF S

\* Lists of few members.
LEMMA ListFew ==
    /\ IsList(<<>>) /\ Members(<<>>) = {}
    /\ \A a : IsList(<<a>>) /\ Members(<<a>>) = {a}
    /\ \A a, b : IsList(<<a, b>>) /\ Members(<<a, b>>) = {a, b}
    /\ \A a, b, c : IsList(<<a, b, c>>) /\ Members(<<a, b, c>>) = {a, b, c}
<1>1. IsList(<<>>) /\ Members(<<>>) = {}
  <2>1. Members(<<>>) = {}
    BY DEF Members
  <2> QED
    BY <2>1 DEF IsList
<1>2. ASSUME NEW a
      PROVE  IsList(<<a>>) /\ Members(<<a>>) = {a}
  <2>1. Members(<<a>>) = {a}
    BY DEF Members
  <2> QED
    BY <2>1 DEF IsList
<1>3. ASSUME NEW a, NEW b
      PROVE  IsList(<<a, b>>) /\ Members(<<a, b>>) = {a, b}
  <2>1. Members(<<a, b>>) = {a, b}
    BY DEF Members
  <2> QED
    BY <2>1 DEF IsList
<1>4. ASSUME NEW a, NEW b, NEW c
      PROVE  IsList(<<a, b, c>>) /\ Members(<<a, b, c>>) = {a, b, c}
  <2>1. Members(<<a, b, c>>) = {a, b, c}
    BY DEF Members
  <2> QED
    BY <2>1 DEF IsList
<1> QED
  BY <1>1, <1>2, <1>3, <1>4

\* A list with one more member.
LEMMA ListAppend ==
    ASSUME NEW s, NEW x, IsList(s)
    PROVE  IsList(Append(s, x)) /\ Members(Append(s, x)) \subseteq Members(s) \cup {x}
<1> DEFINE S == Members(s) \cup {x}
<1>1. s \in Seq(S) /\ x \in S
  <2>1. s \in Seq(Members(s))
    BY DEF IsList
  <2> HIDE DEF Members
  <2> QED
    BY <2>1
<1> HIDE DEF S
<1>2. Append(s, x) \in Seq(S)
  BY <1>1
<1> QED
  BY <1>2, ListOf DEF S

\* A list without its first member.
LEMMA ListRest ==
    ASSUME NEW s, IsList(s), s # <<>>
    PROVE  /\ Head(s) \in Members(s)
           /\ Tail(s) \in Seq(Members(s)) /\ IsList(Tail(s)) /\ Members(Tail(s)) \subseteq Members(s)
<1> DEFINE S == Members(s)
<1>1. s \in Seq(S)
  BY DEF IsList
<1> HIDE DEF S
<1>2. Head(s) \in S /\ Tail(s) \in Seq(S)
  BY <1>1
<1> QED
  BY <1>2, ListOf DEF S

\* What Picked takes from a list.
LEMMA ListPick ==
    ASSUME NEW s, NEW I, IsList(s), I \subseteq DOMAIN s
    PROVE  IsList(Picked(s, I)) /\ Members(Picked(s, I)) \subseteq {s[i] : i \in I}
<1> DEFINE S == Members(s)
<1>1. s \in Seq(S)
  BY DEF IsList
<1> HIDE DEF S
<1>2. Picked(s, I) \in Seq(S) /\ \A k \in DOMAIN Picked(s, I) : \E i \in I : Picked(s, I)[k] = s[i]
  BY <1>1, PickedMembers
<1>3. IsList(Picked(s, I))
  BY <1>2, ListOf
<1> QED
  BY <1>2, <1>3 DEF Members
--------------------------------------------------------------------------------
\* A target that manifest m names.
FromManifest(m, t) ==
    \E d \in Domains(m) : \E file : Declares(d, file) /\ t = Target(d, file)

\* What resolves in a manifest is named by it.
LEMMA ResolvesOne ==
    ASSUME NEW m, NEW id, NEW file, Resolves(m, id, file)
    PROVE  FromManifest(m, Target(Get(m, id), file))
<1>1. Get(m, id) \in Domains(m)
  BY DEF Resolves, Known, Get
<1> QED
  BY <1>1 DEF FromManifest, Resolves

\* All that Targets lists is named by the manifest.
LEMMA TargetsAll ==
    ASSUME NEW m \in Manifests, NEW file
    PROVE  /\ IsList(Targets(m, file))
           /\ \A t \in Members(Targets(m, file)) : FromManifest(m, t)
<1> DEFINE I == {i \in DOMAIN m : Declares(m[i], file)}
           ds == Picked(m, I)
<1>1. IsList(m)
  BY HandlersAssumption DEF IsList, Domains, Members
<1>2. IsList(ds) /\ Members(ds) \subseteq {m[i] : i \in I}
  BY <1>1, ListPick
<1>3. Targets(m, file) = [i \in DOMAIN ds |-> Target(ds[i], file)]
  BY DEF Targets
<1>4. \A i \in DOMAIN ds : ds[i] \in Domains(m) /\ Declares(ds[i], file)
  BY <1>2 DEF Members, Domains
<1>5. DOMAIN ds = 1 .. Len(ds) /\ Len(ds) \in Nat
  <2> DEFINE S == Members(ds)
  <2>1. ds \in Seq(S)
    BY <1>2 DEF IsList
  <2> HIDE DEF ds, S
  <2> QED
    BY <2>1
<1> HIDE DEF ds
<1>6. Targets(m, file) \in Seq({Target(ds[i], file) : i \in DOMAIN ds})
  BY <1>3, <1>5
<1>7. IsList(Targets(m, file))
  BY <1>6, ListOf
<1>8. \A t \in Members(Targets(m, file)) : FromManifest(m, t)
  BY <1>3, <1>4 DEF Members, FromManifest
<1> QED
  BY <1>7, <1>8
--------------------------------------------------------------------------------
\* Where a target comes from: it was one, or a manifest names it that a request of
\* the time was answered from, or it is one of those that need no domain.
NewTarget(p, w, t) ==
    \/ w = "roots" /\ t.id = ""
    \/ /\ w \in Fillers /\ FromManifest(reg, t) /\ Query(p)
       /\ w = "nextFile" => Readable(p, t.path)

\* A target is an old one or a new one; those that are left by the filter may be read.
LEMMA TargetsFrom ==
    ASSUME NEW p \in Proc, Types, SharedOK, Run(p), ~Reply(p), NEW w, Doing(p, w),
           IsList(loc[p].targets)
    PROVE  /\ IsList(loc'[p].targets)
           /\ \A t \in Members(loc'[p].targets) :
                  t \in Members(loc[p].targets) \/ NewTarget(p, w, t)
           /\ w = "permit" /\ With(p) = "targets" =>
                  \A t \in Members(loc'[p].targets) : Readable(p, t.path)
<1> DEFINE l == loc[p]
           Goal == /\ IsList(loc'[p].targets)
                   /\ \A t \in Members(loc'[p].targets) :
                          t \in Members(l.targets) \/ NewTarget(p, w, t)
                   /\ w = "permit" /\ With(p) = "targets" =>
                          \A t \in Members(loc'[p].targets) : Readable(p, t.path)
<1>a. DOMAIN l = DOMAIN Locals /\ "targets" \in DOMAIN l /\ reg \in Manifests
  BY DEF Types, SharedOK, Locals
<1>1. CASE w \notin Fillers \cup {"permit"}
  <2>1. "targets" \in DOMAIN Locals \ Touches(w)
    BY <1>1 DEF Touches, Locals
  <2>2. loc'[p].targets = l.targets
    BY <2>1, RunTouches DEF Touched
  <2> QED
    BY <1>1, <2>2
<1>2. CASE loc'[p] = l /\ w # "permit"
  BY <1>2
<1>3. CASE w = "resolve"
  <2> DEFINE id == l.dom[1].id
             t == Target(Get(reg, id), With(p))
  <2>1. ResolveFile(p)
    BY <1>3, RunDoes DEF Gates, Scans
  <2>2. /\ Query(p)
        /\ \/ loc'[p] = l
           \/ Resolves(reg, id, With(p)) /\ loc'[p] = [l EXCEPT !.targets = <<t>>]
    <3>1. /\ Query(p)
          /\ \/ Resolves(reg, id, With(p)) /\ GoOn(p, [l EXCEPT !.targets = <<t>>])
             \/ Fail(p, "invalid")
      BY <2>1, Zenon DEF ResolveFile
    <3> QED
      BY <3>1, NewLocals, Zenon
  <2>3. CASE Resolves(reg, id, With(p)) /\ loc'[p] = [l EXCEPT !.targets = <<t>>]
    <3>1. FromManifest(reg, t)
      BY <2>3, ResolvesOne
    <3> HIDE DEF t, l
    <3>2. loc'[p].targets = <<t>>
      BY <1>a, <2>3
    <3>3. IsList(<<t>>) /\ Members(<<t>>) = {t}
      BY ListFew
    <3>4. NewTarget(p, w, t)
      BY <1>3, <2>2, <3>1 DEF NewTarget, Fillers
    <3> QED
      BY <1>3, <3>2, <3>3, <3>4
  <2> QED
    BY <1>2, <1>3, <2>2, <2>3
<1>4. CASE w = "targets"
  <2> DEFINE ts == Targets(reg, With(p))
  <2>1. ListTargets(p)
    BY <1>4, RunDoes DEF Gates, Scans
  <2>2. Query(p) /\ loc'[p] = [l EXCEPT !.targets = ts]
    BY <2>1, NewLocals, Zenon DEF ListTargets
  <2>3. IsList(ts) /\ \A t \in Members(ts) : FromManifest(reg, t)
    BY <1>a, TargetsAll
  <2> HIDE DEF ts, l
  <2>4. loc'[p].targets = ts
    BY <1>a, <2>2
  <2>5. \A t \in Members(ts) : NewTarget(p, w, t)
    BY <1>4, <2>2, <2>3 DEF NewTarget, Fillers
  <2> QED
    BY <1>4, <2>3, <2>4, <2>5
<1>5. CASE w = "resolveEach"
  <2> DEFINE left == IF l.todo = <<>> THEN Thrice(l.doms) ELSE l.todo
             id == Head(left).id
             file == Head(left).file
             t == Target(Get(reg, id), file)
             ts == IF ~Resolves(reg, id, file) THEN l.targets
                   ELSE IF file = "observations" THEN l.targets \o <<t, t>>
                   ELSE Append(l.targets, t)
             rest == Tail(left)
  <2>1. ResolveEach(p)
    BY <1>5, RunDoes DEF Gates, Scans
  <2>2. loc'[p] = l \/ (Query(p) /\ loc'[p] = [l EXCEPT !.todo = rest, !.targets = ts])
    <3>1. GoOn(p, l) \/ (Query(p) /\ Loop(p, [l EXCEPT !.todo = rest, !.targets = ts]))
      BY <2>1, Zenon DEF ResolveEach
    <3> QED
      BY <3>1, NewLocals, Zenon
  <2>3. CASE Query(p) /\ loc'[p] = [l EXCEPT !.todo = rest, !.targets = ts]
    <3>1. Resolves(reg, id, file) => FromManifest(reg, t)
      BY ResolvesOne
    <3>2. IsList(ts) /\ \A x \in Members(ts) : x \in Members(l.targets) \/ (Resolves(reg, id, file) /\ x = t)
      <4> HIDE DEF l, t, id, file, left
      <4>1. IsList(l.targets) /\ IsList(<<t, t>>) /\ Members(<<t, t>>) = {t}
        BY ListFew DEF l
      <4>2. IsList(l.targets \o <<t, t>>)
            /\ Members(l.targets \o <<t, t>>) \subseteq Members(l.targets) \cup {t}
        BY <4>1, ListJoin
      <4>3. IsList(Append(l.targets, t)) /\ Members(Append(l.targets, t)) \subseteq Members(l.targets) \cup {t}
        BY <4>1, ListAppend
      <4>4. CASE ~Resolves(reg, id, file)
        BY <4>1, <4>4
      <4>5. CASE Resolves(reg, id, file) /\ file = "observations"
        BY <4>2, <4>5
      <4>6. CASE Resolves(reg, id, file) /\ file # "observations"
        BY <4>3, <4>6
      <4> QED
        BY <4>4, <4>5, <4>6
    <3> HIDE DEF ts, rest
    <3>3. loc'[p].targets = ts
      <4> HIDE DEF l
      <4> QED
        BY <1>a, <2>3
    <3>4. \A x \in Members(ts) : x \in Members(l.targets) \/ NewTarget(p, w, x)
      BY <1>5, <2>3, <3>1, <3>2 DEF NewTarget, Fillers
    <3> QED
      BY <1>5, <3>2, <3>3, <3>4
  <2> QED
    BY <1>2, <1>5, <2>2, <2>3
<1>6. CASE w = "nextFile"
  <2> DEFINE id == l.dom[1].id
             file == l.dom[1].files[l.i + 1]
             t == Target(Get(reg, id), file)
             n == l.i + 1
             next == [l EXCEPT !.i = n]
  <2>1. NextFile(p)
    BY <1>6, RunDoes DEF Gates, Scans
  <2>2. \/ loc'[p] = l \/ loc'[p] = next
        \/ /\ Query(p) /\ Resolves(reg, id, file) /\ Readable(p, t.path)
           /\ loc'[p] = [next EXCEPT !.targets = <<t>>]
    BY <2>1, NewLocals, Zenon DEF NextFile
  <2>3. CASE /\ Query(p) /\ Resolves(reg, id, file) /\ Readable(p, t.path)
             /\ loc'[p] = [next EXCEPT !.targets = <<t>>]
    <3>1. FromManifest(reg, t)
      BY <2>3, ResolvesOne
    <3> HIDE DEF t, l, n
    <3>2. loc'[p].targets = <<t>>
      BY <1>a, <2>3
    <3>3. IsList(<<t>>) /\ Members(<<t>>) = {t}
      BY ListFew
    <3>4. NewTarget(p, w, t)
      BY <1>6, <2>3, <3>1 DEF NewTarget, Fillers
    <3> QED
      BY <1>6, <3>2, <3>3, <3>4
  <2>4. CASE loc'[p] = next
    <3> HIDE DEF n
    <3>1. loc'[p].targets = l.targets
      BY <1>a, <2>4
    <3> QED
      BY <1>6, <3>1
  <2> QED
    BY <1>2, <1>6, <2>2, <2>3, <2>4
<1>7. CASE w = "roots"
  <2> DEFINE a == Entry("", HotMemory, 0)
             b == Entry("", Improvements, 0)
             c == Entry("", Patterns, 0)
             ts == l.targets \o <<a, b, c>>
  <2>1. AddRoots(p)
    BY <1>7, RunDoes DEF Gates, Scans
  <2>2. loc'[p] = [l EXCEPT !.targets = ts]
    BY <2>1, NewLocals, Zenon DEF AddRoots
  <2>3. a.id = "" /\ b.id = "" /\ c.id = ""
    BY DEF Entry
  <2> HIDE DEF a, b, c
  <2>4. IsList(ts) /\ Members(ts) \subseteq Members(l.targets) \cup {a, b, c}
    BY ListFew, ListJoin
  <2> HIDE DEF ts
  <2>5. loc'[p].targets = ts
    <3> HIDE DEF l
    <3> QED
      BY <1>a, <2>2
  <2> QED
    BY <1>7, <2>3, <2>4, <2>5 DEF NewTarget
<1>8. CASE w = "permit"
  <2> DEFINE f == With(p)
             I == {k \in DOMAIN l[f] : Readable(p, l[f][k].path)}
             s == Picked(l[f], I)
  <2>1. Permit(p)
    BY <1>8, RunDoes DEF Gates, Scans
  <2>2. loc'[p] = [l EXCEPT ![f] = s]
    <3>1. loc'[p] = [l EXCEPT ![f] = Picked(@, {k \in DOMAIN @ : Readable(p, @[k].path)})]
      BY <2>1, NewLocals, Zenon DEF Permit
    <3> QED
      BY <3>1
  <2>3. f \in {"targets", "found"}
    BY <1>8, InProgram DEF StepFits
  <2>4. CASE f = "targets"
    <3>1. l[f] = l.targets
      BY <2>4
    <3>2. IsList(l[f]) /\ I \subseteq DOMAIN l[f]
      BY <3>1
    <3>3. IsList(s) /\ Members(s) \subseteq {l[f][k] : k \in I}
      <4> HIDE DEF l, f, I
      <4> QED
        BY <3>2, ListPick
    <3>4. \A t \in Members(s) : t \in Members(l.targets) /\ Readable(p, t.path)
      BY <3>1, <3>3 DEF Members
    <3> HIDE DEF s
    <3>5. loc'[p].targets = s
      <4> HIDE DEF l
      <4> QED
        BY <1>a, <2>2, <2>4
    <3> QED
      BY <3>3, <3>4, <3>5
  <2>5. CASE f = "found"
    <3> HIDE DEF s
    <3>1. loc'[p].targets = l.targets
      <4> HIDE DEF l
      <4> QED
        BY <1>a, <2>2, <2>5
    <3> QED
      BY <2>5, <3>1
  <2> QED
    BY <2>3, <2>4, <2>5
<1> QED
  BY <1>1, <1>3, <1>4, <1>5, <1>6, <1>7, <1>8 DEF Fillers

\* Where a file that a walk has found comes from, and an entry of the answer.
LEMMA FoundFrom ==
    ASSUME NEW p \in Proc, Types, Run(p), ~Reply(p), NEW w, Doing(p, w),
           IsList(loc[p].found)
    PROVE  /\ IsList(loc'[p].found)
           /\ \A x \in Members(loc'[p].found) :
                  \/ x \in Members(loc[p].found)
                  \/ /\ w = "walk" /\ With(p) = "collect" /\ Local
                     /\ \E q : x = Entry("", q, Content(q))
           /\ w = "permit" /\ With(p) = "found" =>
                  \A x \in Members(loc'[p].found) : Readable(p, x.path)
<1> DEFINE l == loc[p]
           New(x) == /\ w = "walk" /\ With(p) = "collect" /\ Local
                     /\ \E q : x = Entry("", q, Content(q))
<1>a. DOMAIN l = DOMAIN Locals /\ "found" \in DOMAIN l /\ "todo" \in DOMAIN l
  BY DEF Types, Locals
<1>1. CASE w \notin {"walk", "permit", "below"}
  <2>1. "found" \in DOMAIN Locals \ Touches(w)
    BY <1>1 DEF Touches, Locals
  <2>2. loc'[p].found = l.found
    BY <2>1, RunTouches DEF Touched
  <2> QED
    BY <1>1, <2>2
<1>2. CASE w = "walk"
  <2> DEFINE n == Head(l.todo)
             x == Entry("", n, Content(n))
             rest == Tail(l.todo)
             more == Entries(n) \o rest
             m == [l EXCEPT !.todo = rest]
  <2>1. VisitNext(p)
    BY <1>2, RunDoes DEF Gates, Scans
  <2>2. /\ Local
        /\ \/ loc'[p] = [l EXCEPT !.todo = more]
           \/ loc'[p] = Visit(With(p), m, n)
    <3>1. /\ Local
          /\ \/ Loop(p, [l EXCEPT !.todo = more])
             \/ Loop(p, Visit(With(p), m, n))
      BY <2>1, Zenon DEF VisitNext
    <3> QED
      BY <3>1, NewLocals, Zenon
  <2>3. CASE loc'[p] = [l EXCEPT !.todo = more]
    <3> HIDE DEF more, l
    <3>1. loc'[p].found = l.found
      BY <1>a, <2>3
    <3> QED
      BY <1>2, <3>1 DEF l
  <2>4. CASE loc'[p] = Visit(With(p), m, n)
    <3>1. m.found = l.found /\ "found" \in DOMAIN m
      <4> HIDE DEF l, rest
      <4> QED
        BY <1>a
    <3>2. \/ loc'[p].found = l.found
          \/ With(p) = "collect" /\ loc'[p].found = Append(l.found, x)
      <4>1. CASE With(p) = "collect" /\ x.ver # 0
        <5>1. loc'[p] = [m EXCEPT !.found = Append(m.found, x)]
          BY <2>4, <4>1 DEF Visit
        <5> HIDE DEF m, x, l
        <5> QED
          BY <3>1, <4>1, <5>1
      <4>2. CASE ~(With(p) = "collect" /\ x.ver # 0)
        <5>1. loc'[p] = m \/ \E i : loc'[p] = [m EXCEPT !.items = i]
          BY <2>4, <4>2 DEF Visit
        <5> HIDE DEF m, x, l
        <5> QED
          BY <3>1, <5>1
      <4> QED
        BY <4>1, <4>2
    <3> HIDE DEF n
    <3>3. IsList(Append(l.found, x)) /\ Members(Append(l.found, x)) \subseteq Members(l.found) \cup {x}
      BY ListAppend
    <3>4. With(p) = "collect" => New(x)
      BY <1>2, <2>2
    <3> HIDE DEF x, New
    <3>5. \A y \in Members(loc'[p].found) : y \in Members(l.found) \/ New(y)
      BY <3>2, <3>3, <3>4
    <3> QED
      BY <1>2, <3>2, <3>3, <3>5 DEF New
  <2> QED
    BY <2>2, <2>3, <2>4
<1>3. CASE w = "permit"
  <2> DEFINE f == With(p)
             I == {k \in DOMAIN l[f] : Readable(p, l[f][k].path)}
             s == Picked(l[f], I)
  <2>1. Permit(p)
    BY <1>3, RunDoes DEF Gates, Scans
  <2>2. loc'[p] = [l EXCEPT ![f] = s]
    <3>1. loc'[p] = [l EXCEPT ![f] = Picked(@, {k \in DOMAIN @ : Readable(p, @[k].path)})]
      BY <2>1, NewLocals, Zenon DEF Permit
    <3> QED
      BY <3>1
  <2>3. f \in {"targets", "found"}
    BY <1>3, InProgram DEF StepFits
  <2>4. CASE f = "found"
    <3>1. l[f] = l.found
      BY <2>4
    <3>2. IsList(l[f]) /\ I \subseteq DOMAIN l[f]
      BY <3>1
    <3>3. IsList(s) /\ Members(s) \subseteq {l[f][k] : k \in I}
      <4> HIDE DEF l, f, I
      <4> QED
        BY <3>2, ListPick
    <3>4. \A t \in Members(s) : t \in Members(l.found) /\ Readable(p, t.path)
      BY <3>1, <3>3 DEF Members
    <3> HIDE DEF s
    <3>5. loc'[p].found = s
      <4> HIDE DEF l
      <4> QED
        BY <1>a, <2>2, <2>4
    <3> QED
      BY <3>3, <3>4, <3>5
  <2>5. CASE f = "targets"
    <3> HIDE DEF s
    <3>1. loc'[p].found = l.found
      <4> HIDE DEF l
      <4> QED
        BY <1>a, <2>2, <2>5
    <3> QED
      BY <2>5, <3>1
  <2> QED
    BY <2>3, <2>4, <2>5
<1>4. CASE w = "below"
  <2> DEFINE I == {k \in DOMAIN l.found : Within(l.found[k].path, req[p].path)}
             s == Picked(l.found, I)
             xs == {x \in l.items : Within(x.path, req[p].path)}
  <2>1. SelectBelow(p)
    BY <1>4, RunDoes DEF Gates, Scans
  <2>2. loc'[p] = [l EXCEPT !.items = xs] \/ loc'[p] = [l EXCEPT !.found = s]
    <3>1. GoOn(p, IF With(p) = "items" THEN [l EXCEPT !.items = xs] ELSE [l EXCEPT !.found = s])
      BY <2>1, Zenon DEF SelectBelow
    <3> QED
      BY <3>1, NewLocals
  <2>3. IsList(s) /\ Members(s) \subseteq Members(l.found)
    <3>1. I \subseteq DOMAIN l.found
      OBVIOUS
    <3>2. IsList(s) /\ Members(s) \subseteq {l.found[k] : k \in I}
      <4> HIDE DEF I
      <4> QED
        BY <3>1, ListPick
    <3> QED
      BY <3>1, <3>2 DEF Members
  <2> HIDE DEF s, xs, l
  <2>4. loc'[p].found = l.found \/ loc'[p].found = s
    BY <1>a, <2>2
  <2> QED
    BY <1>4, <2>3, <2>4 DEF l
<1> QED
  BY <1>1, <1>2, <1>3, <1>4

\* Where a new entry of the answer comes from: it is read, listed or found at this step.
NewItem(p, w, x) ==
    /\ Local
    /\ \/ w \in Scans /\ \E t \in Members(loc[p][With(p)]) : x = Member(t)
       \/ w \in {"exists", "content"} /\ \E t \in Members(loc[p].targets) : x = Member(t)
       \/ w = "report" /\ x \in Members(loc[p].found)
       \/ w = "changed" /\ x \in Members(loc[p].found) /\ Readable(p, x.path)
       \/ w = "open" /\ \E q : x = Entry("", q, Content(q))
       \/ w = "walk" /\ With(p) # "collect" /\ \E q : x = Entry("", q, Content(q))

\* What a scan has left is part of its list, and a round of domain_summary has a target.
LeftOf(p, w) ==
    /\ w \in Scans /\ loc[p].todo # <<>> =>
           IsList(loc[p].todo) /\ Members(loc[p].todo) \subseteq Members(loc[p][With(p)])
    /\ w \in {"exists", "content"} => loc[p].targets # <<>>

\* The next file of a scan is on its list, and so are those that are left then.
LEMMA ScanLeft ==
    ASSUME NEW p \in Proc, Types, NEW w \in Scans, Doing(p, w), LeftOf(p, w),
           IsList(loc[p].targets), IsList(loc[p].found),
           NEW left, left = IF loc[p].todo = <<>> THEN loc[p][With(p)] ELSE loc[p].todo,
           left # <<>>
    PROVE  /\ Head(left) \in Members(loc[p][With(p)])
           /\ IsList(Tail(left)) /\ Members(Tail(left)) \subseteq Members(loc[p][With(p)])
           /\ With(p) \in {"targets", "found"}
<1>1. With(p) \in {"targets", "found"}
  BY InProgram DEF StepFits
<1>2. IsList(left) /\ Members(left) \subseteq Members(loc[p][With(p)])
  <2>1. IsList(loc[p][With(p)])
    BY <1>1
  <2> QED
    BY <2>1 DEF LeftOf
<1> QED
  BY <1>1, <1>2, ListRest

\* An entry of the answer is an old one or a new one; the filter on the answer leaves
\* what may be read, and files without a domain in session_brief.
LEMMA ItemsFrom ==
    ASSUME NEW p \in Proc, Types, Run(p), ~Reply(p), NEW w, Doing(p, w),
           IsList(loc[p].targets), IsList(loc[p].found), LeftOf(p, w)
    PROVE  \A x \in loc'[p].items :
               /\ x \in loc[p].items \/ NewItem(p, w, x)
               /\ w = "hide" => \/ Readable(p, x.path)
                                \/ With(p) = "counts" /\ x.id = ""
<1> DEFINE l == loc[p]
<1>a. DOMAIN l = DOMAIN Locals /\ "items" \in DOMAIN l /\ "todo" \in DOMAIN l
  BY DEF Types, Locals
<1>1. CASE w \notin Scans \cup Sources \cup {"walk", "hide", "below", "changed"}
  <2>1. "items" \in DOMAIN Locals \ Touches(w)
    BY <1>1 DEF Touches, Locals
  <2>2. loc'[p].items = l.items
    BY <2>1, RunTouches DEF Touched
  <2> QED
    BY <1>1, <2>2
<1>b. CASE loc'[p] = l /\ w # "hide"
  BY <1>b
<1>2. CASE w \in Scans
  <2> DEFINE left == IF l.todo = <<>> THEN l[With(p)] ELSE l.todo
             t == Head(left)
             x == Member(t)
             rest == Tail(left)
             xs == IF \/ x.ver = 0 /\ Now(p).do # "countEach"
                      \/ x.path = Marker /\ Now(p).do = "scanNotes"
                   THEN l.items ELSE l.items \cup {x}
  <2>1. ScanNext(p) \/ StoreFails(p)
    BY <1>2, RunDoes DEF Gates, Scans
  <2>2. \/ loc'[p] = l
        \/ Local /\ left # <<>> /\ loc'[p] = [l EXCEPT !.todo = rest, !.items = xs]
    <3>1. \/ GoOn(p, l) \/ Fail(p, "store")
          \/ Local /\ left # <<>> /\ Loop(p, [l EXCEPT !.todo = rest, !.items = xs])
      BY <2>1, Zenon DEF ScanNext, StoreFails
    <3> QED
      BY <3>1, NewLocals, Zenon
  <2>3. CASE Local /\ left # <<>> /\ loc'[p] = [l EXCEPT !.todo = rest, !.items = xs]
    <3>1. t \in Members(l[With(p)])
      <4>1. left # <<>>
        BY <2>3
      <4> QED
        BY <1>2, <4>1, ScanLeft
    <3>2. NewItem(p, w, x)
      BY <1>2, <2>3, <3>1 DEF NewItem
    <3>3. xs \subseteq l.items \cup {x}
      OBVIOUS
    <3> HIDE DEF xs, rest, x, l
    <3>4. loc'[p].items = xs
      BY <1>a, <2>3
    <3>5. w # "hide"
      BY <1>2 DEF Scans
    <3> QED
      BY <3>2, <3>3, <3>4, <3>5 DEF l
  <2>4. w # "hide"
    BY <1>2 DEF Scans
  <2> QED
    BY <1>b, <2>2, <2>3, <2>4
<1>3. CASE w = "open"
  <2> DEFINE x == Entry("", With(p), Content(With(p)))
             xs == l.items \cup {y \in {x} : y.ver # 0}
  <2>1. OpenFile(p) \/ StoreFails(p)
    BY <1>3, RunDoes DEF Gates, Scans
  <2>2. loc'[p] = l \/ (Local /\ loc'[p] = [l EXCEPT !.items = xs])
    <3>1. Fail(p, "store") \/ (Local /\ GoOn(p, [l EXCEPT !.items = xs]))
      BY <2>1, Zenon DEF OpenFile, StoreFails
    <3> QED
      BY <3>1, NewLocals, Zenon
  <2>3. CASE Local /\ loc'[p] = [l EXCEPT !.items = xs]
    <3>1. xs \subseteq l.items \cup {x}
      OBVIOUS
    <3>2. NewItem(p, w, x)
      BY <1>3, <2>3 DEF NewItem
    <3> HIDE DEF xs, x, l
    <3>3. loc'[p].items = xs
      BY <1>a, <2>3
    <3> QED
      BY <1>3, <3>1, <3>2, <3>3 DEF l
  <2> QED
    BY <1>b, <1>3, <2>2, <2>3
<1>4. CASE w \in {"exists", "content"}
  <2> DEFINE t == l.targets[1]
             x == Member(t)
             xs == l.items \cup {x}
             ys == l.items \cup {y \in {x} : y.ver # 0}
  <2>1. CheckExists(p) \/ ReadContent(p)
    BY <1>4, RunDoes DEF Gates, Scans
  <2>2. /\ Local
        /\ loc'[p] = l \/ loc'[p] = [l EXCEPT !.items = xs] \/ loc'[p] = [l EXCEPT !.items = ys]
    <3>1. /\ Local
          /\ \E n : \/ Jump(p, n, l) \/ Jump(p, n, [l EXCEPT !.items = xs])
                    \/ Jump(p, n, [l EXCEPT !.items = ys])
      <4>1. CheckExists(p) => /\ Local
                              /\ \/ Jump(p, -1, l) \/ Jump(p, 1, [l EXCEPT !.items = xs])
                                 \/ Jump(p, -1, [l EXCEPT !.items = xs])
        BY Zenon DEF CheckExists, GoOn
      <4>2. ReadContent(p) => Local /\ Jump(p, -2, [l EXCEPT !.items = ys])
        BY Zenon DEF ReadContent
      <4> QED
        BY <2>1, <4>1, <4>2, Zenon
    <3> QED
      BY <3>1, NewLocals, Zenon
  <2>3. t \in Members(l.targets)
    <3>1. l.targets # <<>>
      BY <1>4 DEF LeftOf
    <3>2. Head(l.targets) \in Members(l.targets)
      BY <3>1, ListRest
    <3>3. l.targets \in Seq(Members(l.targets))
      BY DEF IsList
    <3>4. Head(l.targets) = t
      BY <3>3
    <3> QED
      BY <3>2, <3>4
  <2>4. NewItem(p, w, x)
    BY <1>4, <2>2, <2>3 DEF NewItem
  <2>5. xs \subseteq l.items \cup {x} /\ ys \subseteq l.items \cup {x}
    OBVIOUS
  <2> HIDE DEF xs, ys, x, l
  <2>6. loc'[p].items \in {l.items, xs, ys}
    BY <1>a, <2>2
  <2> QED
    BY <1>4, <2>4, <2>5, <2>6 DEF l
<1>5. CASE w = "report"
  <2> DEFINE xs == Reported(l)
  <2>1. Report(p)
    BY <1>5, RunDoes DEF Gates, Scans
  <2>2. Local /\ loc'[p] = [l EXCEPT !.items = xs]
    BY <2>1, NewLocals, Zenon DEF Report
  <2>3. \A x \in xs : NewItem(p, w, x)
    BY <1>5, <2>2 DEF NewItem, Reported, Members
  <2> HIDE DEF xs, l
  <2>4. loc'[p].items = xs
    BY <1>a, <2>2
  <2> QED
    BY <1>5, <2>3, <2>4 DEF l
<1>6. CASE w = "changed"
  <2> DEFINE ys == {x \in ChangedSince(l) : Readable(p, x.path)}
             xs == l.items \cup ys
  <2>1. ReportChanged(p)
    BY <1>6, RunDoes DEF Gates, Scans
  <2>2. Local /\ loc'[p] = [l EXCEPT !.items = xs]
    BY <2>1, NewLocals, Zenon DEF ReportChanged
  <2>3. \A x \in ys : NewItem(p, w, x)
    BY <1>6, <2>2 DEF NewItem, ChangedSince, Reported, Members
  <2>4. \A x \in xs : x \in l.items \/ NewItem(p, w, x)
    <3> HIDE DEF ys
    <3> QED
      BY <2>3
  <2> HIDE DEF xs, l
  <2>5. loc'[p].items = xs
    BY <1>a, <2>2
  <2> QED
    BY <1>6, <2>4, <2>5 DEF l
<1>7. CASE w = "hide"
  <2> DEFINE xs == {x \in l.items : Readable(p, x.path) \/ (With(p) = "counts" /\ x.id = "")}
  <2>1. Hide(p)
    BY <1>7, RunDoes DEF Gates, Scans
  <2>2. loc'[p] = [l EXCEPT !.items = xs]
    BY <2>1, NewLocals, Zenon DEF Hide
  <2>3. \A x \in xs : x \in l.items /\ (Readable(p, x.path) \/ (With(p) = "counts" /\ x.id = ""))
    OBVIOUS
  <2> HIDE DEF xs, l
  <2>4. loc'[p].items = xs
    BY <1>a, <2>2
  <2> QED
    BY <2>3, <2>4 DEF l
<1>8. CASE w = "below"
  <2> DEFINE s == Picked(l.found, {k \in DOMAIN l.found : Within(l.found[k].path, req[p].path)})
             xs == {x \in l.items : Within(x.path, req[p].path)}
  <2>1. SelectBelow(p)
    BY <1>8, RunDoes DEF Gates, Scans
  <2>2. loc'[p] = [l EXCEPT !.items = xs] \/ loc'[p] = [l EXCEPT !.found = s]
    <3>1. GoOn(p, IF With(p) = "items" THEN [l EXCEPT !.items = xs] ELSE [l EXCEPT !.found = s])
      BY <2>1, Zenon DEF SelectBelow
    <3> QED
      BY <3>1, NewLocals
  <2>3. xs \subseteq l.items
    OBVIOUS
  <2> HIDE DEF s, xs, l
  <2>4. loc'[p].items = l.items \/ loc'[p].items = xs
    BY <1>a, <2>2
  <2> QED
    BY <1>8, <2>3, <2>4 DEF l
<1>9. CASE w = "walk"
  <2> DEFINE n == Head(l.todo)
             x == Entry("", n, Content(n))
             rest == Tail(l.todo)
             more == Entries(n) \o rest
             m == [l EXCEPT !.todo = rest]
  <2>1. VisitNext(p)
    BY <1>9, RunDoes DEF Gates, Scans
  <2>2. /\ Local
        /\ \/ loc'[p] = [l EXCEPT !.todo = more]
           \/ loc'[p] = Visit(With(p), m, n)
    <3>1. /\ Local
          /\ \/ Loop(p, [l EXCEPT !.todo = more])
             \/ Loop(p, Visit(With(p), m, n))
      BY <2>1, Zenon DEF VisitNext
    <3> QED
      BY <3>1, NewLocals, Zenon
  <2>3. CASE loc'[p] = [l EXCEPT !.todo = more]
    <3> HIDE DEF more, l
    <3>1. loc'[p].items = l.items
      BY <1>a, <2>3
    <3> QED
      BY <1>9, <3>1 DEF l
  <2>4. CASE loc'[p] = Visit(With(p), m, n)
    <3>1. m.items = l.items /\ "items" \in DOMAIN m
      <4> HIDE DEF l, rest
      <4> QED
        BY <1>a
    <3>2. \/ loc'[p].items = l.items
          \/ With(p) # "collect" /\ loc'[p].items = l.items \cup {x}
      <4>1. CASE With(p) # "collect"
        <5>1. loc'[p] = m \/ loc'[p] = [m EXCEPT !.items = m.items \cup {x}]
          BY <2>4, <4>1 DEF Visit
        <5> HIDE DEF m, x, l
        <5> QED
          BY <3>1, <4>1, <5>1
      <4>2. CASE With(p) = "collect"
        <5>1. loc'[p] = m \/ \E i : loc'[p] = [m EXCEPT !.found = i]
          BY <2>4, <4>2 DEF Visit
        <5> HIDE DEF m, x, l
        <5> QED
          BY <3>1, <5>1
      <4> QED
        BY <4>1, <4>2
    <3>3. With(p) # "collect" => NewItem(p, w, x)
      BY <1>9, <2>2 DEF NewItem
    <3> HIDE DEF x
    <3> QED
      BY <1>9, <3>2, <3>3
  <2> QED
    BY <2>2, <2>3, <2>4
<1> QED
  BY <1>1, <1>2, <1>3, <1>4, <1>5, <1>6, <1>7, <1>8, <1>9 DEF Sources

\* Where the domains of an answer come from.
LEMMA DomsFrom ==
    ASSUME NEW p \in Proc, Types, SharedOK, Run(p), ~Reply(p), NEW w, Doing(p, w)
    PROVE  \/ loc'[p].doms = loc[p].doms
           \/ Query(p) /\ \A k \in DOMAIN loc'[p].doms : loc'[p].doms[k] \in Domains(reg)
<1> DEFINE l == loc[p]
<1>1. CASE w # "domains"
  <2>1. "doms" \in DOMAIN Locals \ Touches(w)
    BY <1>1 DEF Touches, Locals
  <2> QED
    BY <2>1, RunTouches DEF Touched
<1>2. CASE w = "domains"
  <2> DEFINE I == {i \in DOMAIN reg : CASE With(p) = "all" -> TRUE
                                         [] With(p) = "top" -> Readable(p, reg[i].top)
                                         [] OTHER -> Readable(p, reg[i].path)}
             ds == Picked(reg, I)
  <2>1. ListDomains(p)
    BY <1>2, RunDoes DEF Gates, Scans
  <2>2. Query(p) /\ loc'[p] = [l EXCEPT !.doms = ds]
    BY <2>1, NewLocals, Zenon DEF ListDomains
  <2>3. I \subseteq DOMAIN reg /\ IsList(reg)
    BY HandlersAssumption DEF SharedOK, IsList, Members, Domains
  <2> HIDE DEF I
  <2> PICK m : m = reg
    OBVIOUS
  <2>4. IsList(ds) /\ Members(ds) \subseteq {m[i] : i \in I}
    BY <2>3, ListPick
  <2>5. \A k \in DOMAIN ds : ds[k] \in Domains(m)
    BY <2>3, <2>4 DEF Domains, Members
  <2>6. "doms" \in DOMAIN l
    BY DEF Types, Locals
  <2> HIDE DEF ds, l
  <2>7. loc'[p].doms = ds
    BY <2>2, <2>6
  <2> QED
    BY <2>2, <2>5, <2>7
<1> QED
  BY <1>1, <1>2
--------------------------------------------------------------------------------
\* What history h says of a file or a target x: x is as it was at some time, and a
\* domain it is given with declares it in a registry of the time.
Seen(h, x) == x.ver \in IF x.path \in Path THEN h.past[x.path] ELSE {0}
Named(h, x) == x.id # "" => \E m \in h.regs : \E d \in Domains(m) :
                   d.id = x.id /\ Parent(x.path) = d.path /\ Declares(d, Base(x.path))

\* What local variables l are sound after history h.
SoundBy(l, h) ==
    /\ IsList(l.targets) /\ \A t \in Members(l.targets) : Named(h, t)
    /\ IsList(l.found) /\ \A x \in Members(l.found) : Seen(h, x) /\ x.id = ""
    /\ \A x \in l.items : Seen(h, x) /\ Named(h, x)
    /\ \A k \in DOMAIN l.doms : \E m \in h.regs : l.doms[k] \in Domains(m)

\* Nothing is unsound at the start of a request, and a longer history contradicts nothing.
LEMMA LocalsSound == \A h : SoundBy(Locals, h)
<1> TAKE h
<1>1. /\ Locals.targets = <<>> /\ Locals.found = <<>> /\ Locals.items = {}
      /\ Locals.doms = <<>>
  BY DEF Locals
<1>2. DOMAIN <<>> = {}
  OBVIOUS
<1> QED
  BY <1>1, <1>2, ListFew DEF SoundBy

\* History g goes on from h.
Longer(h, g) == h.regs \subseteq g.regs /\ \A q \in Path : h.past[q] \subseteq g.past[q]

\* What h bears out g bears out.
LEMMA LongerHistory ==
    ASSUME NEW h, NEW g, Longer(h, g)
    PROVE  /\ \A x : /\ Seen(h, x) => Seen(g, x)
                     /\ Named(h, x) => Named(g, x)
           /\ \A l : SoundBy(l, h) => SoundBy(l, g)
<1>1. \A x : Seen(h, x) => Seen(g, x)
  BY DEF Longer, Seen
<1>2. \A x : Named(h, x) => Named(g, x)
  BY DEF Longer, Named
<1>3. ASSUME NEW l, SoundBy(l, h)
      PROVE  SoundBy(l, g)
  BY <1>1, <1>2, <1>3 DEF SoundBy, Longer
<1> QED
  BY <1>1, <1>2, <1>3

\* The history of a running request gets longer, to the files and the manifest there
\* are now.
LEMMA HistoryGrows ==
    ASSUME NEW p \in Proc, Observe, at'[p] # 0
    PROVE  /\ Longer(during[p], during'[p])
           /\ Query(p) => reg \in during'[p].regs
           /\ UNCHANGED tree => \A q : (q \in Path => Content(q) \in during'[p].past[q])
                                       /\ (q \notin Path => Content(q) = 0)
<1>1. Longer(during[p], during'[p])
  BY Remembered, PastGrows DEF Longer
<1>2. ASSUME Query(p)
      PROVE  reg \in during'[p].regs
  <2>1. reg' = reg
    BY <1>2 DEF Query
  <2> QED
    BY <2>1, Remembered
<1>3. ASSUME UNCHANGED tree, NEW q
      PROVE  /\ q \in Path => Content(q) \in during'[p].past[q]
             /\ q \notin Path => Content(q) = 0
  BY <1>3, PastGrows DEF Content
<1> QED
  BY <1>1, <1>2, <1>3

\* What is read now is seen.
LEMMA ReadNow ==
    ASSUME NEW p \in Proc, Observe, at'[p] # 0, UNCHANGED tree
    PROVE  /\ \A q : LET x == Entry("", q, Content(q)) IN Seen(during'[p], x) /\ x.id = ""
           /\ \A t : /\ Seen(during'[p], Member(t))
                     /\ Member(t).id = t.id /\ Member(t).path = t.path
                     /\ Named(during'[p], t) => Named(during'[p], Member(t))
<1>1. \A q, id : Seen(during'[p], Entry(id, q, Content(q)))
  BY HistoryGrows DEF Seen, Entry
<1>2. \A q, id, v : Entry(id, q, v).id = id /\ Entry(id, q, v).path = q
  BY DEF Entry
<1>3. ASSUME NEW t
      PROVE  /\ Seen(during'[p], Member(t))
             /\ Member(t).id = t.id /\ Member(t).path = t.path
             /\ Named(during'[p], t) => Named(during'[p], Member(t))
  <2> DEFINE g == during'[p]
             x == Member(t)
  <2>1. Seen(g, x) /\ x.id = t.id /\ x.path = t.path
    BY <1>1, <1>2 DEF Member
  <2> HIDE DEF g, x
  <2>2. Named(g, t) => Named(g, x)
    BY <2>1 DEF Named
  <2> QED
    BY <2>1, <2>2 DEF g, x
<1>4. \A q : LET x == Entry("", q, Content(q)) IN Seen(during'[p], x) /\ x.id = ""
  BY <1>1, <1>2
<1> QED
  BY <1>3, <1>4, Zenon

\* A target that a registry of the time names is named.
LEMMA TargetNamed ==
    ASSUME NEW h, NEW m \in h.regs, m \in Manifests, NEW t, FromManifest(m, t)
    PROVE  Named(h, t)
<1>1. PICK d \in Domains(m) : \E file : Declares(d, file) /\ t = Target(d, file)
  BY DEF FromManifest
<1>2. PICK file : Declares(d, file) /\ t = Target(d, file)
  BY <1>1
<1>3. t.id = d.id /\ t.path = Append(d.path, file)
  BY <1>2 DEF Target
<1>4. PICK s : s = d.path
  OBVIOUS
<1>5. PICK S : s \in Seq(S)
  BY <1>4, HandlersAssumption
<1>6. Parent(Append(s, file)) = s /\ Base(Append(s, file)) = file
  <2>1. /\ Len(Append(s, file)) = Len(s) + 1 /\ Len(s) \in Nat
        /\ Append(s, file)[Len(s) + 1] = file
    BY <1>5
  <2>2. SubSeq(Append(s, file), 1, Len(s)) = s
    BY <1>5
  <2> QED
    BY <2>1, <2>2 DEF Parent, Base
<1> QED
  BY <1>2, <1>3, <1>4, <1>6 DEF Named

\* Each step of a request keeps its local variables sound.
LEMMA StepSound ==
    ASSUME NEW p \in Proc, Types, SharedOK, Observe, at'[p] # 0,
           Run(p), ~Reply(p), NEW w, Doing(p, w), SoundBy(loc[p], during[p]), LeftOf(p, w)
    PROVE  SoundBy(loc'[p], during'[p])
<1> DEFINE l == loc[p]
           g == during'[p]
<1>1. SoundBy(l, g)
  BY HistoryGrows, LongerHistory
<1>2. IsList(l.targets) /\ IsList(l.found)
  BY DEF SoundBy
<1>3. reg \in Manifests
  BY DEF SharedOK
<1>4. Local => UNCHANGED tree
  BY DEF Local, files
<1>5. IsList(loc'[p].targets) /\ \A t \in Members(loc'[p].targets) : Named(g, t)
  <2>1. /\ IsList(loc'[p].targets)
        /\ \A t \in Members(loc'[p].targets) : t \in Members(l.targets) \/ NewTarget(p, w, t)
    BY <1>2, TargetsFrom
  <2>2. ASSUME NEW t, NewTarget(p, w, t)
        PROVE  Named(g, t)
    <3>1. CASE t.id = ""
      BY <3>1 DEF Named
    <3>2. CASE FromManifest(reg, t) /\ Query(p)
      <4>1. reg \in g.regs
        BY <3>2, HistoryGrows
      <4> HIDE DEF g
      <4> PICK m \in Manifests : m = reg
        BY <1>3
      <4> QED
        BY <3>2, <4>1, TargetNamed
    <3> QED
      BY <2>2, <3>1, <3>2 DEF NewTarget
  <2>3. \A t \in Members(l.targets) : Named(g, t)
    BY <1>1 DEF SoundBy
  <2> QED
    BY <2>1, <2>2, <2>3
<1>6. IsList(loc'[p].found) /\ \A x \in Members(loc'[p].found) : Seen(g, x) /\ x.id = ""
  <2>1. /\ IsList(loc'[p].found)
        /\ \A x \in Members(loc'[p].found) :
               \/ x \in Members(l.found)
               \/ Local /\ \E q : x = Entry("", q, Content(q))
    BY <1>2, FoundFrom
  <2>2. \A x \in Members(l.found) : Seen(g, x) /\ x.id = ""
    BY <1>1 DEF SoundBy
  <2>3. Local => \A q : Seen(g, Entry("", q, Content(q))) /\ Entry("", q, Content(q)).id = ""
    BY <1>4, ReadNow
  <2> QED
    BY <2>1, <2>2, <2>3
<1>7. \A x \in loc'[p].items : Seen(g, x) /\ Named(g, x)
  <2>1. \A x \in loc'[p].items : x \in l.items \/ NewItem(p, w, x)
    BY <1>2, ItemsFrom
  <2>2. \A x \in l.items : Seen(g, x) /\ Named(g, x)
    BY <1>1 DEF SoundBy
  <2>3. ASSUME NEW x, NewItem(p, w, x)
        PROVE  Seen(g, x) /\ Named(g, x)
    <3>1. Local /\ UNCHANGED tree
      BY <1>4, <2>3 DEF NewItem
    <3>2. CASE \E q : x = Entry("", q, Content(q))
      <4>1. Seen(g, x) /\ x.id = ""
        BY <3>1, <3>2, ReadNow
      <4> QED
        BY <4>1 DEF Named
    <3>3. CASE x \in Members(l.found)
      BY <1>1, <3>3 DEF SoundBy, Named
    <3>4. ASSUME NEW t, x = Member(t), Named(g, t)
          PROVE  Seen(g, x) /\ Named(g, x)
      BY <3>1, <3>4, ReadNow
    <3>5. \A t \in Members(l.targets) \cup Members(l.found) : Named(g, t)
      BY <1>1 DEF SoundBy, Named
    <3>6. w \in Scans => With(p) \in {"targets", "found"}
      BY InProgram DEF StepFits
    <3> QED
      BY <2>3, <3>2, <3>3, <3>4, <3>5, <3>6 DEF NewItem
  <2> QED
    BY <2>1, <2>2, <2>3
<1>8. \A k \in DOMAIN loc'[p].doms : \E m \in g.regs : loc'[p].doms[k] \in Domains(m)
  <2>1. CASE loc'[p].doms = l.doms
    BY <1>1, <2>1 DEF SoundBy
  <2>2. CASE Query(p) /\ \A k \in DOMAIN loc'[p].doms : loc'[p].doms[k] \in Domains(reg)
    <3>1. reg \in g.regs
      BY <2>2, HistoryGrows
    <3> QED
      BY <2>2, <3>1
  <2> QED
    BY <2>1, <2>2, DomsFrom
<1> QED
  BY <1>5, <1>6, <1>7, <1>8 DEF SoundBy
--------------------------------------------------------------------------------
\* The steps that are taken several times.
Loops == Scans \cup {"walk", "add", "resolveEach"}

\* Where a step takes its handler.
LEMMA Moved ==
    ASSUME NEW p \in Proc, Types
    PROVE  /\ \A n, l : Jump(p, n, l) => at'[p] = at[p] + n
           /\ \A l : GoOn(p, l) => at'[p] = at[p] + 1
           /\ \A l : Loop(p, l) => \/ loc'[p].todo = <<>> /\ at'[p] = at[p] + 1
                                   \/ loc'[p].todo # <<>> /\ at'[p] = at[p]
           /\ \A c : Fail(p, c) => code'[p] = c
<1>1. \A n, l : Jump(p, n, l) => at'[p] = at[p] + n
  BY DEF Jump, Types
<1>2. \A l : GoOn(p, l) => at'[p] = at[p] + 1
  BY <1>1 DEF GoOn
<1>3. ASSUME NEW l, Loop(p, l)
      PROVE  \/ loc'[p].todo = <<>> /\ at'[p] = at[p] + 1
             \/ loc'[p].todo # <<>> /\ at'[p] = at[p]
  <2>1. loc'[p] = l /\ at'[p] = at[p] + IF l.todo = <<>> THEN 1 ELSE 0
    BY <1>1, <1>3, NewLocals DEF Loop
  <2>2. at[p] \in Int
    BY DEF Types
  <2> QED
    BY <2>1, <2>2
<1>4. \A c : Fail(p, c) => code'[p] = c
  BY DEF Fail, Types
<1> QED
  BY <1>1, <1>2, <1>3, <1>4

\* On to the next step, unless it is a loop, or one of the few that jump.
Hops(p, w) ==
    \/ /\ at'[p] = at[p] + 1 /\ w # "content"
       /\ w \in Loops => loc'[p].todo = <<>>
       /\ w = "nextFile" => loc'[p].targets # <<>>
    \/ at'[p] = at[p] /\ w \in Loops \cup {"nextFile"}
    \/ at'[p] = at[p] + 2 /\ w \in {"enter", "entities"} /\ loc'[p] = loc[p]
    \/ at'[p] = at[p] + 3 /\ w = "nextFile"
    \/ at'[p] = at[p] - 1 /\ w = "exists"
    \/ at'[p] = at[p] - 2 /\ w = "content"

\* Each step of a request that does not fail hops.
LEMMA RunHops ==
    ASSUME NEW p \in Proc, Types, Run(p), ~Reply(p), NEW w, Doing(p, w), code'[p] = "none"
    PROVE  Hops(p, w)
<1> DEFINE l == loc[p]
<1>0. \A c \in {"invalid", "denied", "store"} : ~Fail(p, c)
  BY Moved
<1>a. DOMAIN l = DOMAIN Locals /\ at[p] \in Int
  BY DEF Types
<1>1. CASE /\ w \notin Loops \cup {"nextFile", "content"}
           /\ \E m : GoOn(p, m)
  BY <1>1, Moved DEF Hops
<1>2. CASE w \notin Loops \cup {"nextFile", "exists", "content", "enter", "entities"}
  <2>1. \/ CheckParams(p) \/ CheckMessage(p) \/ PassGate(p) \/ GetDomain(p) \/ ResolveFile(p)
        \/ ListTargets(p) \/ ListDomains(p) \/ FindOwner(p) \/ CheckMisplaced(p) \/ OpenFile(p)
        \/ StoreFails(p) \/ Permit(p) \/ Hide(p) \/ SelectBelow(p) \/ Report(p) \/ AddRoots(p)
        \/ StatMarker(p) \/ ReportChanged(p) \/ SaveFile(p) \/ MoveFile(p) \/ RefuseChange(p)
        \/ StageFiles(p) \/ Commit(p)
    BY <1>2, RunDoes DEF Loops
  <2>2. \/ \E m : GoOn(p, m)
        \/ \E c \in {"invalid", "denied", "store"} : Fail(p, c)
    <3>1. CASE GetDomain(p)
      <4>1. With(p) \in {"invalid", "store"}
        BY <3>1, ActsDo, InProgram DEF StepFits
      <4>2. (\E m : GoOn(p, m)) \/ Fail(p, With(p))
        BY <3>1, Zenon DEF GetDomain
      <4> QED
        BY <4>1, <4>2
    <3>2. CASE ~GetDomain(p)
      <4>1. (\E m : GoOn(p, m)) \/ Fail(p, "invalid") \/ Fail(p, "denied") \/ Fail(p, "store")
        BY <2>1, <3>2, Zenon DEF CheckParams, CheckMessage, PassGate, ResolveFile,
           ListTargets, ListDomains, FindOwner, CheckMisplaced, OpenFile, StoreFails,
           Permit, Hide, SelectBelow, Report, AddRoots, StatMarker, ReportChanged,
           SaveFile, MoveFile, RefuseChange, StageFiles, Commit
      <4> QED
        BY <4>1
    <3> QED
      BY <3>1, <3>2
  <2> QED
    BY <1>0, <1>1, <1>2, <2>2
<1>3. CASE w \in Loops
  <2>1. CASE w = "resolveEach"
    <3> DEFINE left == IF l.todo = <<>> THEN Thrice(l.doms) ELSE l.todo
    <3>1. ResolveEach(p)
      BY <2>1, RunDoes DEF Gates, Scans
    <3>2. (left = <<>> /\ GoOn(p, l)) \/ \E m : Loop(p, m)
      BY <3>1, Zenon DEF ResolveEach
    <3>3. left = <<>> => l.todo = <<>>
      OBVIOUS
    <3> QED
      BY <1>3, <2>1, <3>2, <3>3, Moved, NewLocals DEF Hops
  <2>2. CASE w \in Scans
    <3> DEFINE left == IF l.todo = <<>> THEN l[With(p)] ELSE l.todo
    <3>1. ScanNext(p) \/ StoreFails(p)
      BY <2>2, RunDoes DEF Gates, Scans
    <3>2. \/ left = <<>> /\ GoOn(p, l)
          \/ \E m : Loop(p, m)
          \/ Fail(p, "store")
      BY <3>1, Zenon DEF ScanNext, StoreFails
    <3>3. left = <<>> => l.todo = <<>>
      OBVIOUS
    <3>4. w \notin {"content", "nextFile"}
      BY <2>2 DEF Scans
    <3> QED
      BY <1>0, <1>3, <3>2, <3>3, <3>4, Moved, NewLocals DEF Hops
  <2>3. CASE w = "walk"
    <3>1. VisitNext(p)
      BY <2>3, RunDoes DEF Gates, Scans
    <3>2. \E m : Loop(p, m)
      BY <3>1, Zenon DEF VisitNext
    <3> QED
      BY <1>3, <2>3, <3>2, Moved DEF Hops
  <2>4. CASE w = "add"
    <3>1. AddFile(p)
      BY <2>4, RunDoes DEF Gates, Scans
    <3>2. (l.todo = <<>> /\ GoOn(p, l)) \/ \E m : Loop(p, m)
      BY <3>1, Zenon DEF AddFile
    <3> QED
      BY <1>3, <2>4, <3>2, Moved, NewLocals DEF Hops
  <2> QED
    BY <1>3, <2>1, <2>2, <2>3, <2>4 DEF Loops
<1>4. CASE w = "nextFile"
  <2> DEFINE id == l.dom[1].id
             file == l.dom[1].files[l.i + 1]
             t == Target(Get(reg, id), file)
             n == l.i + 1
             next == [l EXCEPT !.i = n]
             ts == <<t>>
  <2>1. NextFile(p)
    BY <1>4, RunDoes DEF Gates, Scans
  <2>2. Jump(p, 3, l) \/ GoOn(p, [next EXCEPT !.targets = ts]) \/ Jump(p, 0, next)
    BY <2>1, Zenon DEF NextFile
  <2>3. CASE GoOn(p, [next EXCEPT !.targets = ts])
    <3>1. loc'[p] = [next EXCEPT !.targets = ts]
      BY <2>3, NewLocals, Zenon
    <3>2. "targets" \in DOMAIN l
      BY <1>a DEF Locals
    <3> HIDE DEF ts, l, n
    <3>3. loc'[p].targets = ts
      BY <3>1, <3>2
    <3>4. ts # <<>>
      BY DEF ts
    <3>5. at'[p] = at[p] + 1
      BY <2>3, Moved
    <3>6. w \notin Loops
      BY <1>4 DEF Loops, Scans
    <3> QED
      BY <1>4, <3>3, <3>4, <3>5, <3>6 DEF Hops
  <2>4. CASE Jump(p, 3, l)
    BY <1>4, <2>4, Moved DEF Hops
  <2>5. CASE Jump(p, 0, next)
    BY <1>4, <1>a, <2>5, Moved DEF Hops
  <2> QED
    BY <2>2, <2>3, <2>4, <2>5
<1>5. CASE w = "exists"
  <2>1. CheckExists(p)
    BY <1>5, RunDoes DEF Gates, Scans
  <2>2. (\E m : GoOn(p, m)) \/ \E m : Jump(p, -1, m)
    BY <2>1, Zenon DEF CheckExists
  <2>3. w \notin Loops
    BY <1>5 DEF Loops, Scans
  <2>4. (\E m : Jump(p, -1, m)) => at'[p] = at[p] - 1
    BY <1>a, Moved
  <2> QED
    BY <1>1, <1>5, <2>2, <2>3, <2>4 DEF Hops
<1>6. CASE w = "content"
  <2>1. ReadContent(p)
    BY <1>6, RunDoes DEF Gates, Scans
  <2>2. \E m : Jump(p, -2, m)
    BY <2>1, Zenon DEF ReadContent
  <2>3. at'[p] = at[p] - 2
    BY <1>a, <2>2, Moved
  <2> QED
    BY <1>6, <2>3 DEF Hops
<1>7. CASE w \in {"enter", "entities"}
  <2>1. EnterDir(p) \/ FindEntities(p)
    BY <1>7, RunDoes DEF Gates, Scans
  <2>2. (\E m : GoOn(p, m)) \/ Jump(p, 2, l)
    BY <2>1, Zenon DEF EnterDir, FindEntities
  <2>3. w \notin Loops
    BY <1>7 DEF Loops, Scans
  <2>4. Jump(p, 2, l) => at'[p] = at[p] + 2 /\ loc'[p] = l
    BY Moved, NewLocals
  <2> QED
    BY <1>1, <1>7, <2>2, <2>3, <2>4 DEF Hops
<1> QED
  BY <1>2, <1>3, <1>4, <1>5, <1>6, <1>7

\* What a loop has left belongs to the step that is being taken, of program s at n.
LeftBy(s, n, l) ==
    /\ l.todo # <<>> =>
           /\ n \in DOMAIN s /\ s[n].do \in Loops
           /\ s[n].do \in Scans => /\ IsList(l.todo)
                                   /\ Members(l.todo) \subseteq Members(l[s[n].with])
    /\ n \in DOMAIN s /\ s[n].do \in {"exists", "content"} => l.targets # <<>>

\* So it is after each step.
LEMMA StepLeaves ==
    ASSUME NEW p \in Proc, Types, Run(p), ~Reply(p), NEW w, Doing(p, w), code'[p] = "none",
           IsList(loc[p].targets), IsList(loc[p].found),
           NEW s, s = Handler[req[p]], LeftBy(s, at[p], loc[p])
    PROVE  LeftOf(p, w) /\ LeftBy(s, at'[p], loc'[p])
<1> DEFINE l == loc[p]
           k == at[p]
<1>1. /\ k \in 1 .. Len(s) /\ Len(s) \in Nat /\ DOMAIN s = 1 .. Len(s)
      /\ StepFits(s, k) /\ s[k].do = w /\ s[k].with = With(p)
  BY InProgram
<1>2. LeftOf(p, w)
  BY <1>1 DEF LeftBy, LeftOf
<1>3. Hops(p, w)
  BY RunHops
<1>4. \A j \in DOMAIN s : StepFits(s, j)
  <2>1. s = Program(req[p])
    BY DEF Types, Handler
  <2> QED
    BY <2>1, ProgramFits DEF Fits
<1>5. w \notin Loops \cup {"enter", "stage"} => loc'[p].todo = l.todo /\ l.todo = <<>>
  <2> SUFFICES ASSUME w \notin Loops \cup {"enter", "stage"}
               PROVE  loc'[p].todo = l.todo /\ l.todo = <<>>
    OBVIOUS
  <2>1. "todo" \in DOMAIN Locals \ Touches(w)
    BY DEF Touches, Locals, Loops, Fillers
  <2>2. l.todo = <<>>
    BY <1>1 DEF LeftBy
  <2> QED
    BY <2>1, <2>2, RunTouches DEF Touched
<1>6. w \in {"enter", "stage"} => l.todo = <<>>
  BY <1>1 DEF LeftBy, Loops, Scans
<1>7. ASSUME loc'[p].todo # <<>>
      PROVE  /\ at'[p] \in DOMAIN s /\ s[at'[p]].do \in Loops
             /\ s[at'[p]].do \in Scans =>
                    /\ IsList(loc'[p].todo)
                    /\ Members(loc'[p].todo) \subseteq Members(loc'[p][s[at'[p]].with])
  <2>1. CASE w \in {"enter", "stage"}
    <3>1. at'[p] = k + 1
      <4>1. ~(at'[p] = k + 2 /\ loc'[p] = l)
        BY <1>6, <1>7, <2>1
      <4> QED
        BY <1>3, <2>1, <4>1 DEF Hops, Loops, Scans
    <3>2. k + 1 \in DOMAIN s /\ s[k + 1].do \in {"walk", "add"}
      BY <1>1, <2>1 DEF StepFits
    <3> QED
      BY <3>1, <3>2 DEF Loops, Scans
  <2>2. CASE w \in Loops
    <3>1. at'[p] = k
      BY <1>3, <1>7, <2>2 DEF Hops, Loops, Scans
    <3>2. CASE w \in Scans
      <4> DEFINE left == IF l.todo = <<>> THEN l[With(p)] ELSE l.todo
                 rest == Tail(left)
      <4>1. ScanNext(p) \/ StoreFails(p)
        BY <3>2, RunDoes DEF Gates, Scans
      <4>2. \/ loc'[p] = l
            \/ left # <<>> /\ \E xs : loc'[p] = [l EXCEPT !.todo = rest, !.items = xs]
        <5>1. \/ GoOn(p, l) \/ Fail(p, "store")
              \/ left # <<>> /\ \E xs : Loop(p, [l EXCEPT !.todo = rest, !.items = xs])
          BY <4>1, Zenon DEF ScanNext, StoreFails
        <5> QED
          BY <5>1, NewLocals, Zenon
      <4>3. CASE loc'[p] = l
        BY <1>1, <1>2, <1>7, <2>2, <3>1, <3>2, <4>3 DEF LeftOf
      <4>4. CASE left # <<>> /\ \E xs : loc'[p] = [l EXCEPT !.todo = rest, !.items = xs]
        <5>1. /\ IsList(rest) /\ Members(rest) \subseteq Members(l[With(p)])
              /\ With(p) \in {"targets", "found"}
          BY <1>2, <3>2, <4>4, ScanLeft
        <5> HIDE DEF rest, l
        <5>2. loc'[p].todo = rest /\ loc'[p][With(p)] = l[With(p)]
          <6>1. {"todo", "items", "targets", "found"} \subseteq DOMAIN l
            BY DEF Types, Locals, l
          <6> QED
            BY <4>4, <5>1, <6>1
        <5> QED
          BY <1>1, <2>2, <3>1, <5>1, <5>2
      <4> QED
        BY <4>2, <4>3, <4>4
    <3>3. CASE w \notin Scans
      BY <1>1, <2>2, <3>1, <3>3
    <3> QED
      BY <3>2, <3>3
  <2> QED
    BY <1>5, <1>7, <2>1, <2>2
<1>8. ASSUME at'[p] \in DOMAIN s, s[at'[p]].do \in {"exists", "content"}
      PROVE  loc'[p].targets # <<>>
  <2> DEFINE n == at'[p]
  <2>1. StepFits(s, n) /\ n \in Int
    BY <1>1, <1>4, <1>8
  <2>2. CASE s[n].do = "exists"
    <3>1. n - 1 \in DOMAIN s /\ s[n - 1].do = "nextFile"
      BY <2>1, <2>2 DEF StepFits
    <3>2. w = "nextFile" /\ n = k + 1
      <4>1. CASE n = k + 1
        <5>1. n - 1 = k
          BY <1>1, <4>1
        <5> QED
          BY <1>1, <3>1, <4>1, <5>1
      <4>2. CASE n = k
        <5>1. n # k + 1
          BY <1>1, <4>2
        <5>2. w = "exists" /\ k \in Int
          BY <1>1, <2>2, <4>2
        <5> QED
          BY <1>3, <4>2, <5>1, <5>2 DEF Hops, Loops, Scans
      <4>3. CASE n = k + 2 /\ w \in {"enter", "entities"}
        <5>1. s[k + 1].do \in {"walk", "scanNotes"} /\ k + 1 = n - 1
          BY <1>1, <4>3 DEF StepFits
        <5> QED
          BY <3>1, <5>1
      <4>4. CASE n = k + 3 /\ w = "nextFile"
        <5>1. s[k + 2].do = "content" /\ k + 2 = n - 1
          BY <1>1, <4>4 DEF StepFits
        <5> QED
          BY <3>1, <5>1
      <4>5. CASE n = k - 1 /\ w = "exists"
        <5>1. s[k - 1].do = "nextFile"
          BY <1>1, <4>5 DEF StepFits
        <5> QED
          BY <2>2, <4>5, <5>1
      <4>6. CASE n = k - 2 /\ w = "content"
        <5>1. s[k - 2].do = "nextFile"
          BY <1>1, <4>6 DEF StepFits
        <5> QED
          BY <2>2, <4>6, <5>1
      <4> QED
        BY <1>3, <4>1, <4>2, <4>3, <4>4, <4>5, <4>6 DEF Hops
    <3> QED
      BY <1>1, <1>3, <3>2 DEF Hops
  <2>3. CASE s[n].do = "content"
    <3>1. n - 1 \in DOMAIN s /\ s[n - 1].do = "exists"
      BY <2>1, <2>3 DEF StepFits
    <3>2. w = "exists"
      <4>1. CASE n = k + 1
        <5>1. n - 1 = k
          BY <1>1, <4>1
        <5> QED
          BY <1>1, <3>1, <4>1, <5>1
      <4>2. CASE n = k
        BY <1>1, <1>3, <2>3, <4>2 DEF Hops, Loops, Scans
      <4>3. CASE n = k + 2 /\ w \in {"enter", "entities"}
        <5>1. s[k + 1].do \in {"walk", "scanNotes"} /\ k + 1 = n - 1
          BY <1>1, <4>3 DEF StepFits
        <5> QED
          BY <3>1, <5>1
      <4>4. CASE n = k + 3 /\ w = "nextFile"
        <5>1. s[k + 2].do = "content" /\ k + 2 = n - 1
          BY <1>1, <4>4 DEF StepFits
        <5> QED
          BY <3>1, <5>1
      <4>5. CASE n = k - 1 /\ w = "exists"
        BY <4>5
      <4>6. CASE n = k - 2 /\ w = "content"
        <5>1. s[k - 2].do = "nextFile"
          BY <1>1, <4>6 DEF StepFits
        <5> QED
          BY <2>3, <4>6, <5>1
      <4> QED
        BY <1>3, <4>1, <4>2, <4>3, <4>4, <4>5, <4>6 DEF Hops
    <3>3. "targets" \in DOMAIN Locals \ Touches(w)
      BY <3>2 DEF Touches, Locals, Fillers
    <3>4. loc'[p].targets = l.targets
      BY <3>3, RunTouches DEF Touched
    <3> QED
      BY <1>2, <3>2, <3>4 DEF LeftOf
  <2> QED
    BY <1>8, <2>2, <2>3
<1> QED
  BY <1>2, <1>7, <1>8 DEF LeftBy
--------------------------------------------------------------------------------
\* Program s only takes steps of D, walks to collect, and scans lists of V.
DoesStep(x, D, V) ==
    /\ x.do \in D
    /\ x.do = "walk" => x.with = "collect"
    /\ x.do \in Scans => x.with \in V
Does(s, D, V) == (\E S : s \in Seq(S)) /\ \A k \in DOMAIN s : DoesStep(s[k], D, V)

\* Two programs one after the other.
LEMMA Joined ==
    ASSUME NEW s, NEW t, \E S : s \in Seq(S), \E S : t \in Seq(S)
    PROVE  /\ \E S : s \o t \in Seq(S)
           /\ Len(s) \in Nat /\ Len(t) \in Nat /\ Len(s \o t) = Len(s) + Len(t)
           /\ DOMAIN s = 1 .. Len(s) /\ DOMAIN t = 1 .. Len(t)
           /\ DOMAIN (s \o t) = 1 .. (Len(s) + Len(t))
           /\ \A k \in 1 .. Len(s) : (s \o t)[k] = s[k]
           /\ \A k \in 1 .. Len(t) : (s \o t)[Len(s) + k] = t[k]
<1>1. PICK S : s \in Seq(S)
  OBVIOUS
<1>2. PICK T : t \in Seq(T)
  OBVIOUS
<1>3. s \in Seq(S \cup T) /\ t \in Seq(S \cup T)
  BY <1>1, <1>2
<1>4. s \o t \in Seq(S \cup T)
  BY <1>3
<1> QED
  BY <1>3, <1>4

\* Where a step of two programs, one after the other, comes from.
LEMMA JoinedAt ==
    ASSUME NEW s, NEW t, \E S : s \in Seq(S), \E S : t \in Seq(S), NEW k \in DOMAIN (s \o t)
    PROVE  \/ k \in DOMAIN s /\ k <= Len(s) /\ (s \o t)[k] = s[k]
           \/ /\ k > Len(s) /\ k - Len(s) \in DOMAIN t
              /\ (s \o t)[k] = t[k - Len(s)]
<1> DEFINE u == s \o t
<1>1. /\ Len(s) \in Nat /\ Len(t) \in Nat
      /\ DOMAIN s = 1 .. Len(s) /\ DOMAIN t = 1 .. Len(t) /\ DOMAIN u = 1 .. (Len(s) + Len(t))
      /\ \A i \in 1 .. Len(s) : u[i] = s[i]
      /\ \A i \in 1 .. Len(t) : u[Len(s) + i] = t[i]
  BY Joined
<1> HIDE DEF u
<1>2. CASE k <= Len(s)
  BY <1>1, <1>2
<1>3. CASE k > Len(s)
  <2>1. k - Len(s) \in 1 .. Len(t) /\ k = Len(s) + (k - Len(s))
    BY <1>1, <1>3
  <2>2. u[Len(s) + (k - Len(s))] = t[k - Len(s)]
    BY <1>1, <2>1
  <2> QED
    BY <1>1, <1>3, <2>1, <2>2
<1> QED
  BY <1>1, <1>2, <1>3 DEF u

\* They do no more than the two do.
LEMMA DoesJoin ==
    ASSUME NEW s, NEW t, NEW D, NEW V, Does(s, D, V), Does(t, D, V)
    PROVE  Does(s \o t, D, V)
<1>1. (\E S : s \in Seq(S)) /\ (\E S : t \in Seq(S))
  BY DEF Does
<1>2. \E S : s \o t \in Seq(S)
  BY <1>1, Joined
<1>3. ASSUME NEW k \in DOMAIN (s \o t)
      PROVE  DoesStep((s \o t)[k], D, V)
  BY <1>1, JoinedAt DEF Does
<1> QED
  BY <1>2, <1>3 DEF Does

\* A program of such steps does no more.
LEMMA DoesOf ==
    ASSUME NEW S, NEW s \in Seq(S), NEW D, NEW V, \A x \in S : DoesStep(x, D, V)
    PROVE  Does(s, D, V)
  BY DEF Does

\* One to three steps.
LEMMA DoesFew ==
    ASSUME NEW D, NEW V
    PROVE  /\ \A a : DoesStep(a, D, V) => Does(<<a>>, D, V)
           /\ \A a, b : DoesStep(a, D, V) /\ DoesStep(b, D, V) => Does(<<a, b>>, D, V)
           /\ \A a, b, c : DoesStep(a, D, V) /\ DoesStep(b, D, V) /\ DoesStep(c, D, V)
                               => Does(<<a, b, c>>, D, V)
<1>1. ASSUME NEW a, DoesStep(a, D, V)
      PROVE  Does(<<a>>, D, V)
  <2> DEFINE S == {a}
  <2>1. <<a>> \in Seq(S) /\ \A x \in S : DoesStep(x, D, V)
    BY <1>1
  <2> HIDE DEF S
  <2> QED
    BY <2>1, DoesOf
<1>2. ASSUME NEW a, NEW b, DoesStep(a, D, V), DoesStep(b, D, V)
      PROVE  Does(<<a, b>>, D, V)
  <2> DEFINE S == {a, b}
  <2>1. <<a, b>> \in Seq(S) /\ \A x \in S : DoesStep(x, D, V)
    BY <1>2
  <2> HIDE DEF S
  <2> QED
    BY <2>1, DoesOf
<1>3. ASSUME NEW a, NEW b, NEW c, DoesStep(a, D, V), DoesStep(b, D, V), DoesStep(c, D, V)
      PROVE  Does(<<a, b, c>>, D, V)
  <2> DEFINE S == {a, b, c}
  <2>1. <<a, b, c>> \in Seq(S) /\ \A x \in S : DoesStep(x, D, V)
    BY <1>3
  <2> HIDE DEF S
  <2> QED
    BY <2>1, DoesOf
<1> QED
  BY <1>1, <1>2, <1>3

\* Walks that collect, and the targets of a file.
LEMMA DoesPieces ==
    ASSUME NEW D, NEW V
    PROVE  /\ {"enter", "walk"} \subseteq D => Does(ScanFiles, D, V)
           /\ {"enter", "walk", "scan"} \subseteq D /\ "found" \in V => Does(ReadAll, D, V)
           /\ {"get", "resolve", "targets"} \subseteq D =>
                  \A r, file : Does(TargetsOf(r, file), D, V)
<1>1. ASSUME {"enter", "walk"} \subseteq D
      PROVE  Does(ScanFiles, D, V)
  BY <1>1, DoesFew, DoWhat DEF DoesStep, Scans, ScanFiles, Walk
<1>2. ASSUME {"enter", "walk", "scan"} \subseteq D, "found" \in V
      PROVE  Does(ReadAll, D, V)
  <2>1. Does(<<Do("scan", "found")>>, D, V)
    BY <1>2, DoesFew, DoWhat DEF DoesStep, Scans
  <2>2. Does(ScanFiles, D, V)
    BY <1>1, <1>2
  <2> QED
    BY <2>1, <2>2, DoesJoin DEF ReadAll
<1>3. ASSUME {"get", "resolve", "targets"} \subseteq D, NEW r, NEW file
      PROVE  Does(TargetsOf(r, file), D, V)
  <2>1. Does(<<Do("targets", file)>>, D, V)
    BY <1>3, DoesFew, DoWhat DEF DoesStep, Scans
  <2>2. Does(<<Do("get", "invalid"), Do("resolve", file)>>, D, V)
    BY <1>3, DoesFew, DoWhat DEF DoesStep, Scans
  <2> QED
    BY <2>1, <2>2 DEF TargetsOf
<1> QED
  BY <1>1, <1>2, <1>3

\* A program that looks for no targets.
UnaimedDo == {"need", "message", "gateRead", "gateWrite", "gateSearch", "gateDomain", "get",
              "domains", "owner", "misplaced", "open", "enter", "walk", "scan", "below",
              "report", "save", "rename", "stage", "add", "commit"}
Unaimed(s) == Does(s, UnaimedDo, {"targets", "found"})

\* Programs that ask for the right to read a file before they resolve it: domain_summary.
Rounds(s) ==
    Does(s, {"need", "get", "gateDomain", "nextFile", "exists", "content"}, {})

\* Programs that end with the filter on the answer.
Hides(s) == (\E S : s \in Seq(S)) /\ Len(s) # 0 /\ s[Len(s)].do = "hide"

\* Programs whose step c is the filter on list w: nothing is read before it, and only
\* from that list after it.
BeforeSifting == {"need", "targets", "get", "resolve", "domains", "resolveEach", "roots",
                  "enter", "walk"}
AfterSifting(w) ==
    {"need", "marker", "changed", "entities"} \cup Scans \cup
    (IF w = "targets" THEN {"enter", "walk"} ELSE {})
Sifts(s, c, w) ==
    /\ \E S : s \in Seq(S)
    /\ c \in DOMAIN s /\ s[c].do = "permit" /\ s[c].with = w /\ w \in {"targets", "found"}
    /\ \A k \in DOMAIN s : /\ k < c => DoesStep(s[k], BeforeSifting, {})
                           /\ k > c => DoesStep(s[k], AfterSifting(w), {w})

\* What ends with such a program is one.
LEMMA HidesLast ==
    ASSUME NEW s, \E S : s \in Seq(S), NEW t, Hides(t)
    PROVE  Hides(s \o t) /\ (s \o t)[Len(s \o t)] = t[Len(t)]
<1> DEFINE u == s \o t
<1>1. \E S : t \in Seq(S)
  BY DEF Hides
<1>2. /\ \E S : u \in Seq(S)
      /\ Len(s) \in Nat /\ Len(t) \in Nat /\ Len(u) = Len(s) + Len(t)
      /\ \A k \in 1 .. Len(t) : u[Len(s) + k] = t[k]
  BY <1>1, Joined
<1> HIDE DEF u
<1>3. Len(t) \in 1 .. Len(t)
  BY <1>2 DEF Hides
<1>4. u[Len(u)] = t[Len(t)] /\ Len(u) # 0
  BY <1>2, <1>3
<1> QED
  BY <1>2, <1>4 DEF Hides, u

\* The filter and what comes after it, behind what comes before it.
LEMMA SiftsOf ==
    ASSUME NEW s, Does(s, BeforeSifting, {}), NEW w \in {"targets", "found"},
           NEW v, \E S : v \in Seq(S), 1 \in DOMAIN v, v[1].do = "permit", v[1].with = w,
           \A j \in DOMAIN v : j > 1 => DoesStep(v[j], AfterSifting(w), {w})
    PROVE  Sifts(s \o v, Len(s) + 1, w)
<1> DEFINE u == s \o v
           c == Len(s) + 1
           D == AfterSifting(w)
<1>1. (\E S : s \in Seq(S)) /\ (\E S : v \in Seq(S))
  BY DEF Does
<1>2. /\ \E S : u \in Seq(S)
      /\ Len(s) \in Nat /\ DOMAIN s = 1 .. Len(s) /\ DOMAIN u = 1 .. (Len(s) + Len(v))
      /\ DOMAIN v = 1 .. Len(v) /\ Len(v) \in Nat
      /\ \A k \in 1 .. Len(v) : u[Len(s) + k] = v[k]
  BY <1>1, Joined
<1>3. \A k \in DOMAIN u :
          \/ k \in DOMAIN s /\ k <= Len(s) /\ u[k] = s[k]
          \/ k > Len(s) /\ k - Len(s) \in DOMAIN v /\ u[k] = v[k - Len(s)]
  BY <1>1, JoinedAt
<1> HIDE DEF u, D
<1>4. c \in DOMAIN u /\ u[c] = v[1]
  BY <1>2
<1>5. ASSUME NEW k \in DOMAIN u
      PROVE  /\ k < c => DoesStep(u[k], BeforeSifting, {})
             /\ k > c => DoesStep(u[k], D, {w})
  <2>1. ASSUME k < c
        PROVE  DoesStep(u[k], BeforeSifting, {})
    <3>1. ~(k > Len(s))
      BY <1>2, <2>1
    <3>2. k \in DOMAIN s /\ u[k] = s[k]
      BY <1>3, <3>1
    <3> QED
      BY <3>2 DEF Does
  <2>2. ASSUME k > c
        PROVE  DoesStep(u[k], D, {w})
    <3>1. ~(k <= Len(s)) /\ k - Len(s) > 1
      BY <1>2, <2>2
    <3> QED
      BY <1>3, <3>1 DEF D
  <2> QED
    BY <2>1, <2>2
<1> QED
  BY <1>2, <1>4, <1>5 DEF Sifts, D, u

\* More comes after it.
LEMMA SiftsMore ==
    ASSUME NEW s, NEW c, NEW w, Sifts(s, c, w), NEW t, Does(t, AfterSifting(w), {w})
    PROVE  Sifts(s \o t, c, w)
<1> DEFINE u == s \o t
           D == AfterSifting(w)
<1>1. (\E S : s \in Seq(S)) /\ (\E S : t \in Seq(S))
  BY DEF Sifts, Does
<1>2. /\ \E S : u \in Seq(S)
      /\ Len(s) \in Nat /\ Len(t) \in Nat
      /\ DOMAIN s = 1 .. Len(s) /\ DOMAIN u = 1 .. (Len(s) + Len(t))
      /\ \A k \in 1 .. Len(s) : u[k] = s[k]
  BY <1>1, Joined
<1>3. \A k \in DOMAIN u :
          \/ k \in DOMAIN s /\ k <= Len(s) /\ u[k] = s[k]
          \/ k > Len(s) /\ k - Len(s) \in DOMAIN t /\ u[k] = t[k - Len(s)]
  BY <1>1, JoinedAt
<1> HIDE DEF u, D
<1>4. c \in DOMAIN u /\ u[c] = s[c] /\ c \in 1 .. Len(s)
  BY <1>2 DEF Sifts
<1>5. ASSUME NEW k \in DOMAIN u
      PROVE  /\ k < c => DoesStep(u[k], BeforeSifting, {})
             /\ k > c => DoesStep(u[k], D, {w})
  <2>1. CASE k \in DOMAIN s /\ k <= Len(s) /\ u[k] = s[k]
    BY <2>1 DEF Sifts, D
  <2>2. CASE k > Len(s) /\ k - Len(s) \in DOMAIN t /\ u[k] = t[k - Len(s)]
    <3>1. DoesStep(u[k], D, {w})
      BY <2>2 DEF Does, D
    <3>2. ~(k < c)
      BY <1>2, <1>4, <2>2
    <3> QED
      BY <3>1, <3>2
  <2> QED
    BY <1>3, <2>1, <2>2
<1>6. s[c].do = "permit" /\ s[c].with = w /\ w \in {"targets", "found"}
  BY DEF Sifts
<1> QED
  BY <1>2, <1>4, <1>5, <1>6 DEF Sifts, D, u

\* What becomes of the programs of all requests: those of the methods that filter hide,
\* ask in rounds, or sift; the others look for no targets, but for session_brief.
Shows(r, s) ==
    \/ Unaimed(s) /\ r.method \notin Filtered
    \/ Hides(s) /\ (s[Len(s)].with = "counts" => r.method \notin Filtered)
    \/ Rounds(s)
    \/ \E c, w : Sifts(s, c, w)

\* Two programs that look for no targets look for none together.
LEMMA UnaimedJoin == ASSUME NEW s, NEW t, Unaimed(s), Unaimed(t) PROVE Unaimed(s \o t)
  BY DoesJoin DEF Unaimed

\* Walks look for none.
LEMMA UnaimedPieces == Unaimed(ScanFiles) /\ Unaimed(ReadAll) /\ Unaimed(<<>>)
<1>1. Unaimed(ScanFiles) /\ Unaimed(ReadAll)
  BY DoesPieces DEF Unaimed, UnaimedDo
<1>2. <<>> \in Seq({}) /\ DOMAIN <<>> = {}
  OBVIOUS
<1>3. Unaimed(<<>>)
  BY <1>2 DEF Unaimed, Does
<1> QED
  BY <1>1, <1>3

\* It is so for every request.
LEMMA ProgramShows == \A r : Shows(r, Program(r))
<1> TAKE r
<1>1. Unaimed(HandleRead(r))
  <2>1. Unaimed(<<Need({"params", "path"})>>)
    BY DoesFew, DoWhat DEF DoesStep, Scans, Unaimed, UnaimedDo, Need
  <2>2. Unaimed(<<GateRead(r.path), Do("open", r.path)>>)
    BY DoesFew, DoWhat DEF DoesStep, Scans, Unaimed, UnaimedDo, GateRead
  <2>3. Unaimed(<<Do("report", "found")>>)
    BY DoesFew, DoWhat DEF DoesStep, Scans, Unaimed, UnaimedDo
  <2> QED
    BY <2>1, <2>2, <2>3, UnaimedPieces, UnaimedJoin DEF HandleRead
<1>2. Unaimed(HandleWrite(r))
  <2>1. Unaimed(<<Need({"params", "path"}), GateWrite(r.path), Do("owner", r.path), Do("misplaced", r.path), Do("save", r.path)>>)
    <3> DEFINE S == {Need({"params", "path"}), GateWrite(r.path), Do("owner", r.path), Do("misplaced", r.path), Do("save", r.path)}
               s == <<Need({"params", "path"}), GateWrite(r.path), Do("owner", r.path), Do("misplaced", r.path), Do("save", r.path)>>
    <3>1. s \in Seq(S)
      OBVIOUS
    <3>2. \A x \in S : DoesStep(x, UnaimedDo, {"targets", "found"})
      BY DoWhat DEF DoesStep, Scans, UnaimedDo, Need, GateWrite
    <3> HIDE DEF S, s
    <3>3. Unaimed(s)
      BY <3>1, <3>2, DoesOf DEF Unaimed
    <3> QED
      BY <3>3 DEF s
  <2> QED
    BY <2>1, UnaimedPieces, UnaimedJoin DEF HandleWrite
<1>3. Unaimed(HandlePatch(r))
  <2>1. Unaimed(<<Need({"params", "path"}), GateWrite(r.path), Do("save", r.path)>>)
    BY DoesFew, DoWhat DEF DoesStep, Scans, Unaimed, UnaimedDo, Need, GateWrite
  <2> QED
    BY <2>1, UnaimedPieces, UnaimedJoin DEF HandlePatch
<1>4. Unaimed(HandleMove(r))
  <2>1. Unaimed(<<Need({"params", "path", "to"}), GateWrite(r.to), Do("rename", r.to)>>)
    BY DoesFew, DoWhat DEF DoesStep, Scans, Unaimed, UnaimedDo, Need, GateWrite
  <2> QED
    BY <2>1, UnaimedPieces, UnaimedJoin DEF HandleMove
<1>5. Unaimed(HandleOutline(r))
  <2>1. Unaimed(<<Need({"params", "path"}), GateRead(r.path), Do("open", r.path)>>)
    BY DoesFew, DoWhat DEF DoesStep, Scans, Unaimed, UnaimedDo, Need, GateRead
  <2> QED
    BY <2>1, UnaimedPieces, UnaimedJoin DEF HandleOutline
<1>6. Unaimed(HandleSearch(r))
  <2>1. Unaimed(<<Need({"params", "query"}), Do("gateSearch", Everything)>>)
    BY DoesFew, DoWhat DEF DoesStep, Scans, Unaimed, UnaimedDo, Need
  <2> QED
    BY <2>1, UnaimedPieces, UnaimedJoin DEF HandleSearch
<1>7. Unaimed(HandleStats(r))
  <2>1. Unaimed(<<Need({"params"})>>)
    BY DoesFew, DoWhat DEF DoesStep, Scans, Unaimed, UnaimedDo, Need
  <2>2. Unaimed(<<Do("below", "found"), Do("scan", "found")>>)
    BY DoesFew, DoWhat DEF DoesStep, Scans, Unaimed, UnaimedDo
  <2> QED
    BY <2>1, <2>2, UnaimedPieces, UnaimedJoin DEF HandleStats
<1>8. Unaimed(HandleL0Index(r))
  <2>1. Unaimed(<<Need({"params"})>>)
    BY DoesFew, DoWhat DEF DoesStep, Scans, Unaimed, UnaimedDo, Need
  <2>2. Unaimed(<<Do("below", "items")>>)
    BY DoesFew, DoWhat DEF DoesStep, Scans, Unaimed, UnaimedDo
  <2> QED
    BY <2>1, <2>2, UnaimedPieces, UnaimedJoin DEF HandleL0Index
<1>9. Unaimed(HandleList(r))
  <2>1. Unaimed(<<Need({"params"})>>)
    BY DoesFew, DoWhat DEF DoesStep, Scans, Unaimed, UnaimedDo, Need
  <2>2. Unaimed(<<Do("report", "found")>>)
    BY DoesFew, DoWhat DEF DoesStep, Scans, Unaimed, UnaimedDo
  <2> QED
    BY <2>1, <2>2, UnaimedPieces, UnaimedJoin DEF HandleList
<1>10. Unaimed(HandleDomainsList(r))
  <2>1. Unaimed(<<Need({"params"}), Do("domains", "top")>>)
    BY DoesFew, DoWhat DEF DoesStep, Scans, Unaimed, UnaimedDo, Need
  <2> QED
    BY <2>1, UnaimedPieces, UnaimedJoin DEF HandleDomainsList
<1>11. Unaimed(HandleDomainsGet(r))
  <2>1. Unaimed(<<Need({"params", "domain"}), Do("get", "store"), Do("gateDomain", "read")>>)
    BY DoesFew, DoWhat DEF DoesStep, Scans, Unaimed, UnaimedDo, Need
  <2> QED
    BY <2>1, UnaimedPieces, UnaimedJoin DEF HandleDomainsGet
<1>12. Unaimed(HandleGit(r))
  <2>1. Unaimed(<<Need({"params", "op"})>>)
    BY DoesFew, DoWhat DEF DoesStep, Scans, Unaimed, UnaimedDo, Need
  <2>2. Unaimed(<<Need({"params", "op"}), GateWrite(Everything), Do("message", "commit"), Do("stage", "all"), Do("add", "all"), Do("commit", "index")>>)
    <3> DEFINE S == {Need({"params", "op"}), GateWrite(Everything), Do("message", "commit"), Do("stage", "all"), Do("add", "all"), Do("commit", "index")}
               s == <<Need({"params", "op"}), GateWrite(Everything), Do("message", "commit"), Do("stage", "all"), Do("add", "all"), Do("commit", "index")>>
    <3>1. s \in Seq(S)
      OBVIOUS
    <3>2. \A x \in S : DoesStep(x, UnaimedDo, {"targets", "found"})
      BY DoWhat DEF DoesStep, Scans, UnaimedDo, Need, GateWrite
    <3> HIDE DEF S, s
    <3>3. Unaimed(s)
      BY <3>1, <3>2, DoesOf DEF Unaimed
    <3> QED
      BY <3>3 DEF s
  <2> QED
    BY <2>1, <2>2, UnaimedPieces, UnaimedJoin DEF HandleGit
<1>13. Hides(HandleOpenActions(r)) /\ HandleOpenActions(r)[Len(HandleOpenActions(r))].with = "items"
  <2> DEFINE b == Do("hide", "items")
             t == <<Do("count", "targets"), b>>
             s == <<Need({"params", "role"})>> \o TargetsOf(r, "action-items")
  <2>1. b.do = "hide" /\ b.with = "items"
    BY DoWhat
  <2>2. (\E S : <<Need({"params", "role"})>> \in Seq(S)) /\ \E S : TargetsOf(r, "action-items") \in Seq(S)
    <3>1. <<Need({"params", "role"})>> \in Seq({Need({"params", "role"})})
      OBVIOUS
    <3>2. \E S : TargetsOf(r, "action-items") \in Seq(S)
      BY PiecesFit DEF Fits
    <3> QED
      BY <3>1, <3>2
  <2>3. \E S : s \in Seq(S)
    BY <2>2, Joined
  <2> HIDE DEF s, b
  <2>4. t \in Seq({Do("count", "targets"), b}) /\ Len(t) = 2 /\ t[2] = b
    OBVIOUS
  <2> HIDE DEF t
  <2>5. Hides(t)
    BY <2>1, <2>4 DEF Hides
  <2>6. Hides(s \o t) /\ (s \o t)[Len(s \o t)] = b
    BY <2>3, <2>4, <2>5, HidesLast
  <2> QED
    BY <2>1, <2>6 DEF HandleOpenActions, s, t, b
<1>14. Hides(HandleScenarioCheck(r)) /\ HandleScenarioCheck(r)[Len(HandleScenarioCheck(r))].with = "items"
  <2> DEFINE a == Do("hide", "items")
             t == <<a>>
             s == <<Need({"params", "role"})>> \o Walk(Scenarios, "read")
  <2>1. a.do = "hide" /\ a.with = "items"
    BY DoWhat
  <2>2. (\E S : <<Need({"params", "role"})>> \in Seq(S)) /\ \E S : Walk(Scenarios, "read") \in Seq(S)
    <3>1. <<Need({"params", "role"})>> \in Seq({Need({"params", "role"})})
      OBVIOUS
    <3>2. \E S : Walk(Scenarios, "read") \in Seq(S)
      BY PiecesFit DEF Fits
    <3> QED
      BY <3>1, <3>2
  <2>3. \E S : s \in Seq(S)
    BY <2>2, Joined
  <2> HIDE DEF s, a
  <2>4. t \in Seq({a}) /\ Len(t) = 1 /\ t[1] = a
    OBVIOUS
  <2> HIDE DEF t
  <2>5. Hides(t)
    BY <2>1, <2>4 DEF Hides
  <2>6. Hides(s \o t) /\ (s \o t)[Len(s \o t)] = a
    BY <2>3, <2>4, <2>5, HidesLast
  <2> QED
    BY <2>1, <2>6 DEF HandleScenarioCheck, s, t, a
<1>15. Hides(HandleGlacierIndex(r)) /\ HandleGlacierIndex(r)[Len(HandleGlacierIndex(r))].with = "items"
  <2> DEFINE a == Do("hide", "items")
             t == <<a>>
             s == <<Need({"params", "role"})>> \o Walk(Glacier, "list")
  <2>1. a.do = "hide" /\ a.with = "items"
    BY DoWhat
  <2>2. (\E S : <<Need({"params", "role"})>> \in Seq(S)) /\ \E S : Walk(Glacier, "list") \in Seq(S)
    <3>1. <<Need({"params", "role"})>> \in Seq({Need({"params", "role"})})
      OBVIOUS
    <3>2. \E S : Walk(Glacier, "list") \in Seq(S)
      BY PiecesFit DEF Fits
    <3> QED
      BY <3>1, <3>2
  <2>3. \E S : s \in Seq(S)
    BY <2>2, Joined
  <2> HIDE DEF s, a
  <2>4. t \in Seq({a}) /\ Len(t) = 1 /\ t[1] = a
    OBVIOUS
  <2> HIDE DEF t
  <2>5. Hides(t)
    BY <2>1, <2>4 DEF Hides
  <2>6. Hides(s \o t) /\ (s \o t)[Len(s \o t)] = a
    BY <2>3, <2>4, <2>5, HidesLast
  <2> QED
    BY <2>1, <2>6 DEF HandleGlacierIndex, s, t, a
<1>16. Hides(HandleWikiIndex(r)) /\ HandleWikiIndex(r)[Len(HandleWikiIndex(r))].with = "items"
  <2> DEFINE a == Do("hide", "items")
             t == <<a>>
             s == <<Need({"params", "role"})>> \o Walk(Wiki, "list")
  <2>1. a.do = "hide" /\ a.with = "items"
    BY DoWhat
  <2>2. (\E S : <<Need({"params", "role"})>> \in Seq(S)) /\ \E S : Walk(Wiki, "list") \in Seq(S)
    <3>1. <<Need({"params", "role"})>> \in Seq({Need({"params", "role"})})
      OBVIOUS
    <3>2. \E S : Walk(Wiki, "list") \in Seq(S)
      BY PiecesFit DEF Fits
    <3> QED
      BY <3>1, <3>2
  <2>3. \E S : s \in Seq(S)
    BY <2>2, Joined
  <2> HIDE DEF s, a
  <2>4. t \in Seq({a}) /\ Len(t) = 1 /\ t[1] = a
    OBVIOUS
  <2> HIDE DEF t
  <2>5. Hides(t)
    BY <2>1, <2>4 DEF Hides
  <2>6. Hides(s \o t) /\ (s \o t)[Len(s \o t)] = a
    BY <2>3, <2>4, <2>5, HidesLast
  <2> QED
    BY <2>1, <2>6 DEF HandleWikiIndex, s, t, a
<1>17. Hides(HandleLinkIndex(r)) /\ HandleLinkIndex(r)[Len(HandleLinkIndex(r))].with = "items"
  <2> DEFINE b == Do("hide", "items")
             t == <<Do("scanNotes", "found"), b>>
             s == <<Need({"params", "role"})>> \o ScanFiles
  <2>1. b.do = "hide" /\ b.with = "items"
    BY DoWhat
  <2>2. (\E S : <<Need({"params", "role"})>> \in Seq(S)) /\ \E S : ScanFiles \in Seq(S)
    <3>1. <<Need({"params", "role"})>> \in Seq({Need({"params", "role"})})
      OBVIOUS
    <3>2. \E S : ScanFiles \in Seq(S)
      BY PiecesFit DEF Fits
    <3> QED
      BY <3>1, <3>2
  <2>3. \E S : s \in Seq(S)
    BY <2>2, Joined
  <2> HIDE DEF s, b
  <2>4. t \in Seq({Do("scanNotes", "found"), b}) /\ Len(t) = 2 /\ t[2] = b
    OBVIOUS
  <2> HIDE DEF t
  <2>5. Hides(t)
    BY <2>1, <2>4 DEF Hides
  <2>6. Hides(s \o t) /\ (s \o t)[Len(s \o t)] = b
    BY <2>3, <2>4, <2>5, HidesLast
  <2> QED
    BY <2>1, <2>6 DEF HandleLinkIndex, s, t, b
<1>18. Hides(HandleSessionBrief(r))
  <2> DEFINE a == Need({"params", "role"})
             b == Do("domains", "each")
             c == Do("targets", "action-items")
             d == Do("open", HotMemory)
             e == Do("open", Patterns)
             f == Do("countEach", "targets")
             g == Do("hide", "counts")
             s == <<a, b, c, d, e, f, g>>
  <2>1. g.do = "hide"
    BY DoWhat
  <2> HIDE DEF a, b, c, d, e, f, g
  <2>2. s \in Seq({a, b, c, d, e, f, g}) /\ Len(s) = 7 /\ s[7] = g
    OBVIOUS
  <2> HIDE DEF s
  <2>3. Hides(s)
    BY <2>1, <2>2 DEF Hides
  <2> QED
    BY <2>3 DEF HandleSessionBrief, s, a, b, c, d, e, f, g
<1>19. Rounds(HandleDomainSummary(r))
  <2> DEFINE a == Need({"params", "role", "domain"})
             b == Do("get", "invalid")
             c == Do("gateDomain", "read")
             d == Need({"since"})
             e == Do("nextFile", "read")
             f == Do("exists", "read")
             g == Do("content", "read")
             S == {a, b, c, d, e, f, g}
             s == <<a, b, c, d, e, f, g>>
  <2>1. /\ a.do = "need" /\ b.do = "get" /\ c.do = "gateDomain" /\ d.do = "need"
        /\ e.do = "nextFile" /\ f.do = "exists" /\ g.do = "content"
    BY DoWhat DEF Need
  <2> HIDE DEF a, b, c, d, e, f, g
  <2>2. s \in Seq(S)
    OBVIOUS
  <2>3. \A x \in S :
            DoesStep(x, {"need", "get", "gateDomain", "nextFile", "exists", "content"}, {})
    BY <2>1 DEF DoesStep, Scans
  <2> HIDE DEF S, s
  <2>4. Rounds(s)
    BY <2>2, <2>3, DoesOf DEF Rounds
  <2> QED
    BY <2>4 DEF HandleDomainSummary, s, a, b, c, d, e, f, g
<1>20. \E c, w : Sifts(HandleRecentObservations(r), c, w)
  <2> DEFINE a == Do("permit", "targets")
             b == Do("count", "targets")
             v == <<a, b>>
             o == <<Need({"params", "role", "alias", "since"})>>
             s == o \o TargetsOf(r, "observations")
  <2>1. a.do = "permit" /\ a.with = "targets"
    BY DoWhat
  <2>2. b.do = "count" /\ b.with = "targets"
    BY DoWhat
  <2>3. Does(o, BeforeSifting, {})
    BY DoesFew, DoWhat DEF DoesStep, Scans, Need, BeforeSifting
  <2>4. Does(TargetsOf(r, "observations"), BeforeSifting, {})
    BY DoesPieces DEF BeforeSifting
  <2> HIDE DEF a, b, o
  <2>5. Does(s, BeforeSifting, {})
    BY <2>3, <2>4, DoesJoin
  <2>6. v \in Seq({a, b}) /\ DOMAIN v = {1, 2} /\ v[1] = a /\ v[2] = b
    OBVIOUS
  <2> HIDE DEF v, s
  <2>7. \A j \in DOMAIN v : j > 1 => DoesStep(v[j], AfterSifting("targets"), {"targets"})
    BY <2>2, <2>6 DEF DoesStep, AfterSifting, Scans
  <2>8. Sifts(s \o v, Len(s) + 1, "targets")
    BY <2>1, <2>5, <2>6, <2>7, SiftsOf
  <2> QED
    BY <2>8 DEF HandleRecentObservations, a, b, v, o, s
<1>21. \E c, w : Sifts(HandleClusterCheck(r), c, w)
  <2> DEFINE a == Do("permit", "targets")
             b == Need({"since"})
             c == Do("count", "targets")
             v == <<a, b, c>>
             o == <<Need({"params", "role"})>>
             s == o \o TargetsOf(r, "observations")
  <2>1. a.do = "permit" /\ a.with = "targets"
    BY DoWhat
  <2>2. b.do = "need" /\ c.do = "count" /\ c.with = "targets"
    BY DoWhat DEF Need
  <2>3. Does(o, BeforeSifting, {})
    BY DoesFew, DoWhat DEF DoesStep, Scans, Need, BeforeSifting
  <2>4. Does(TargetsOf(r, "observations"), BeforeSifting, {})
    BY DoesPieces DEF BeforeSifting
  <2> HIDE DEF a, b, c, o
  <2>5. Does(s, BeforeSifting, {})
    BY <2>3, <2>4, DoesJoin
  <2>6. v \in Seq({a, b, c}) /\ DOMAIN v = {1, 2, 3} /\ v[1] = a /\ v[2] = b /\ v[3] = c
    OBVIOUS
  <2> HIDE DEF v, s
  <2>7. \A j \in DOMAIN v : j > 1 => DoesStep(v[j], AfterSifting("targets"), {"targets"})
    BY <2>2, <2>6 DEF DoesStep, AfterSifting, Scans
  <2>8. Sifts(s \o v, Len(s) + 1, "targets")
    BY <2>1, <2>5, <2>6, <2>7, SiftsOf
  <2> QED
    BY <2>8 DEF HandleClusterCheck, a, b, c, v, o, s
<1>22. \E c, w : Sifts(HandleEntityAudit(r), c, w)
  <2> DEFINE a == Do("permit", "targets")
             b == Do("count", "targets")
             v == <<a, b>>
             o == <<Need({"params", "role"})>>
             s == o \o TargetsOf(r, "entities")
  <2>1. a.do = "permit" /\ a.with = "targets"
    BY DoWhat
  <2>2. b.do = "count" /\ b.with = "targets"
    BY DoWhat
  <2>3. Does(o, BeforeSifting, {})
    BY DoesFew, DoWhat DEF DoesStep, Scans, Need, BeforeSifting
  <2>4. Does(TargetsOf(r, "entities"), BeforeSifting, {})
    BY DoesPieces DEF BeforeSifting
  <2> HIDE DEF a, b, o
  <2>5. Does(s, BeforeSifting, {})
    BY <2>3, <2>4, DoesJoin
  <2>6. v \in Seq({a, b}) /\ DOMAIN v = {1, 2} /\ v[1] = a /\ v[2] = b
    OBVIOUS
  <2> HIDE DEF v, s
  <2>7. \A j \in DOMAIN v : j > 1 => DoesStep(v[j], AfterSifting("targets"), {"targets"})
    BY <2>2, <2>6 DEF DoesStep, AfterSifting, Scans
  <2>8. Sifts(s \o v, Len(s) + 1, "targets")
    BY <2>1, <2>5, <2>6, <2>7, SiftsOf
  <2> QED
    BY <2>8 DEF HandleEntityAudit, a, b, v, o, s
<1>23. \E c, w : Sifts(HandleLinkAudit(r), c, w)
  <2> DEFINE a == Do("permit", "found")
             b == Do("entities", "found")
             c == Do("scanNotes", "found")
             v == <<a, b, c>>
             o == <<Need({"params", "role"})>>
             s == o \o ScanFiles
  <2>1. a.do = "permit" /\ a.with = "found"
    BY DoWhat
  <2>2. b.do = "entities" /\ c.do = "scanNotes" /\ c.with = "found"
    BY DoWhat
  <2>3. Does(o, BeforeSifting, {})
    BY DoesFew, DoWhat DEF DoesStep, Scans, Need, BeforeSifting
  <2>4. Does(ScanFiles, BeforeSifting, {})
    BY DoesPieces DEF BeforeSifting
  <2> HIDE DEF a, b, c, o
  <2>5. Does(s, BeforeSifting, {})
    BY <2>3, <2>4, DoesJoin
  <2>6. v \in Seq({a, b, c}) /\ DOMAIN v = {1, 2, 3} /\ v[1] = a /\ v[2] = b /\ v[3] = c
    OBVIOUS
  <2> HIDE DEF v, s
  <2>7. \A j \in DOMAIN v : j > 1 => DoesStep(v[j], AfterSifting("found"), {"found"})
    BY <2>2, <2>6 DEF DoesStep, AfterSifting, Scans
  <2>8. Sifts(s \o v, Len(s) + 1, "found")
    BY <2>1, <2>5, <2>6, <2>7, SiftsOf
  <2> QED
    BY <2>8 DEF HandleLinkAudit, a, b, c, v, o, s
<1>24. \E c, w : Sifts(HandleHousekeepingScan(r), c, w)
  <2> DEFINE a == Need({"params", "role"})
             b == Do("domains", "all")
             c == Do("resolveEach", "read")
             d == Do("roots", "read")
             e == Do("permit", "targets")
             f == Do("marker", Marker)
             s == <<a, b, c, d, e, f>>
             t == <<Do("scan", "targets"), Do("changed", "found")>>
  <2>1. /\ a.do = "need" /\ b.do = "domains" /\ c.do = "resolveEach" /\ d.do = "roots"
        /\ e.do = "permit" /\ e.with = "targets" /\ f.do = "marker"
    BY DoWhat DEF Need
  <2>2. Does(t, AfterSifting("targets"), {"targets"})
    BY DoesFew, DoWhat DEF DoesStep, Scans, AfterSifting
  <2>3. Does(ScanFiles, AfterSifting("targets"), {"targets"})
    BY DoesPieces DEF AfterSifting
  <2> HIDE DEF a, b, c, d, e, f, t
  <2>4. /\ s \in Seq({a, b, c, d, e, f}) /\ DOMAIN s = {1, 2, 3, 4, 5, 6}
        /\ s[1] = a /\ s[2] = b /\ s[3] = c /\ s[4] = d /\ s[5] = e /\ s[6] = f
    OBVIOUS
  <2> HIDE DEF s
  <2>5. ASSUME NEW k \in DOMAIN s
        PROVE  /\ k < 5 => DoesStep(s[k], BeforeSifting, {})
               /\ k > 5 => DoesStep(s[k], AfterSifting("targets"), {"targets"})
    <3>1. \A x \in {a, b, c, d} : DoesStep(x, BeforeSifting, {})
      BY <2>1 DEF DoesStep, BeforeSifting, Scans
    <3>2. DoesStep(f, AfterSifting("targets"), {"targets"})
      BY <2>1 DEF DoesStep, AfterSifting, Scans
    <3> QED
      BY <2>4, <3>1, <3>2
  <2>6. Sifts(s, 5, "targets")
    BY <2>1, <2>4, <2>5 DEF Sifts
  <2>7. Sifts(s \o ScanFiles, 5, "targets")
    BY <2>3, <2>6, SiftsMore
  <2>8. Sifts((s \o ScanFiles) \o t, 5, "targets")
    BY <2>2, <2>7, SiftsMore
  <2> QED
    BY <2>8 DEF HandleHousekeepingScan, s, a, b, c, d, e, f, t
<1>25. CASE r.method \in Filtered
  <2>1. \/ Hides(Program(r)) /\ Program(r)[Len(Program(r))].with = "items"
        \/ Rounds(Program(r))
        \/ \E c, w : Sifts(Program(r), c, w)
    BY <1>25, <1>13, <1>14, <1>15, <1>16, <1>17, <1>19, <1>20, <1>21, <1>22, <1>23, <1>24 DEF Program, Filtered
  <2> QED
    BY <2>1 DEF Shows
<1>26. CASE r.method = "session_brief"
  <2>1. Hides(Program(r)) /\ r.method \notin Filtered
    BY <1>18, <1>26 DEF Program, Filtered
  <2> QED
    BY <2>1 DEF Shows
<1>27. CASE r.method \notin Filtered \cup {"session_brief"}
  <2>1. Unaimed(Program(r))
    BY <1>27, <1>1, <1>2, <1>3, <1>4, <1>5, <1>6, <1>7, <1>8, <1>9, <1>10, <1>11, <1>12, UnaimedPieces DEF Program, Filtered
  <2> QED
    BY <1>27, <2>1 DEF Shows
<1> QED
  BY <1>25, <1>26, <1>27
--------------------------------------------------------------------------------
\* Request r may show all of the files T.
MayShow(r, T) == \A x \in T : Check(r.role, x.path, "read")

\* What the local variables l of request r hold when its program s is at step n: the
\* methods that filter have nothing to hide any more once they have filtered.
ShownAt(r, s, n, l) ==
    /\ Unaimed(s) => Members(l.targets) = {} /\ \A x \in l.items : x.id = ""
    /\ Rounds(s) => MayShow(r, Members(l.targets) \cup l.items)
    /\ \A c, w : Sifts(s, c, w) =>
           IF n <= c THEN l.items = {} ELSE MayShow(r, Members(l[w]) \cup l.items)
    /\ Hides(s) /\ n = Len(s) + 1 =>
           \A x \in l.items : \/ Check(r.role, x.path, "read")
                              \/ s[Len(s)].with = "counts" /\ x.id = ""

\* A program without targets puts no domain in its answer.
LEMMA UnaimedShown ==
    ASSUME NEW p \in Proc, Types, SharedOK, Run(p), ~Reply(p), NEW w, Doing(p, w),
           SoundBy(loc[p], during[p]), LeftOf(p, w), Unaimed(Handler[req[p]]),
           Members(loc[p].targets) = {}, \A x \in loc[p].items : x.id = ""
    PROVE  Members(loc'[p].targets) = {} /\ \A x \in loc'[p].items : x.id = ""
<1> DEFINE l == loc[p]
<1>1. w \in UnaimedDo /\ (w \in Scans => With(p) \in {"targets", "found"})
  <2>1. DoesStep(Handler[req[p]][at[p]], UnaimedDo, {"targets", "found"})
    BY InProgram DEF Unaimed, Does
  <2> QED
    BY <2>1, InProgram DEF DoesStep
<1>2. IsList(l.targets) /\ IsList(l.found) /\ \A x \in Members(l.found) : x.id = ""
  BY DEF SoundBy
<1>3. ~\E t : NewTarget(p, w, t)
  BY <1>1 DEF NewTarget, UnaimedDo, Fillers
<1>4. Members(loc'[p].targets) = {}
  BY <1>2, <1>3, TargetsFrom
<1>5. ASSUME NEW x \in loc'[p].items
      PROVE  x.id = ""
  <2>1. x \in l.items \/ NewItem(p, w, x)
    BY <1>2, ItemsFrom
  <2>2. \A q : Entry("", q, Content(q)).id = ""
    BY DEF Entry
  <2>3. \A t : Member(t).id = t.id
    BY DEF Member, Entry
  <2>4. CASE NewItem(p, w, x)
    BY <1>1, <1>2, <2>2, <2>3, <2>4 DEF NewItem
  <2> QED
    BY <2>1, <2>4
<1> QED
  BY <1>4, <1>5

\* domain_summary reads no file that it may not show.
LEMMA RoundsShown ==
    ASSUME NEW p \in Proc, Types, SharedOK, Run(p), ~Reply(p), NEW w, Doing(p, w),
           SoundBy(loc[p], during[p]), LeftOf(p, w), Rounds(Handler[req[p]]),
           MayShow(req[p], Members(loc[p].targets) \cup loc[p].items)
    PROVE  MayShow(req[p], Members(loc'[p].targets) \cup loc'[p].items)
<1> DEFINE l == loc[p]
<1>1. w \in {"need", "get", "gateDomain", "nextFile", "exists", "content"}
  <2>1. DoesStep(Handler[req[p]][at[p]],
                 {"need", "get", "gateDomain", "nextFile", "exists", "content"}, {})
    BY InProgram DEF Rounds, Does
  <2> QED
    BY <2>1, InProgram DEF DoesStep
<1>2. IsList(l.targets) /\ IsList(l.found)
  BY DEF SoundBy
<1>3. ASSUME NEW t \in Members(loc'[p].targets)
      PROVE  Check(req[p].role, t.path, "read")
  <2>1. t \in Members(l.targets) \/ NewTarget(p, w, t)
    BY <1>2, TargetsFrom
  <2>2. CASE NewTarget(p, w, t)
    BY <1>1, <2>2 DEF NewTarget, Fillers, Readable
  <2> QED
    BY <2>1, <2>2 DEF MayShow
<1>4. ASSUME NEW x \in loc'[p].items
      PROVE  Check(req[p].role, x.path, "read")
  <2>1. x \in l.items \/ NewItem(p, w, x)
    BY <1>2, ItemsFrom
  <2>2. CASE NewItem(p, w, x)
    <3>1. w \notin Scans
      BY <1>1 DEF Scans
    <3>2. \E t \in Members(l.targets) : x = Member(t)
      BY <1>1, <2>2, <3>1 DEF NewItem
    <3>3. \E t \in Members(l.targets) : x.path = t.path
      BY <3>2 DEF Member, Entry
    <3> QED
      BY <3>3 DEF MayShow
  <2> QED
    BY <2>1, <2>2 DEF MayShow
<1> QED
  BY <1>3, <1>4 DEF MayShow

\* Nothing is read before the filter of a program that sifts, and only what has passed
\* it afterwards.
LEMMA SiftsShown ==
    ASSUME NEW p \in Proc, Types, SharedOK, Run(p), ~Reply(p), NEW w, Doing(p, w),
           code'[p] = "none", SoundBy(loc[p], during[p]), LeftOf(p, w),
           NEW s, s = Handler[req[p]], NEW c, NEW v, Sifts(s, c, v),
           IF at[p] <= c THEN loc[p].items = {}
           ELSE MayShow(req[p], Members(loc[p][v]) \cup loc[p].items)
    PROVE  IF at'[p] <= c THEN loc'[p].items = {}
           ELSE MayShow(req[p], Members(loc'[p][v]) \cup loc'[p].items)
<1> DEFINE l == loc[p]
           k == at[p]
<1>1. /\ k \in 1 .. Len(s) /\ Len(s) \in Nat /\ DOMAIN s = 1 .. Len(s)
      /\ StepFits(s, k) /\ s[k].do = w /\ s[k].with = With(p)
  BY InProgram
<1>2. IsList(l.targets) /\ IsList(l.found)
  BY DEF SoundBy
<1>3. /\ c \in 1 .. Len(s) /\ s[c].do = "permit" /\ s[c].with = v
      /\ v \in {"targets", "found"}
      /\ k < c => DoesStep(s[k], BeforeSifting, {})
      /\ k > c => DoesStep(s[k], AfterSifting(v), {v})
  BY <1>1 DEF Sifts
<1>4. Hops(p, w)
  BY RunHops
<1>5. CASE k < c
  <2>1. w \in BeforeSifting /\ (w = "walk" => With(p) = "collect") /\ w \notin Scans
    BY <1>1, <1>3, <1>5 DEF DoesStep
  <2>2. loc'[p].items = {}
    <3>1. ASSUME NEW x \in loc'[p].items
          PROVE  FALSE
      <4>1. x \in l.items \/ NewItem(p, w, x)
        BY <1>2, ItemsFrom
      <4>2. l.items = {}
        BY <1>1, <1>3, <1>5
      <4> QED
        BY <2>1, <4>1, <4>2 DEF NewItem, BeforeSifting
    <3> QED
      BY <3>1
  <2>3. at'[p] <= c
    <3>1. CASE w # "enter"
      <4>1. at'[p] = k + 1 \/ at'[p] = k
        BY <1>4, <2>1, <3>1 DEF Hops, BeforeSifting
      <4> QED
        BY <1>1, <1>3, <1>5, <4>1
    <3>2. CASE w = "enter"
      <4>1. at'[p] = k + 1 \/ at'[p] = k \/ at'[p] = k + 2
        BY <1>4, <3>2 DEF Hops
      <4>2. s[k + 1].do = "walk"
        BY <1>1, <3>2 DEF StepFits
      <4>3. k + 1 # c
        BY <1>3, <4>2
      <4> QED
        BY <1>1, <1>3, <1>5, <4>1, <4>3
    <3> QED
      BY <3>1, <3>2
  <2> QED
    BY <2>2, <2>3
<1>6. CASE k = c
  <2>1. w = "permit" /\ With(p) = v
    BY <1>1, <1>3, <1>6
  <2>2. at'[p] = c + 1 /\ ~(at'[p] <= c)
    <3>1. w \notin Loops
      BY <2>1 DEF Loops, Scans
    <3>2. at'[p] = k + 1
      BY <1>4, <2>1, <3>1 DEF Hops
    <3> QED
      BY <1>1, <1>3, <1>6, <3>2
  <2>3. \A t \in Members(loc'[p][v]) : Readable(p, t.path)
    BY <1>2, <1>3, <2>1, TargetsFrom, FoundFrom
  <2>4. loc'[p].items = {}
    <3>1. ASSUME NEW x \in loc'[p].items
          PROVE  FALSE
      <4>1. x \in l.items \/ NewItem(p, w, x)
        BY <1>2, ItemsFrom
      <4>2. l.items = {}
        BY <1>1, <1>3, <1>6
      <4> QED
        BY <2>1, <4>1, <4>2 DEF NewItem, Scans
    <3> QED
      BY <3>1
  <2> QED
    BY <2>2, <2>3, <2>4 DEF MayShow, Readable
<1>7. CASE k > c
  <2>1. /\ w \in AfterSifting(v) /\ (w = "walk" => With(p) = "collect")
        /\ w \in Scans => With(p) = v
    BY <1>1, <1>3, <1>7 DEF DoesStep
  <2>2. MayShow(req[p], Members(l[v]) \cup l.items)
    BY <1>1, <1>3, <1>7
  <2>3. ~(at'[p] <= c)
    <3>1. at'[p] = k \/ at'[p] = k + 1 \/ at'[p] = k + 2
      BY <1>4, <2>1 DEF Hops, AfterSifting, Scans
    <3> QED
      BY <1>1, <1>3, <1>7, <3>1
  <2>4. \A t \in Members(loc'[p][v]) : t \in Members(l[v])
    <3>1. CASE v = "targets"
      <4>1. ~\E t : NewTarget(p, w, t)
        BY <2>1 DEF NewTarget, Fillers, AfterSifting, Scans
      <4> QED
        BY <1>2, <3>1, <4>1, TargetsFrom
    <3>2. CASE v = "found"
      <4>1. w # "walk"
        BY <2>1, <3>2 DEF AfterSifting, Scans
      <4>2. IsList(loc[p].found)
        BY <1>2
      <4>a. \A x \in Members(loc'[p].found) :
                \/ x \in Members(loc[p].found)
                \/ /\ w = "walk" /\ With(p) = "collect" /\ Local
                   /\ \E q : x = Entry("", q, Content(q))
        BY <4>2, FoundFrom
      <4>3. \A x \in Members(loc'[p].found) : x \in Members(loc[p].found) \/ w = "walk"
        BY <4>a
      <4> QED
        BY <3>2, <4>1, <4>3
    <3> QED
      BY <1>3, <3>1, <3>2
  <2>5. ASSUME NEW x \in loc'[p].items
        PROVE  Check(req[p].role, x.path, "read")
    <3>1. x \in l.items \/ NewItem(p, w, x)
      BY <1>2, ItemsFrom
    <3>2. CASE w \in Scans /\ \E t \in Members(l[v]) : x = Member(t)
      <4>1. \E t \in Members(l[v]) : x.path = t.path
        BY <3>2 DEF Member, Entry
      <4> QED
        BY <2>2, <4>1 DEF MayShow
    <3>3. CASE w = "changed" /\ Readable(p, x.path)
      BY <3>3 DEF Readable
    <3>4. NewItem(p, w, x) => \/ w \in Scans /\ \E t \in Members(l[v]) : x = Member(t)
                              \/ w = "changed" /\ Readable(p, x.path)
      BY <2>1 DEF NewItem, AfterSifting, Scans
    <3> QED
      BY <2>2, <3>1, <3>2, <3>3, <3>4 DEF MayShow
  <2> QED
    BY <2>2, <2>3, <2>4, <2>5 DEF MayShow
<1> QED
  BY <1>1, <1>3, <1>5, <1>6, <1>7

\* The last step of a program that hides is the filter.
LEMMA HidesShown ==
    ASSUME NEW p \in Proc, Types, Run(p), ~Reply(p), NEW w, Doing(p, w),
           code'[p] = "none", SoundBy(loc[p], during[p]), LeftOf(p, w),
           NEW s, s = Handler[req[p]], Hides(s), at'[p] = Len(s) + 1
    PROVE  \A x \in loc'[p].items : \/ Check(req[p].role, x.path, "read")
                                    \/ s[Len(s)].with = "counts" /\ x.id = ""
<1> DEFINE l == loc[p]
           k == at[p]
<1>1. /\ k \in 1 .. Len(s) /\ Len(s) \in Nat /\ DOMAIN s = 1 .. Len(s)
      /\ StepFits(s, k) /\ s[k].do = w /\ s[k].with = With(p)
  BY InProgram
<1>2. IsList(l.targets) /\ IsList(l.found)
  BY DEF SoundBy
<1>3. s[Len(s)].do = "hide"
  BY DEF Hides
<1>4. k = Len(s)
  <2>1. Hops(p, w)
    BY RunHops
  <2>2. CASE at'[p] = k + 1
    BY <1>1, <2>2
  <2>3. CASE at'[p] = k + 2 /\ w \in {"enter", "entities"}
    <3>1. s[k + 1].do \in {"walk", "scanNotes"}
      BY <1>1, <2>3 DEF StepFits
    <3>2. k + 1 = Len(s)
      BY <1>1, <2>3
    <3> QED
      BY <1>3, <3>1, <3>2
  <2>4. CASE at'[p] = k + 3 /\ w = "nextFile"
    <3>1. s[k + 2].do = "content"
      BY <1>1, <2>4 DEF StepFits
    <3>2. k + 2 = Len(s)
      BY <1>1, <2>4
    <3> QED
      BY <1>3, <3>1, <3>2
  <2>5. CASE at'[p] = k \/ at'[p] = k - 1 \/ at'[p] = k - 2
    BY <1>1, <2>5
  <2> QED
    BY <2>1, <2>2, <2>3, <2>4, <2>5 DEF Hops
<1>5. w = "hide" /\ With(p) = s[Len(s)].with
  BY <1>1, <1>3, <1>4
<1>6. \A x \in loc'[p].items : Readable(p, x.path) \/ (With(p) = "counts" /\ x.id = "")
  BY <1>2, <1>5, ItemsFrom
<1> QED
  BY <1>5, <1>6 DEF Readable

\* Each step of a request keeps what it has to hide hidden.
LEMMA StepShown ==
    ASSUME NEW p \in Proc, Types, SharedOK, Run(p), ~Reply(p), NEW w, Doing(p, w),
           code'[p] = "none", SoundBy(loc[p], during[p]), LeftOf(p, w),
           NEW s, s = Handler[req[p]], ShownAt(req[p], s, at[p], loc[p])
    PROVE  ShownAt(req[p], s, at'[p], loc'[p])
<1>1. ASSUME Unaimed(s)
      PROVE  Members(loc'[p].targets) = {} /\ \A x \in loc'[p].items : x.id = ""
  BY <1>1, UnaimedShown DEF ShownAt
<1>2. ASSUME Rounds(s)
      PROVE  MayShow(req[p], Members(loc'[p].targets) \cup loc'[p].items)
  BY <1>2, RoundsShown DEF ShownAt
<1>3. ASSUME NEW c, NEW v, Sifts(s, c, v)
      PROVE  IF at'[p] <= c THEN loc'[p].items = {}
             ELSE MayShow(req[p], Members(loc'[p][v]) \cup loc'[p].items)
  <2>1. IF at[p] <= c THEN loc[p].items = {}
        ELSE MayShow(req[p], Members(loc[p][v]) \cup loc[p].items)
    BY <1>3 DEF ShownAt
  <2> QED
    BY <1>3, <2>1, SiftsShown
<1>4. ASSUME Hides(s), at'[p] = Len(s) + 1
      PROVE  \A x \in loc'[p].items : \/ Check(req[p].role, x.path, "read")
                                      \/ s[Len(s)].with = "counts" /\ x.id = ""
  BY <1>4, HidesShown
<1> QED
  BY <1>1, <1>2, <1>3, <1>4 DEF ShownAt
--------------------------------------------------------------------------------
\* A request that has not failed is sound, and shows what it may.
SoundAt(p) ==
    code[p] = "none" =>
        /\ SoundBy(loc[p], during[p])
        /\ LeftBy(Handler[req[p]], at[p], loc[p])
        /\ ShownAt(req[p], Handler[req[p]], at[p], loc[p])

\* So is one that has not begun, or begins.
LEMMA BeginsShown ==
    ASSUME NEW r, NEW n \in {0, 1}
    PROVE  LeftBy(Program(r), n, Locals) /\ ShownAt(r, Program(r), n, Locals)
<1> DEFINE s == Program(r)
<1>1. /\ Locals.targets = <<>> /\ Locals.found = <<>> /\ Locals.items = {}
      /\ Locals.todo = <<>>
  BY DEF Locals
<1>2. Fits(s)
  BY ProgramFits
<1> HIDE DEF s
<1>3. Len(s) \in Nat /\ DOMAIN s = 1 .. Len(s) /\ \A k \in DOMAIN s : StepFits(s, k)
  BY <1>2 DEF Fits
<1>4. ~(n \in DOMAIN s /\ s[n].do \in {"exists", "content"})
  <2> SUFFICES ASSUME n \in DOMAIN s, s[n].do \in {"exists", "content"}
               PROVE  FALSE
    OBVIOUS
  <2>1. StepFits(s, n)
    BY <1>3
  <2>2. n - 1 \in DOMAIN s
    BY <2>1 DEF StepFits
  <2> QED
    BY <1>3, <2>2
<1>5. LeftBy(s, n, Locals)
  BY <1>1, <1>4 DEF LeftBy
<1>6. Members(Locals.targets) = {}
  BY <1>1 DEF Members
<1>7. \A c, w : Sifts(s, c, w) => n <= c
  <2>1. \A c, w : Sifts(s, c, w) => c \in 1 .. Len(s)
    BY <1>3 DEF Sifts
  <2> QED
    BY <1>3, <2>1
<1>8. ShownAt(r, s, n, Locals)
  BY <1>1, <1>6, <1>7 DEF ShownAt, MayShow
<1> QED
  BY <1>5, <1>8 DEF s

\* Nobody makes what p holds unsound while p stands still.
LEMMA SoundStays ==
    ASSUME NEW p \in Proc, Observe, SoundAt(p), HandlerOK(p)', req'[p] = req[p],
           at'[p] = at[p], code'[p] = code[p], loc'[p] = loc[p]
    PROVE  SoundAt(p)'
<1> SUFFICES ASSUME code[p] = "none"
             PROVE  SoundBy(loc[p], during'[p])
  BY DEF SoundAt
<1>1. CASE at'[p] = 0
  <2>1. loc[p] = Locals
    BY <1>1 DEF HandlerOK
  <2> QED
    BY <2>1, LocalsSound
<1>2. CASE at'[p] # 0
  <2>1. SoundBy(loc[p], during[p])
    BY DEF SoundAt
  <2> QED
    BY <1>2, <2>1, HistoryGrows, LongerHistory
<1> QED
  BY <1>1, <1>2

\* The steps of the request itself.
LEMMA SoundStep ==
    ASSUME NEW p \in Proc, Types, Types', SharedOK, SoundAt(p), HandlerOK(p)', Run(p), ~Reply(p)
    PROVE  SoundAt(p)'
<1> DEFINE s == Handler[req[p]]
<1>1. /\ req'[p] = req[p] /\ Observe /\ code[p] = "none"
  <2>1. UNCHANGED clients /\ code[p] = "none" /\ ((\E n, l : Jump(p, n, l)) \/ \E c : Fail(p, c))
    BY RunGoes, Zenon DEF Goes
  <2> QED
    BY <2>1 DEF clients, Jump, Fail
<1> SUFFICES ASSUME code'[p] = "none"
             PROVE  SoundAt(p)'
  BY DEF SoundAt
<1>2. PICK w : Doing(p, w)
  BY RunsDoing
<1>3. SoundBy(loc[p], during[p]) /\ LeftBy(s, at[p], loc[p]) /\ ShownAt(req[p], s, at[p], loc[p])
  BY <1>1 DEF SoundAt
<1>4. IsList(loc[p].targets) /\ IsList(loc[p].found)
  BY <1>3 DEF SoundBy
<1>5. LeftOf(p, w) /\ LeftBy(s, at'[p], loc'[p])
  BY <1>2, <1>3, <1>4, StepLeaves
<1>6. ShownAt(req[p], s, at'[p], loc'[p])
  BY <1>2, <1>3, <1>5, StepShown
<1>7. SoundBy(loc'[p], during'[p])
  <2>1. CASE at'[p] = 0
    <3>1. loc'[p] = Locals
      BY <2>1 DEF HandlerOK
    <3> QED
      BY <3>1, LocalsSound
  <2>2. CASE at'[p] # 0
    BY <1>1, <1>2, <1>3, <1>5, <2>2, StepSound
  <2> QED
    BY <2>1, <2>2
<1>8. Handler' = Handler
  BY DEF Handler
<1>9. Handler[req[p]]' = s
  BY <1>1, <1>8
<1> HIDE DEF s
<1> QED
  BY <1>1, <1>5, <1>6, <1>7, <1>9 DEF SoundAt

\* Every step keeps the requests sound.
LEMMA SoundKept ==
    ASSUME Types, Types', SharedOK, [Next]_vars, NEW p \in Proc, HandlerOK(p), HandlerOK(p)',
           SoundAt(p)
    PROVE  SoundAt(p)'
<1>1. CASE UNCHANGED vars
  BY <1>1 DEF SoundAt, vars, clients
<1>2. CASE Turns
  BY <1>2, SoundStays, TurnsAside DEF Aside, clients
<1>3. ASSUME NEW o \in Proc, o # p, Start(o) \/ Run(o)
      PROVE  SoundAt(p)'
  BY <1>3, RunAlone, SoundStays
<1>a. Handler'[req'[p]] = Program(req'[p])
  BY DEF Types, Handler
<1>4. CASE Start(p)
  <2>1. at'[p] = 1 /\ loc'[p] = Locals
    BY <1>4 DEF Start, Types, HandlerOK
  <2>2. SoundBy(loc'[p], during'[p])
    BY <2>1, LocalsSound
  <2> QED
    BY <1>a, <2>1, <2>2, BeginsShown DEF SoundAt
<1>5. CASE Reply(p)
  <2>1. at'[p] = 0 /\ loc'[p] = Locals
    BY <1>5 DEF Reply, Types
  <2>2. SoundBy(loc'[p], during'[p])
    BY <2>1, LocalsSound
  <2> QED
    BY <1>a, <2>1, <2>2, BeginsShown DEF SoundAt
<1>6. CASE Run(p) /\ ~Reply(p)
  BY <1>6, SoundStep
<1> QED
  BY <1>1, <1>2, <1>3, <1>4, <1>5, <1>6 DEF Next, Turns

\* A sound request that is answered has an answer that is sound.
LEMMA SoundAnswers ==
    ASSUME NEW p \in Proc, Types, HandlerOK(p), SoundAt(p), Ok(p)
    PROVE  /\ \A x \in loc[p].items :
                  /\ x.ver \in Was(p, x.path)
                  /\ x.id # "" => \E m \in during[p].regs : \E d \in Domains(m) :
                         d.id = x.id /\ Parent(x.path) = d.path /\ Declares(d, Base(x.path))
                  /\ req[p].method \in Filtered \/ x.id # "" => Readable(p, x.path)
           /\ \A k \in DOMAIN loc[p].doms : \E m \in during[p].regs :
                  loc[p].doms[k] \in Domains(m)
<1> DEFINE r == req[p]
           s == Handler[r]
           l == loc[p]
<1>1. SoundBy(l, during[p]) /\ ShownAt(r, s, at[p], l)
  BY DEF SoundAt, Ok
<1>2. s = Program(r)
  BY DEF Types, Handler
<1>3. at[p] = Len(s) + 1
  <2>1. Len(s) \in Nat /\ DOMAIN s = 1 .. Len(s)
    BY <1>2, ProgramFits DEF Fits
  <2>2. at[p] # 0 /\ at[p] \notin DOMAIN s
    BY DEF Ok, Answered, Running
  <2> QED
    BY <2>1, <2>2 DEF HandlerOK
<1>4. Shows(r, s)
  BY <1>2, ProgramShows
<1> HIDE DEF s
<1>5. ASSUME NEW x \in l.items, r.method \in Filtered \/ x.id # ""
      PROVE  Check(r.role, x.path, "read")
  <2>1. CASE Unaimed(s) /\ r.method \notin Filtered
    BY <1>1, <1>5, <2>1 DEF ShownAt
  <2>2. CASE Hides(s) /\ (s[Len(s)].with = "counts" => r.method \notin Filtered)
    BY <1>1, <1>3, <1>5, <2>2 DEF ShownAt
  <2>3. CASE Rounds(s)
    BY <1>1, <1>5, <2>3 DEF ShownAt, MayShow
  <2>4. CASE \E c, w : Sifts(s, c, w)
    <3>1. PICK c, w : Sifts(s, c, w)
      BY <2>4
    <3>2. l.items = {} \/ MayShow(r, Members(l[w]) \cup l.items)
      BY <1>1, <3>1 DEF ShownAt
    <3> QED
      BY <1>5, <3>2 DEF MayShow
  <2> QED
    BY <1>4, <2>1, <2>2, <2>3, <2>4 DEF Shows
<1>6. ASSUME NEW x \in l.items
      PROVE  /\ x.ver \in Was(p, x.path)
             /\ x.id # "" => \E m \in during[p].regs : \E d \in Domains(m) :
                    d.id = x.id /\ Parent(x.path) = d.path /\ Declares(d, Base(x.path))
  BY <1>1 DEF SoundBy, Seen, Named, Was
<1>7. \A k \in DOMAIN l.doms : \E m \in during[p].regs : l.doms[k] \in Domains(m)
  BY <1>1 DEF SoundBy
<1> QED
  BY <1>5, <1>6, <1>7 DEF Readable

\* So it is of every handler, at every time.
LEMMA BeginsSound == Init => \A p \in Proc : SoundAt(p)
<1> SUFFICES ASSUME Init, NEW p \in Proc
             PROVE  SoundAt(p)
  OBVIOUS
<1>1. Types
  BY InitHolds DEF IInv
<1>2. at[p] = 0 /\ loc[p] = Locals
  BY DEF Init
<1>3. Handler[req[p]] = Program(req[p])
  BY <1>1 DEF Types, Handler
<1> QED
  BY <1>2, <1>3, LocalsSound, BeginsShown DEF SoundAt

LEMMA StaysSound ==
    IInv /\ IInv' /\ TypeOK /\ TypeOK' /\ (\A p \in Proc : SoundAt(p)) /\ [Next]_vars
        => (\A p \in Proc : SoundAt(p))'
<1> SUFFICES ASSUME IInv, IInv', TypeOK, TypeOK', \A p \in Proc : SoundAt(p), [Next]_vars,
                    NEW p \in Proc
             PROVE  SoundAt(p)'
  OBVIOUS
<1>1. SharedOK /\ HandlerOK(p)'
  BY DEF TypeOK, SharedOK, HandlerOK
<1>2. Types /\ Types' /\ HandlerOK(p)
  BY TypesOfParts DEF IInv
<1> QED
  BY <1>1, <1>2, SoundKept

\* An answer names no file that was not there while its request ran, and no domain that
\* was in none of the registries the controller held meanwhile, and the methods that filter
\* name no file the role may not read: whatever the other requests, the editors of the
\* manifest and the reloads, which may install an older manifest last, do between any two
\* steps.
THEOREM AnswersAreSound == Spec => []AnswersSound
<1>1. IInv /\ TypeOK /\ (\A p \in Proc : SoundAt(p)) => AnswersSound
  BY SoundAnswers, TypesOfParts DEF IInv, AnswersSound
<1> QED
  BY <1>1, BeginsSound, StaysSound, ChecksHold, HandlersTyped, PTL DEF Spec
================================================================================
