------------------------ MODULE HandlersComplete_proofs ------------------------
(***************************************************************************)
(* For any number of handlers, requests, paths and manifests: an answer    *)
(* misses no file that was there, unchanged, while the request ran, that   *)
(* the role may read and that the request asks for.  What is on a list     *)
(* stays on it until the step that reads the list; what that step makes of *)
(* it stays in the answer.                                                 *)
(***************************************************************************)
EXTENDS HandlersSound_proofs

\* What is on lists is on what is made of them.
LEMMA JoinKeeps ==
    ASSUME NEW s, NEW t, IsList(s), IsList(t)
    PROVE  Members(s) \cup Members(t) \subseteq Members(s \o t)
<1>1. (\E S : s \in Seq(S)) /\ (\E S : t \in Seq(S))
  BY DEF IsList
<1>2. /\ Len(s) \in Nat /\ Len(t) \in Nat
      /\ DOMAIN s = 1 .. Len(s) /\ DOMAIN t = 1 .. Len(t)
      /\ DOMAIN (s \o t) = 1 .. (Len(s) + Len(t))
      /\ \A k \in 1 .. Len(s) : (s \o t)[k] = s[k]
      /\ \A k \in 1 .. Len(t) : (s \o t)[Len(s) + k] = t[k]
  BY <1>1, Joined
<1> DEFINE u == s \o t
<1> HIDE DEF u
<1>3. \A k \in DOMAIN s : k \in DOMAIN u /\ u[k] = s[k]
  BY <1>2 DEF u
<1>4. \A k \in DOMAIN t : Len(s) + k \in DOMAIN u /\ u[Len(s) + k] = t[k]
  BY <1>2 DEF u
<1> QED
  BY <1>3, <1>4 DEF Members, u

LEMMA AppendKeeps ==
    ASSUME NEW s, NEW x, IsList(s)
    PROVE  Members(s) \cup {x} \subseteq Members(Append(s, x))
<1>1. Append(s, x) = s \o <<x>>
  <2> DEFINE S == Members(s) \cup {x}
  <2>1. s \in Seq(S) /\ x \in S
    <3>1. s \in Seq(Members(s))
      BY DEF IsList
    <3> HIDE DEF Members
    <3> QED
      BY <3>1
  <2> HIDE DEF S
  <2> QED
    BY <2>1
<1>2. IsList(<<x>>) /\ Members(<<x>>) = {x}
  BY ListFew
<1> QED
  BY <1>1, <1>2, JoinKeeps

LEMMA RestKeeps ==
    ASSUME NEW s, IsList(s), s # <<>>, NEW x \in Members(s)
    PROVE  x = Head(s) \/ x \in Members(Tail(s))
<1> PICK k \in DOMAIN s : x = s[k]
  BY DEF Members
<1> DEFINE S == Members(s)
<1>1. s \in Seq(S)
  BY DEF IsList
<1> HIDE DEF S
<1>2. CASE k = 1
  BY <1>1, <1>2
<1>3. CASE k # 1
  <2>1. k - 1 \in DOMAIN Tail(s) /\ Tail(s)[k - 1] = s[k]
    BY <1>1, <1>3
  <2> QED
    BY <2>1 DEF Members
<1> QED
  BY <1>2, <1>3

LEMMA PickKeeps ==
    ASSUME NEW s, NEW I, IsList(s), I \subseteq DOMAIN s, NEW i \in I
    PROVE  s[i] \in Members(Picked(s, I))
<1> DEFINE S == Members(s)
<1>1. s \in Seq(S)
  BY DEF IsList
<1> HIDE DEF S
<1>2. \E k \in DOMAIN Picked(s, I) : Picked(s, I)[k] = s[i]
  BY <1>1, PickedMembers
<1> QED
  BY <1>2 DEF Members

\* No list is without what is on it.
LEMMA NoMembers == Members(<<>>) = {}
  BY ListFew

\* Targets lists the file of every domain that declares it.
LEMMA TargetsHold ==
    ASSUME NEW m \in Manifests, NEW d \in Domains(m), NEW file, Declares(d, file)
    PROVE  Target(d, file) \in Members(Targets(m, file))
<1> DEFINE I == {i \in DOMAIN m : Declares(m[i], file)}
           ds == Picked(m, I)
<1>1. IsList(m)
  BY HandlersAssumption DEF IsList, Domains, Members
<1>2. PICK i \in DOMAIN m : d = m[i]
  BY DEF Domains
<1>3. d \in Members(ds)
  BY <1>1, <1>2, PickKeeps
<1>4. Targets(m, file) = [k \in DOMAIN ds |-> Target(ds[k], file)]
  BY DEF Targets
<1> HIDE DEF ds
<1> QED
  BY <1>3, <1>4 DEF Members
--------------------------------------------------------------------------------
\* The filter x of p lets file q through, and the reader x takes it.
Lets(p, q, x) ==
    /\ x.do \in {"permit", "hide"} => Readable(p, q)
    /\ x.do = "below" => Within(q, req[p].path)
Takes(p, q, x) ==
    /\ x.do = "scanNotes" => q # Marker
    /\ x.do = "changed" => /\ q # Marker /\ Readable(p, q)
                           /\ \A u \in Was(p, Marker) : tree[q] > u

\* The steps that leave on list v what is there, but for the filters.
Between(v) == {"need", "permit", "roots", "marker", "enter", "open", "scan", "below"} \cup
              (IF v = "targets" THEN {"walk"} ELSE {})

\* What a step of p picks from a list with what it lets through.
LEMMA ListKept ==
    ASSUME NEW p \in Proc, Types, Run(p), ~Reply(p), NEW w, Doing(p, w),
           IsList(loc[p].targets), IsList(loc[p].found),
           NEW v \in {"targets", "found"}, w \in Between(v) \cup Scans \cup {"report", "changed"},
           NEW x \in Members(loc[p][v]), Lets(p, x.path, Now(p))
    PROVE  x \in Members(loc'[p][v])
<1> DEFINE l == loc[p]
<1>a. DOMAIN l = DOMAIN Locals /\ "targets" \in DOMAIN l /\ "found" \in DOMAIN l
  BY DEF Types, Locals
<1>b. Now(p).do = w
  BY DEF Doing
<1>c. PICK j \in DOMAIN l[v] : x = l[v][j]
  BY DEF Members
<1>1. CASE v \notin Touches(w)
  <2>1. v \in DOMAIN Locals \ Touches(w)
    BY <1>1 DEF Locals
  <2> QED
    BY <2>1, RunTouches DEF Touched
<1>2. CASE w = "permit"
  <2> DEFINE f == With(p)
             I == {k \in DOMAIN l[f] : Readable(p, l[f][k].path)}
             s == Picked(l[f], I)
  <2>1. Permit(p)
    BY <1>2, RunDoes DEF Gates, Scans
  <2>2. loc'[p] = [l EXCEPT ![f] = s]
    BY <2>1, NewLocals, Zenon DEF Permit
  <2>3. CASE f = v
    <3>1. j \in I
      BY <1>2, <1>b, <1>c, <2>3 DEF Lets
    <3>2. IsList(l[f])
      BY <2>3
    <3>3. l[f][j] \in Members(s)
      BY <3>1, <3>2, PickKeeps
    <3> HIDE DEF s, l, I
    <3>4. loc'[p][v] = s
      BY <1>a, <2>2, <2>3
    <3> QED
      BY <1>c, <2>3, <3>3, <3>4
  <2>4. CASE f # v
    <3> HIDE DEF s, l
    <3>1. loc'[p][v] = l[v]
      BY <1>a, <2>2, <2>4
    <3> QED
      BY <3>1 DEF l
  <2> QED
    BY <2>3, <2>4
<1>3. CASE w = "below"
  <2> DEFINE I == {k \in DOMAIN l.found : Within(l.found[k].path, req[p].path)}
             s == Picked(l.found, I)
             xs == {y \in l.items : Within(y.path, req[p].path)}
  <2>1. SelectBelow(p)
    BY <1>3, RunDoes DEF Gates, Scans
  <2>2. loc'[p] = [l EXCEPT !.items = xs] \/ loc'[p] = [l EXCEPT !.found = s]
    <3>1. GoOn(p, IF With(p) = "items" THEN [l EXCEPT !.items = xs] ELSE [l EXCEPT !.found = s])
      BY <2>1, Zenon DEF SelectBelow
    <3> QED
      BY <3>1, NewLocals
  <2>3. CASE v = "found"
    <3>1. j \in I
      BY <1>3, <1>b, <1>c, <2>3 DEF Lets
    <3>2. l.found[j] \in Members(s)
      BY <3>1, PickKeeps
    <3> HIDE DEF s, l, I, xs
    <3>3. loc'[p][v] = l.found \/ loc'[p][v] = s
      BY <1>a, <2>2, <2>3
    <3> QED
      BY <1>c, <2>3, <3>2, <3>3 DEF l
  <2>4. CASE v # "found"
    <3> HIDE DEF s, l, xs
    <3>1. loc'[p][v] = l[v]
      BY <1>a, <2>2, <2>4
    <3> QED
      BY <3>1 DEF l
  <2> QED
    BY <2>3, <2>4
<1>4. CASE w = "roots" /\ v = "targets"
  <2> DEFINE s == <<Entry("", HotMemory, 0), Entry("", Improvements, 0), Entry("", Patterns, 0)>>
             t == l.targets
  <2>1. AddRoots(p)
    BY <1>4, RunDoes DEF Gates, Scans
  <2>2. loc'[p] = [l EXCEPT !.targets = t \o s]
    BY <2>1, NewLocals, Zenon DEF AddRoots
  <2>3. IsList(s)
    BY ListFew
  <2>4. IsList(t)
    OBVIOUS
  <2>5. x \in Members(t)
    BY <1>4
  <2> HIDE DEF s, t
  <2>6. x \in Members(t \o s)
    BY <2>3, <2>4, <2>5, JoinKeeps
  <2> HIDE DEF l
  <2>7. loc'[p].targets = t \o s
    BY <1>a, <2>2
  <2> QED
    BY <1>4, <2>6, <2>7
<1>5. v \notin Touches(w) \/ w = "permit" \/ w = "below" \/ (w = "roots" /\ v = "targets")
  BY DEF Touches, Between, Fillers, Scans, Sources
<1> QED
  BY <1>1, <1>2, <1>3, <1>4, <1>5

\* An entry of the answer stays in it, but for the filters.
LEMMA ItemsKept ==
    ASSUME NEW p \in Proc, Types, Run(p), ~Reply(p), NEW w, Doing(p, w),
           w \in Scans \cup {"walk", "hide", "below", "changed"},
           NEW y \in loc[p].items, Lets(p, y.path, Now(p))
    PROVE  y \in loc'[p].items
<1> DEFINE l == loc[p]
<1>a. DOMAIN l = DOMAIN Locals /\ "items" \in DOMAIN l /\ "todo" \in DOMAIN l
  BY DEF Types, Locals
<1>b. Now(p).do = w
  BY DEF Doing
<1>c. y \in l.items
  OBVIOUS
<1>1. CASE w \in Scans
  <2> DEFINE left == IF l.todo = <<>> THEN l[With(p)] ELSE l.todo
             z == Member(Head(left))
             rest == Tail(left)
             xs == IF \/ z.ver = 0 /\ Now(p).do # "countEach"
                      \/ z.path = Marker /\ Now(p).do = "scanNotes"
                   THEN l.items ELSE l.items \cup {z}
  <2>1. ScanNext(p) \/ StoreFails(p)
    BY <1>1, RunDoes DEF Gates, Scans
  <2>2. loc'[p] = l \/ loc'[p] = [l EXCEPT !.todo = rest, !.items = xs]
    <3>1. \/ GoOn(p, l) \/ Fail(p, "store")
          \/ Loop(p, [l EXCEPT !.todo = rest, !.items = xs])
      BY <2>1, Zenon DEF ScanNext, StoreFails
    <3> QED
      BY <3>1, NewLocals, Zenon
  <2>3. y \in xs
    BY <1>c
  <2> HIDE DEF xs, rest, z, l
  <2>4. loc'[p].items = l.items \/ loc'[p].items = xs
    BY <1>a, <2>2
  <2> QED
    BY <1>c, <2>3, <2>4
<1>2. CASE w = "walk"
  <2> DEFINE n == Head(l.todo)
             x == Entry("", n, Content(n))
             rest == Tail(l.todo)
             more == Entries(n) \o rest
             m == [l EXCEPT !.todo = rest]
  <2>1. VisitNext(p)
    BY <1>2, RunDoes DEF Gates, Scans
  <2>2. loc'[p] = [l EXCEPT !.todo = more] \/ loc'[p] = Visit(With(p), m, n)
    <3>1. Loop(p, [l EXCEPT !.todo = more]) \/ Loop(p, Visit(With(p), m, n))
      BY <2>1, Zenon DEF VisitNext
    <3> QED
      BY <3>1, NewLocals, Zenon
  <2>3. m.items = l.items /\ DOMAIN m = DOMAIN l
    <3> HIDE DEF l, rest
    <3> QED
      BY <1>a
  <2>4. \/ Visit(With(p), m, n) = m
        \/ Visit(With(p), m, n) = [m EXCEPT !.found = Append(@, x)]
        \/ Visit(With(p), m, n) = [m EXCEPT !.items = @ \cup {x}]
    BY DEF Visit
  <2> HIDE DEF m, x
  <2>5. y \in Visit(With(p), m, n).items
    BY <1>a, <1>c, <2>3, <2>4
  <2> HIDE DEF more, l
  <2>6. [l EXCEPT !.todo = more].items = l.items
    BY <1>a
  <2> QED
    BY <1>c, <2>2, <2>5, <2>6
<1>3. CASE w = "hide"
  <2> DEFINE xs == {x \in l.items : \/ Readable(p, x.path)
                                    \/ With(p) = "counts" /\ x.id = ""}
  <2>1. Hide(p)
    BY <1>3, RunDoes DEF Gates, Scans
  <2>2. loc'[p] = [l EXCEPT !.items = xs]
    BY <2>1, NewLocals, Zenon DEF Hide
  <2>3. y \in xs
    BY <1>3, <1>b, <1>c DEF Lets
  <2> HIDE DEF xs, l
  <2> QED
    BY <1>a, <2>2, <2>3
<1>4. CASE w = "below"
  <2> DEFINE s == Picked(l.found, {k \in DOMAIN l.found : Within(l.found[k].path, req[p].path)})
             xs == {x \in l.items : Within(x.path, req[p].path)}
  <2>1. SelectBelow(p)
    BY <1>4, RunDoes DEF Gates, Scans
  <2>2. loc'[p] = [l EXCEPT !.items = xs] \/ loc'[p] = [l EXCEPT !.found = s]
    <3>1. GoOn(p, IF With(p) = "items" THEN [l EXCEPT !.items = xs] ELSE [l EXCEPT !.found = s])
      BY <2>1, Zenon DEF SelectBelow
    <3> QED
      BY <3>1, NewLocals
  <2>3. y \in xs
    BY <1>4, <1>b, <1>c DEF Lets
  <2> HIDE DEF s, xs, l
  <2>4. loc'[p].items = l.items \/ loc'[p].items = xs
    BY <1>a, <2>2
  <2> QED
    BY <1>c, <2>3, <2>4
<1>5. CASE w = "changed"
  <2> DEFINE ys == {x \in ChangedSince(l) : Readable(p, x.path)}
             xs == l.items \cup ys
  <2>1. ReportChanged(p)
    BY <1>5, RunDoes DEF Gates, Scans
  <2>2. loc'[p] = [l EXCEPT !.items = xs]
    BY <2>1, NewLocals, Zenon DEF ReportChanged
  <2>3. y \in xs
    BY <1>c
  <2> HIDE DEF xs, l
  <2> QED
    BY <1>a, <2>2, <2>3
<1> QED
  BY <1>1, <1>2, <1>3, <1>4, <1>5
--------------------------------------------------------------------------------
\* A scan makes an entry of what is on its list, sooner or later.
LEMMA ScanTakes ==
    ASSUME NEW p \in Proc, Types, Run(p), ~Reply(p), NEW w \in Scans, Doing(p, w),
           code'[p] = "none", IsList(loc[p].targets), IsList(loc[p].found), LeftOf(p, w),
           NEW x \in Members(loc[p][With(p)]), NEW y, y = Member(x), y.ver # 0,
           w = "scanNotes" => y.path # Marker,
           loc[p].todo = <<>> \/ x \in Members(loc[p].todo) \/ y \in loc[p].items
    PROVE  x \in Members(loc'[p].todo) \/ y \in loc'[p].items
<1> DEFINE l == loc[p]
           left == IF l.todo = <<>> THEN l[With(p)] ELSE l.todo
           t == Head(left)
           z == Member(t)
           rest == Tail(left)
           xs == IF \/ z.ver = 0 /\ Now(p).do # "countEach"
                    \/ z.path = Marker /\ Now(p).do = "scanNotes"
                 THEN l.items ELSE l.items \cup {z}
<1>a. DOMAIN l = DOMAIN Locals /\ "items" \in DOMAIN l /\ "todo" \in DOMAIN l
  BY DEF Types, Locals
<1>b. Now(p).do = w
  BY DEF Doing
<1>1. ScanNext(p) \/ StoreFails(p)
  BY RunDoes DEF Gates, Scans
<1>2. \/ left = <<>> /\ loc'[p] = l
      \/ left # <<>> /\ loc'[p] = [l EXCEPT !.todo = rest, !.items = xs]
  <2>1. \/ left = <<>> /\ GoOn(p, l)
        \/ left # <<>> /\ Loop(p, [l EXCEPT !.todo = rest, !.items = xs])
        \/ Fail(p, "store")
    BY <1>1, Zenon DEF ScanNext, StoreFails
  <2>2. ~Fail(p, "store")
    BY Moved
  <2> QED
    BY <2>1, <2>2, NewLocals, Zenon
<1>3. CASE y \in l.items
  <2>1. y \in l.items => y \in xs
    OBVIOUS
  <2> HIDE DEF xs, rest, z, t, left, l
  <2>2. loc'[p].items = l.items \/ loc'[p].items = xs
    BY <1>a, <1>2
  <2> QED
    BY <1>3, <2>1, <2>2
<1>4. CASE y \notin l.items
  <2>1. x \in Members(left)
    BY <1>4
  <2>2. left # <<>>
    BY <2>1, NoMembers
  <2>3. IsList(left)
    <3>1. With(p) \in {"targets", "found"}
      BY InProgram DEF StepFits
    <3> QED
      BY <3>1 DEF LeftOf
  <2>4. x = t \/ x \in Members(rest)
    BY <2>1, <2>2, <2>3, RestKeeps
  <2>5. x = t => y \in xs
    BY <1>b
  <2> HIDE DEF xs, rest, z, t, left, l
  <2>6. loc'[p].todo = rest /\ loc'[p].items = xs
    BY <1>a, <1>2, <2>2
  <2> QED
    BY <2>4, <2>5, <2>6
<1> QED
  BY <1>3, <1>4

\* A report has all that is on its list in it.
LEMMA ReportTakes ==
    ASSUME NEW p \in Proc, Types, Run(p), ~Reply(p), Doing(p, "report"),
           NEW y \in Members(loc[p].found)
    PROVE  y \in loc'[p].items
<1> DEFINE l == loc[p]
           xs == Reported(l)
<1>1. Report(p)
  BY RunDoes DEF Gates, Scans
<1>2. loc'[p] = [l EXCEPT !.items = xs]
  BY <1>1, NewLocals, Zenon DEF Report
<1>3. y \in xs
  BY DEF Reported, Members
<1>4. "items" \in DOMAIN l
  BY DEF Types, Locals
<1> HIDE DEF xs, l
<1> QED
  BY <1>2, <1>3, <1>4

\* A report of changes has what is newer than the marker.
LEMMA ChangedTakes ==
    ASSUME NEW p \in Proc, Types, Run(p), ~Reply(p), Doing(p, "changed"),
           NEW y \in Members(loc[p].found), y.ver > loc[p].since, y.path # Marker,
           Readable(p, y.path)
    PROVE  y \in loc'[p].items
<1> DEFINE l == loc[p]
           ys == {x \in ChangedSince(l) : Readable(p, x.path)}
           xs == l.items \cup ys
<1>1. ReportChanged(p)
  BY RunDoes DEF Gates, Scans
<1>2. loc'[p] = [l EXCEPT !.items = xs]
  BY <1>1, NewLocals, Zenon DEF ReportChanged
<1>3. y \in xs
  BY DEF ChangedSince, Reported, Members
<1>4. "items" \in DOMAIN l
  BY DEF Types, Locals
<1> HIDE DEF xs, l
<1> QED
  BY <1>2, <1>3, <1>4

\* A scan begins with its whole list: before its first step nothing is left of another.
LEMMA BeginsEmpty ==
    ASSUME NEW p \in Proc, Types, Run(p), ~Reply(p), NEW w, Doing(p, w), code'[p] = "none",
           NEW s, s = Handler[req[p]], LeftBy(s, at[p], loc[p]),
           at'[p] = at[p] + 1, at'[p] \in DOMAIN s, s[at'[p]].do \in Scans
    PROVE  loc'[p].todo = <<>>
<1>1. /\ at[p] \in 1 .. Len(s) /\ DOMAIN s = 1 .. Len(s) /\ Len(s) \in Nat
      /\ StepFits(s, at[p]) /\ s[at[p]].do = w
  BY InProgram
<1>2. w \notin {"enter", "stage"}
  BY <1>1 DEF StepFits, Scans
<1>3. CASE w \in Loops
  <2>1. Hops(p, w)
    BY RunHops
  <2> QED
    BY <1>1, <1>2, <1>3, <2>1 DEF Hops, Loops, Scans
<1>4. CASE w \notin Loops
  <2>1. loc[p].todo = <<>>
    BY <1>1, <1>4 DEF LeftBy
  <2>2. "todo" \in DOMAIN Locals \ Touches(w)
    BY <1>2, <1>4 DEF Touches, Locals, Loops, Fillers, Sources
  <2>3. loc'[p].todo = loc[p].todo
    BY <2>2, RunTouches DEF Touched
  <2> QED
    BY <2>1, <2>3
<1> QED
  BY <1>3, <1>4
--------------------------------------------------------------------------------
\* The next name on the way from a directory to a path below it.
LEMMA NextName ==
    ASSUME NEW S, NEW q \in Seq(S), NEW T, NEW n \in Seq(T), Within(q, n), q # n,
           NEW c, c = SubSeq(q, 1, Len(n) + 1)
    PROVE  /\ Len(n) \in 0 .. Len(q) - 1 /\ Len(q) \in Nat
           /\ Len(c) = Len(n) + 1 /\ Parent(c) = n /\ Within(q, c)
           /\ Len(q) = Len(n) + 1 => c = q
<1>1. /\ Len(n) \in Nat /\ Len(q) \in Nat /\ Len(n) <= Len(q)
      /\ SubSeq(q, 1, Len(n)) = n
  BY DEF Within
<1>2. SubSeq(q, 1, Len(q)) = q
  OBVIOUS
<1>3. Len(n) < Len(q)
  BY <1>1, <1>2
<1>4. c \in Seq(S) /\ Len(c) = Len(n) + 1
  BY <1>1, <1>3
<1>5. SubSeq(c, 1, Len(n)) = SubSeq(q, 1, Len(n))
  BY <1>1, <1>3, <1>4
<1>6. Len(c) - 1 = Len(n)
  BY <1>1, <1>4
<1>7. Parent(c) = n
  BY <1>1, <1>5, <1>6 DEF Parent
<1>8. Within(q, c)
  BY <1>1, <1>3, <1>4 DEF Within
<1>9. Len(n) \in 0 .. Len(q) - 1
  BY <1>1, <1>3
<1>10. Len(q) = Len(n) + 1 => c = q
  BY <1>2
<1> QED
  BY <1>1, <1>4, <1>7, <1>8, <1>9, <1>10

\* The walk is on its way to q.
OnWay(todo, q) == \E n \in Members(todo) : n = q \/ (n \in Dir /\ Within(q, n))

\* A directory above a file that there is lists the file, or one nearer to it.
LEMMA EntriesLead ==
    ASSUME SharedOK, NEW q \in Path, tree[q] # 0, NEW n \in Dir, Within(q, n)
    PROVE  IsList(Entries(n)) /\ OnWay(Entries(n), q)
<1> DEFINE I == {i \in DOMAIN Order : /\ Order[i] # Root /\ Parent(Order[i]) = n
                                      /\ Order[i] \in dirs \/ Content(Order[i]) # 0}
           c == SubSeq(q, 1, Len(n) + 1)
<1>1. IsList(Order)
  BY HandlersAssumption, ListOf
<1>2. Entries(n) = Picked(Order, I)
  BY DEF Entries
<1>3. IsList(Entries(n))
  <2>1. I \subseteq DOMAIN Order
    OBVIOUS
  <2> HIDE DEF I
  <2> QED
    BY <1>1, <1>2, <2>1, ListPick
<1>4. q # n /\ q # Root
  BY HandlersAssumption
<1>5. PICK S, T : q \in Seq(S) /\ n \in Seq(T)
  BY HandlersAssumption
<1>6. /\ Len(n) \in 0 .. Len(q) - 1 /\ Len(q) \in Nat
      /\ Len(c) = Len(n) + 1 /\ Parent(c) = n /\ Within(q, c)
      /\ Len(q) = Len(n) + 1 => c = q
  <2> HIDE DEF c
  <2>1. c = SubSeq(q, 1, Len(n) + 1)
    BY DEF c
  <2>2. q \in Seq(S) /\ n \in Seq(T) /\ q # n /\ Within(q, n)
    BY <1>4, <1>5
  <2>3. \A x : x = SubSeq(q, 1, Len(n) + 1) =>
            /\ Len(n) \in 0 .. Len(q) - 1 /\ Len(q) \in Nat
            /\ Len(x) = Len(n) + 1 /\ Parent(x) = n /\ Within(q, x)
            /\ Len(q) = Len(n) + 1 => x = q
    BY <2>2, NextName, Zenon
  <2> QED
    BY <2>1, <2>3, Zenon
<1>7. c # Root /\ c \in Path \cup Dir /\ (c = q \/ c \in Dir)
  <2>1. c # Root
    BY <1>6 DEF Root
  <2>2. CASE Len(q) = Len(n) + 1
    BY <1>6, <2>1, <2>2
  <2>3. CASE Len(q) # Len(n) + 1
    <3>1. Len(n) + 1 \in 0 .. Len(q) - 1
      BY <1>6, <2>3
    <3>2. SubSeq(q, 1, Len(n) + 1) \in Dir
      BY <3>1, HandlersAssumption
    <3> QED
      BY <2>1, <3>2
  <2> QED
    BY <2>2, <2>3
<1>8. c \in dirs \/ Content(c) # 0
  <2>1. CASE c = q
    BY <2>1 DEF Content
  <2>2. CASE c \in Dir
    <3> HIDE DEF c
    <3> QED
      BY <1>6, <2>2 DEF SharedOK
  <2> QED
    BY <1>7, <2>1, <2>2
<1> HIDE DEF c
<1>9. PICK i \in DOMAIN Order : Order[i] = c
  <2>1. c \in (Path \cup Dir) \ {Root}
    BY <1>7
  <2>2. (Path \cup Dir) \ {Root} \subseteq {Order[j] : j \in DOMAIN Order}
    BY HandlersAssumption
  <2> QED
    BY <2>1, <2>2
<1>10. i \in I
  BY <1>6, <1>7, <1>8, <1>9
<1>11. c \in Members(Entries(n))
  <2>1. I \subseteq DOMAIN Order
    OBVIOUS
  <2> HIDE DEF I
  <2> QED
    BY <1>1, <1>2, <1>9, <1>10, <2>1, PickKeeps
<1>12. OnWay(Entries(n), q)
  BY <1>6, <1>7, <1>11 DEF OnWay
<1> QED
  BY <1>3, <1>12

\* What the walk has made of entry e.
Noted(p, l, e) == IF With(p) = "collect" THEN e \in Members(l.found) ELSE e \in l.items

\* A walk that is on its way to a file comes nearer or notes it, and forgets nothing.
LEMMA Walks ==
    ASSUME NEW p, Run(p), Doing(p, "walk")
    PROVE  VisitNext(p)
  BY RunDoes DEF Gates, Scans

LEMMA WalkTakes ==
    ASSUME NEW p \in Proc, Types, SharedOK, Run(p), ~Reply(p), Doing(p, "walk"),
           NEW q \in Path, tree[q] # 0, NEW e, e = Entry("", q, tree[q]),
           IsList(loc[p].todo), loc[p].todo # <<>>, IsList(loc[p].found),
           With(p) \in {"collect", "read", "list"}, With(p) = "list" => ~Derived(q),
           OnWay(loc[p].todo, q) \/ Noted(p, loc[p], e)
    PROVE  /\ IsList(loc'[p].todo)
           /\ OnWay(loc'[p].todo, q) \/ Noted(p, loc'[p], e)
<1> DEFINE l == loc[p]
           n == Head(l.todo)
           rest == Tail(l.todo)
           more == Entries(n) \o rest
           m == [l EXCEPT !.todo = rest]
           x == Entry("", n, Content(n))
<1>a. /\ DOMAIN l = DOMAIN Locals
      /\ "items" \in DOMAIN l /\ "todo" \in DOMAIN l /\ "found" \in DOMAIN l
  BY DEF Types, Locals
<1>b. q \notin Dir /\ Content(q) = tree[q]
  BY HandlersAssumption DEF Content
<1>1. VisitNext(p)
  BY Walks
<1>2. \/ n \in Dir /\ loc'[p] = [l EXCEPT !.todo = more]
      \/ n \notin Dir /\ loc'[p] = Visit(With(p), m, n)
  <2>1. \/ n \in Dir /\ Loop(p, [l EXCEPT !.todo = more])
        \/ n \notin Dir /\ Loop(p, Visit(With(p), m, n))
    BY <1>1, Zenon DEF VisitNext
  <2> QED
    BY <2>1, NewLocals, Zenon
<1>3. IsList(rest)
  BY ListRest
<1>4. OnWay(l.todo, q) => \/ n = q \/ (n \in Dir /\ Within(q, n))
                          \/ OnWay(rest, q)
  <2> SUFFICES ASSUME NEW k \in Members(l.todo), k = q \/ (k \in Dir /\ Within(q, k))
               PROVE  \/ n = q \/ (n \in Dir /\ Within(q, n))
                      \/ OnWay(rest, q)
    BY DEF OnWay
  <2>1. k = n \/ k \in Members(rest)
    BY RestKeeps
  <2> QED
    BY <2>1 DEF OnWay
<1>5. CASE n \in Dir
  <2>1. IsList(Entries(n))
    <3>1. IsList(Order)
      BY HandlersAssumption, ListOf
    <3> QED
      BY <3>1, ListPick DEF Entries
  <2>2. IsList(more)
    BY <1>3, <2>1, ListJoin
  <2>3. OnWay(rest, q) \/ OnWay(Entries(n), q) => OnWay(more, q)
    BY <1>3, <2>1, JoinKeeps DEF OnWay
  <2>4. Within(q, n) => OnWay(Entries(n), q)
    BY <1>5, EntriesLead
  <2>5. OnWay(more, q) \/ Noted(p, l, e)
    BY <1>4, <1>5, <1>b, <2>3, <2>4
  <2> HIDE DEF more, l
  <2>6. loc'[p].todo = more /\ loc'[p].items = l.items /\ loc'[p].found = l.found
    BY <1>a, <1>2, <1>5
  <2> QED
    BY <2>2, <2>5, <2>6 DEF Noted
<1>6. CASE n \notin Dir
  <2>1. /\ m.items = l.items /\ m.found = l.found /\ m.todo = rest
        /\ DOMAIN m = DOMAIN l
    <3> HIDE DEF l, rest
    <3> QED
      BY <1>a
  <2>2. loc'[p] = Visit(With(p), m, n)
    BY <1>2, <1>6
  <2>3. n = q => x = e /\ x.ver # 0 /\ x.ver = tree[q]
    BY <1>b DEF Entry
  <2> HIDE DEF rest
  <2>4. CASE With(p) = "collect"
    <3>1. loc'[p] = IF x.ver # 0 THEN [m EXCEPT !.found = Append(m.found, x)] ELSE m
      BY <2>2, <2>4 DEF Visit
    <3>2. Members(l.found) \cup {x} \subseteq Members(Append(l.found, x))
      BY AppendKeeps
    <3> HIDE DEF x, m, l
    <3>3. /\ loc'[p].todo = rest
          /\ loc'[p].found = IF x.ver # 0 THEN Append(l.found, x) ELSE l.found
      BY <1>a, <2>1, <3>1
    <3> QED
      BY <1>3, <1>4, <1>6, <2>3, <2>4, <3>2, <3>3 DEF Noted, l
  <2>5. CASE With(p) # "collect"
    <3>1. \/ loc'[p] = [m EXCEPT !.items = m.items \cup {x}]
          \/ loc'[p] = m /\ (x.ver = 0 \/ (With(p) = "list" /\ Derived(n)))
      BY <2>2, <2>5 DEF Visit
    <3> HIDE DEF x, m, l
    <3>2. /\ loc'[p].todo = rest
          /\ \/ loc'[p].items = l.items \cup {x}
             \/ loc'[p].items = l.items /\ (x.ver = 0 \/ (With(p) = "list" /\ Derived(n)))
      BY <1>a, <2>1, <3>1
    <3> QED
      BY <1>3, <1>4, <1>6, <2>3, <2>5, <3>2 DEF Noted, l
  <2> QED
    BY <2>4, <2>5
<1> QED
  BY <1>5, <1>6
--------------------------------------------------------------------------------
\* Manifest m has file q in domain id, and so have all that a request of p may have met.
Names(m, id, q) == \E d \in Domains(m) : d.id = id /\ Parent(q) = d.path /\ Declares(d, Base(q))
AllName(p, id, q) == \A m \in during[p].regs : Names(m, id, q)

\* A file has its target in every domain that names it, and only one in a valid manifest.
LEMMA NamedTarget ==
    ASSUME NEW q \in Path, NEW m, NEW id, Names(m, id, q)
    PROVE  /\ \E d \in Domains(m) : /\ d.id = id /\ Declares(d, Base(q))
                                    /\ Target(d, Base(q)) = Entry(id, q, 0)
           /\ Valid(m) => /\ Resolves(m, id, Base(q))
                          /\ Target(Get(m, id), Base(q)) = Entry(id, q, 0)
<1>1. Append(Parent(q), Base(q)) = q
  <2>1. PICK S : q \in Seq(S)
    BY HandlersAssumption
  <2>2. q # Root
    BY HandlersAssumption
  <2>3. Len(q) \in Nat /\ Len(q) # 0
    BY <2>1, <2>2 DEF Root
  <2>4. Parent(q) \in Seq(S) /\ Len(Parent(q)) = Len(q) - 1
    <3>1. PICK n \in Nat : n = Len(q) - 1
      BY <2>3
    <3>2. SubSeq(q, 1, n) \in Seq(S) /\ Len(SubSeq(q, 1, n)) = n
      BY <2>1, <2>3, <3>1
    <3> QED
      BY <3>1, <3>2 DEF Parent
  <2> DEFINE x == Append(Parent(q), Base(q))
  <2>5. Base(q) \in S
    BY <2>1, <2>3 DEF Base
  <2>6. x \in Seq(S) /\ Len(x) = Len(q)
    BY <2>3, <2>4, <2>5
  <2>7. \A k \in 1 .. Len(q) : x[k] = q[k]
    BY <2>1, <2>3, <2>4, <2>5 DEF Parent, Base
  <2> HIDE DEF x
  <2>8. x = q
    BY <2>1, <2>6, <2>7
  <2> QED
    BY <2>8 DEF x
<1>2. PICK d \in Domains(m) : d.id = id /\ Parent(q) = d.path /\ Declares(d, Base(q))
  BY DEF Names
<1>3. Target(d, Base(q)) = Entry(id, q, 0)
  BY <1>1, <1>2 DEF Target, Entry
<1>4. ASSUME Valid(m)
      PROVE  Get(m, id) = d
  <2>1. \A x \in Domains(m) : x.id = id => x = d
    BY <1>2, <1>4 DEF Valid, Domains
  <2> QED
    BY <1>2, <2>1 DEF Get
<1>5. Known(m, id)
  BY <1>2 DEF Known
<1> QED
  BY <1>2, <1>3, <1>4, <1>5 DEF Resolves

\* The manifest that answers a call names what all name.
LEMMA AnswerNames ==
    ASSUME NEW p \in Proc, Observe, at'[p] # 0, Query(p), NEW id, NEW q, AllName(p, id, q)'
    PROVE  Names(reg, id, q)
<1>1. reg \in during'[p].regs
  BY HistoryGrows
<1> QED
  BY <1>1 DEF AllName, Names

\* ActionItems and the like list the file of each domain that declares it.
LEMMA TargetsTake ==
    ASSUME NEW p \in Proc, Types, SharedOK, Observe, at'[p] # 0, Run(p), Doing(p, "targets"),
           NEW q \in Path, With(p) = Base(q), NEW id, AllName(p, id, q)'
    PROVE  Entry(id, q, 0) \in Members(loc'[p].targets)
<1> DEFINE l == loc[p]
           ts == Targets(reg, With(p))
<1>1. ListTargets(p)
  BY RunDoes DEF Gates, Scans
<1>2. Query(p) /\ loc'[p] = [l EXCEPT !.targets = ts]
  BY <1>1, NewLocals, Zenon DEF ListTargets
<1>3. PICK m \in Manifests : m = reg /\ Names(m, id, q)
  BY <1>2, AnswerNames DEF SharedOK
<1>4. Entry(id, q, 0) \in Members(Targets(m, With(p)))
  <2>1. PICK d \in Domains(m) : /\ d.id = id /\ Declares(d, Base(q))
                                /\ Target(d, Base(q)) = Entry(id, q, 0)
    BY <1>3, NamedTarget
  <2>2. Target(d, Base(q)) \in Members(Targets(m, Base(q)))
    BY <1>3, <2>1, TargetsHold
  <2> QED
    BY <2>1, <2>2
<1>5. "targets" \in DOMAIN l
  BY DEF Types, Locals
<1>6. Entry(id, q, 0) \in Members(ts)
  BY <1>3, <1>4
<1> HIDE DEF l, ts
<1>7. loc'[p].targets = ts
  BY <1>2, <1>5
<1> QED
  BY <1>6, <1>7

\* ResolveFile does for the domain that Get gave.
LEMMA ResolveTakes ==
    ASSUME NEW p \in Proc, Types, SharedOK, Observe, at'[p] # 0, code'[p] = "none",
           Run(p), Doing(p, "resolve"), NEW q \in Path, With(p) = Base(q), NEW id,
           loc[p].dom[1].id = id, AllName(p, id, q)'
    PROVE  Entry(id, q, 0) \in Members(loc'[p].targets)
<1> DEFINE l == loc[p]
           t == Target(Get(reg, id), With(p))
<1>1. ResolveFile(p)
  BY RunDoes DEF Gates, Scans
<1>2. Query(p) /\ loc'[p] = [l EXCEPT !.targets = <<t>>]
  <2>1. Query(p) /\ (GoOn(p, [l EXCEPT !.targets = <<t>>]) \/ Fail(p, "invalid"))
    BY <1>1, Zenon DEF ResolveFile
  <2>2. ~Fail(p, "invalid")
    BY Moved
  <2> QED
    BY <2>1, <2>2, NewLocals, Zenon
<1>3. PICK m : m = reg /\ Names(m, id, q) /\ Valid(m)
  BY <1>2, AnswerNames DEF SharedOK
<1>4. Target(Get(m, id), Base(q)) = Entry(id, q, 0)
  BY <1>3, NamedTarget
<1>5. t = Entry(id, q, 0)
  BY <1>3, <1>4
<1>6. "targets" \in DOMAIN l
  BY DEF Types, Locals
<1> HIDE DEF l, t
<1>7. loc'[p].targets = <<t>>
  BY <1>2, <1>6
<1> QED
  BY <1>5, <1>7, ListFew

\* Get gives the domain that is asked for, from a registry of the time.
LEMMA GetGives ==
    ASSUME NEW p \in Proc, Types, SharedOK, Observe, at'[p] # 0, code'[p] = "none",
           Run(p), Doing(p, "get")
    PROVE  \E m \in during'[p].regs : /\ Known(m, req[p].domain)
                                      /\ loc'[p].dom = <<Get(m, req[p].domain)>>
<1> DEFINE l == loc[p]
           id == req[p].domain
           ds == <<Get(reg, id)>>
<1>1. GetDomain(p)
  BY RunDoes DEF Gates, Scans
<1>2. Query(p) /\ Known(reg, id) /\ loc'[p] = [l EXCEPT !.dom = ds]
  <2>1. Query(p) /\ ((Known(reg, id) /\ GoOn(p, [l EXCEPT !.dom = ds])) \/ Fail(p, With(p)))
    BY <1>1, Zenon DEF GetDomain
  <2>2. With(p) \in {"invalid", "store"}
    BY InProgram DEF StepFits
  <2>3. ~Fail(p, With(p))
    BY <2>2, Moved
  <2> QED
    BY <2>1, <2>3, NewLocals, Zenon
<1>3. reg \in during'[p].regs
  BY <1>2, HistoryGrows
<1>4. "dom" \in DOMAIN l
  BY DEF Types, Locals
<1> HIDE DEF l, ds
<1>5. loc'[p].dom = ds
  BY <1>2, <1>4
<1> QED
  BY <1>2, <1>3, <1>5 DEF ds

\* It has the id that was asked for.
LEMMA GotID ==
    ASSUME NEW m, NEW id, Known(m, id)
    PROVE  Get(m, id) \in Domains(m) /\ Get(m, id).id = id
  BY DEF Known, Get

\* List lists every domain that is named.
LEMMA DomainsGive ==
    ASSUME NEW p \in Proc, Types, SharedOK, Observe, at'[p] # 0, Run(p), Doing(p, "domains"),
           With(p) = "all", NEW id, NEW q, AllName(p, id, q)'
    PROVE  IsList(loc'[p].doms) /\ \E k \in DOMAIN loc'[p].doms : loc'[p].doms[k].id = id
<1> DEFINE l == loc[p]
           ds == Picked(reg, DOMAIN reg)
<1>1. ListDomains(p)
  BY RunDoes DEF Gates, Scans
<1>2. Query(p) /\ loc'[p] = [l EXCEPT !.doms = ds]
  <2> DEFINE I == {i \in DOMAIN reg : CASE With(p) = "all" -> TRUE
                                         [] With(p) = "top" -> Readable(p, reg[i].top)
                                         [] OTHER -> Readable(p, reg[i].path)}
  <2>1. Query(p) /\ loc'[p] = [l EXCEPT !.doms = Picked(reg, I)]
    BY <1>1, NewLocals, Zenon DEF ListDomains
  <2>2. I = DOMAIN reg
    OBVIOUS
  <2> HIDE DEF I, l
  <2> QED
    BY <2>1, <2>2
<1>3. PICK m \in Manifests : m = reg /\ Names(m, id, q)
  BY <1>2, AnswerNames DEF SharedOK
<1>4. IsList(m)
  BY HandlersAssumption DEF IsList, Domains, Members
<1>5. PICK i \in DOMAIN m : m[i].id = id
  BY <1>3 DEF Names, Domains
<1>6. IsList(ds) /\ m[i] \in Members(ds)
  <2>1. IsList(Picked(m, DOMAIN m)) /\ m[i] \in Members(Picked(m, DOMAIN m))
    BY <1>4, PickKeeps, ListPick
  <2> QED
    BY <1>3, <2>1
<1>7. "doms" \in DOMAIN l
  BY DEF Types, Locals
<1> HIDE DEF l, ds
<1>8. loc'[p].doms = ds
  BY <1>2, <1>7
<1> QED
  BY <1>5, <1>6, <1>8 DEF Members

\* The three files of a domain are on the list of what is to be resolved.
Pair(id, file) == [id |-> id, file |-> file]

LEMMA ThriceHas ==
    ASSUME NEW ds, IsList(ds), NEW k \in DOMAIN ds,
           NEW file \in {"observations", "action-items", "hot-memory"}
    PROVE  IsList(Thrice(ds)) /\ Pair(ds[k].id, file) \in Members(Thrice(ds))
<1> DEFINE n == 3 * Len(ds)
           D(i) == (i + 2) \div 3
           M(i) == ((i - 1) % 3) + 1
           h == Thrice(ds)
<1>1. DOMAIN ds = 1 .. Len(ds) /\ Len(ds) \in Nat
  <2> DEFINE S == Members(ds)
  <2>1. ds \in Seq(S)
    BY DEF IsList
  <2> HIDE DEF S
  <2> QED
    BY <2>1
<1>2. PICK j \in 1 .. 3 : HousekeepingFiles[j] = file
  BY DEF HousekeepingFiles
<1>3. PICK i \in Nat : i = 3 * (k - 1) + j
  BY <1>1
<1>4. i \in 1 .. n /\ D(i) = k /\ M(i) = j
  <2>1. i \in 1 .. n
    BY <1>1, <1>3
  <2>2. CASE j = 1
    BY <1>1, <1>3, <2>1, <2>2
  <2>3. CASE j = 2
    <3>1. i + 2 = 3 * k + 1 /\ i - 1 = 3 * (k - 1) + 1 /\ k \in Nat /\ k - 1 \in Nat
      BY <1>1, <1>3, <2>3
    <3>2. \A a \in Nat : (3 * a + 1) \div 3 = a /\ (3 * a + 1) % 3 = 1
      OBVIOUS
    <3> QED
      BY <2>1, <2>3, <3>1, <3>2
  <2>4. CASE j = 3
    <3>1. i + 2 = 3 * k + 2 /\ i - 1 = 3 * (k - 1) + 2 /\ k \in Nat /\ k - 1 \in Nat
      BY <1>1, <1>3, <2>4
    <3>2. \A a \in Nat : (3 * a + 2) \div 3 = a /\ (3 * a + 2) % 3 = 2
      OBVIOUS
    <3> QED
      BY <2>1, <2>4, <3>1, <3>2
  <2> QED
    BY <1>2, <2>2, <2>3, <2>4
<1>5. h = [e \in 1 .. n |-> [id |-> ds[D(e)].id, file |-> HousekeepingFiles[M(e)]]]
  BY DEF Thrice
<1> HIDE DEF h, D, M
<1>6. i \in DOMAIN h /\ h[i] = Pair(ds[k].id, file)
  BY <1>2, <1>4, <1>5 DEF Pair
<1>7. n \in Nat
  BY <1>1
<1> HIDE DEF n
<1>8. h \in Seq({[id |-> ds[D(e)].id, file |-> HousekeepingFiles[M(e)]] : e \in 1 .. n})
  BY <1>5, <1>7
<1> QED
  BY <1>6, <1>8, ListOf DEF Members, h

\* Where housekeeping_scan is with the file of domain id that has target x.
Resolving(l, id, file, x) ==
    \/ l.todo = <<>> /\ IsList(l.doms) /\ \E k \in DOMAIN l.doms : l.doms[k].id = id
    \/ l.todo # <<>> /\ IsList(l.todo) /\ Pair(id, file) \in Members(l.todo)
    \/ x \in Members(l.targets)

\* The file is resolved, sooner or later.
LEMMA EachTakes ==
    ASSUME NEW p \in Proc, Types, SharedOK, Observe, at'[p] # 0, Run(p),
           Doing(p, "resolveEach"), IsList(loc[p].targets),
           NEW q \in Path, Base(q) \in {"observations", "action-items", "hot-memory"},
           NEW id, AllName(p, id, q)', NEW x, x = Entry(id, q, 0),
           Resolving(loc[p], id, Base(q), x)
    PROVE  \/ IsList(loc'[p].todo) /\ Pair(id, Base(q)) \in Members(loc'[p].todo)
           \/ x \in Members(loc'[p].targets)
<1> DEFINE l == loc[p]
           left == IF l.todo = <<>> THEN Thrice(l.doms) ELSE l.todo
           first == Head(left)
           t == Target(Get(reg, first.id), first.file)
           rest == Tail(left)
           ts == IF ~Resolves(reg, first.id, first.file) THEN l.targets
                 ELSE IF first.file = "observations" THEN l.targets \o <<t, t>>
                 ELSE Append(l.targets, t)
           pair == Pair(id, Base(q))
<1>a. DOMAIN l = DOMAIN Locals /\ {"targets", "todo", "doms"} \subseteq DOMAIN l
  BY DEF Types, Locals
<1>1. ResolveEach(p)
  BY RunDoes DEF Gates, Scans
<1>2. \/ left = <<>> /\ loc'[p] = l
      \/ left # <<>> /\ Query(p) /\ loc'[p] = [l EXCEPT !.todo = rest, !.targets = ts]
  <2>1. \/ left = <<>> /\ GoOn(p, l)
        \/ left # <<>> /\ Query(p) /\ Loop(p, [l EXCEPT !.todo = rest, !.targets = ts])
    BY <1>1, Zenon DEF ResolveEach
  <2> QED
    BY <2>1, NewLocals, Zenon
<1>3. \/ IsList(left) /\ pair \in Members(left)
      \/ x \in Members(l.targets)
  <2>1. CASE l.todo = <<>> /\ IsList(l.doms) /\ \E k \in DOMAIN l.doms : l.doms[k].id = id
    <3>1. PICK k \in DOMAIN l.doms : l.doms[k].id = id
      BY <2>1
    <3>2. IsList(Thrice(l.doms)) /\ pair \in Members(Thrice(l.doms))
      BY <2>1, <3>1, ThriceHas
    <3> QED
      BY <2>1, <3>2
  <2>2. CASE l.todo # <<>> /\ IsList(l.todo) /\ pair \in Members(l.todo)
    BY <2>2
  <2> HIDE DEF left, l
  <2> QED
    BY <2>1, <2>2 DEF Resolving, l
<1>4. Members(l.targets) \subseteq Members(ts) /\ (Resolves(reg, first.id, first.file) => t \in Members(ts))
  <2>1. PICK s : s = l.targets
    OBVIOUS
  <2>2. IsList(s)
    BY <2>1
  <2> HIDE DEF t, first, left, l
  <2>3. IsList(<<t, t>>) /\ Members(<<t, t>>) = {t}
    BY ListFew
  <2>4. Members(s) \cup {t} \subseteq Members(s \o <<t, t>>)
    BY <2>2, <2>3, JoinKeeps
  <2>5. Members(s) \cup {t} \subseteq Members(Append(s, t))
    BY <2>2, AppendKeeps
  <2> QED
    BY <2>1, <2>4, <2>5
<1>5. ASSUME left # <<>>, Query(p)
      PROVE  \/ IsList(rest) /\ pair \in Members(rest)
             \/ x \in Members(ts)
  <2>1. CASE x \in Members(l.targets)
    BY <1>4, <2>1
  <2>2. CASE IsList(left) /\ pair \in Members(left)
    <3>1. pair = first \/ (IsList(rest) /\ pair \in Members(rest))
      <4> HIDE DEF left, pair
      <4> QED
        BY <1>5, <2>2, ListRest, RestKeeps
    <3>2. ASSUME pair = first
          PROVE  x \in Members(ts)
      <4>1. first.id = id /\ first.file = Base(q)
        BY <3>2 DEF Pair
      <4>2. PICK m : m = reg /\ Names(m, id, q) /\ Valid(m)
        BY <1>5, AnswerNames DEF SharedOK
      <4>3. Resolves(m, id, Base(q)) /\ Target(Get(m, id), Base(q)) = x
        BY <4>2, NamedTarget
      <4> HIDE DEF ts, first
      <4> QED
        BY <1>4, <4>1, <4>2, <4>3
    <3> QED
      BY <3>1, <3>2
  <2> QED
    BY <1>3, <2>1, <2>2
<1>6. CASE left = <<>>
  <2>1. x \in Members(l.targets)
    <3> HIDE DEF left, l, pair
    <3> QED
      BY <1>3, <1>6, NoMembers
  <2>2. loc'[p] = l
    BY <1>2, <1>6
  <2> QED
    BY <2>1, <2>2
<1>7. CASE left # <<>>
  <2> HIDE DEF left, rest, ts, pair, l
  <2>1. /\ loc'[p].todo = rest /\ loc'[p].targets = ts
    BY <1>2, <1>7, <1>a
  <2>2. Query(p)
    BY <1>2, <1>7
  <2> QED
    BY <1>5, <1>7, <2>1, <2>2 DEF l, pair
<1> QED
  BY <1>6, <1>7
--------------------------------------------------------------------------------
\* How program s brings a file into the answer: step c puts it on list v, or, without
\* a list, into the answer itself, and step d > c reads the list.  The steps between
\* leave it on the list and those behind leave it in the answer, but for the filters.
Line(s, c, d, v) ==
    /\ c \in Nat /\ d \in Nat \cap DOMAIN s /\ 1 < c /\ c <= d /\ v \in {"targets", "found"}
    /\ \A k \in 1 .. c : s[k].do \notin {"nextFile", "exists", "content", "entities"}
    /\ s[c].do \in (IF v = "found" THEN {"walk"} ELSE {"targets", "resolve", "resolveEach"})
    /\ IF c = d THEN v = "found" /\ s[c].with \in {"read", "list"}
       ELSE /\ s[d].do \in Scans \cup (IF v = "found" THEN {"report", "changed"} ELSE {})
            /\ s[d].with = v /\ (v = "found" => s[c].with = "collect")
    /\ \A k \in c + 1 .. d - 1 : s[k].do \in Between(v)
    /\ \A k \in d + 1 .. Len(s) : s[k].do \in {"hide", "below", "changed"}

\* File q, in domain id, is one of those that step c finds.
Fed(p, s, c, id, q) ==
    \/ /\ s[c].do = "walk" /\ s[c - 1].do = "enter" /\ id = ""
       /\ s[c - 1].with \in {Root, Scenarios, Glacier, Wiki}
       /\ Below(q, s[c - 1].with) /\ (s[c].with = "list" => ~Derived(q))
    \/ s[c].do = "targets" /\ s[c].with = Base(q)
    \/ /\ s[c].do = "resolve" /\ s[c].with = Base(q) /\ s[c - 1].do = "get" /\ req[p].domain = id
    \/ /\ s[c].do = "resolveEach" /\ s[c - 1].do = "domains" /\ s[c - 1].with = "all"
       /\ Base(q) \in {"observations", "action-items", "hot-memory"}

\* What the file is on its way: x on the list, y in the answer.
Due(v, y) == IF v = "found" THEN y ELSE Entry(y.id, y.path, 0)

\* Step c will find it, if it has not already.
Ready(l, s, c, d, x, y) ==
    /\ s[c].do = "walk" => /\ l.todo # <<>> /\ IsList(l.todo)
                           /\ OnWay(l.todo, y.path) \/ (IF c = d THEN y \in l.items ELSE x \in Members(l.found))
    /\ s[c].do = "resolve" => l.dom[1].id = y.id
    /\ s[c].do = "resolveEach" => Resolving(l, y.id, Base(y.path), x)

\* Step d has not begun, or has it before it or behind it.
Reading(l, s, d, x, y) ==
    s[d].do \in Scans => l.todo = <<>> \/ x \in Members(l.todo) \/ y \in l.items

\* Where it is when step n is next.
Carries(n, l, s, c, d, v, x, y) ==
    /\ n = c => Ready(l, s, c, d, x, y)
    /\ c < n /\ n <= d => x \in Members(l[v])
    /\ c < d /\ n = d => Reading(l, s, d, x, y)
    /\ d < n => y \in l.items

\* A step w of p, in program s, that does not fail.
Stepping(p, w, s) ==
    /\ p \in Proc /\ Types /\ SharedOK /\ SharedOK' /\ Observe /\ at'[p] # 0 /\ code'[p] = "none"
    /\ Run(p) /\ ~Reply(p) /\ Doing(p, w) /\ s = Handler[req[p]]
    /\ SoundBy(loc[p], during[p]) /\ LeftBy(s, at[p], loc[p])

LEMMA Steps ==
    ASSUME NEW p, NEW w, NEW s, Stepping(p, w, s)
    PROVE  /\ at[p] \in 1 .. Len(s) /\ Len(s) \in Nat /\ DOMAIN s = 1 .. Len(s)
           /\ StepFits(s, at[p]) /\ s[at[p]].do = w /\ s[at[p]].with = With(p) /\ Now(p) = s[at[p]]
           /\ IsList(loc[p].targets) /\ IsList(loc[p].found)
           /\ LeftOf(p, w) /\ LeftBy(s, at'[p], loc'[p]) /\ Hops(p, w)
           /\ w \notin Loops => loc[p].todo = <<>>
<1>1. /\ p \in Proc /\ Types /\ code'[p] = "none" /\ Run(p) /\ ~Reply(p) /\ Doing(p, w)
      /\ s = Handler[req[p]] /\ SoundBy(loc[p], during[p]) /\ LeftBy(s, at[p], loc[p])
  BY DEF Stepping
<1>2. /\ at[p] \in 1 .. Len(s) /\ Len(s) \in Nat /\ DOMAIN s = 1 .. Len(s)
      /\ StepFits(s, at[p]) /\ s[at[p]].do = w /\ s[at[p]].with = With(p)
  BY <1>1, InProgram
<1>3. IsList(loc[p].targets) /\ IsList(loc[p].found)
  BY <1>1 DEF SoundBy
<1>4. LeftOf(p, w) /\ LeftBy(s, at'[p], loc'[p])
  BY <1>1, <1>3, StepLeaves
<1>5. Hops(p, w)
  BY <1>1, RunHops
<1>6. w \notin Loops => loc[p].todo = <<>>
  BY <1>1, <1>2 DEF LeftBy
<1>7. Now(p) = s[at[p]]
  BY <1>1 DEF Now
<1> QED
  BY <1>2, <1>3, <1>4, <1>5, <1>6, <1>7

\* File q, in domain id, is what program s is to bring into the answer by steps c and d.
Course(p, s, c, d, v, id, q) ==
    /\ q \in Path /\ tree[q] # 0 /\ Line(s, c, d, v) /\ Fed(p, s, c, id, q)
    /\ v = "targets" => AllName(p, id, q)'
    /\ Takes(p, q, s[d])
    /\ \A k \in c + 1 .. Len(s) : Lets(p, q, s[k])

LEMMA DirAbove ==
    ASSUME NEW q \in Path, NEW D \in {Root, Scenarios, Glacier, Wiki}, Below(q, D)
    PROVE  D \in Dir
<1>1. PICK S : q \in Seq(S)
  BY HandlersAssumption
<1>2. D = SubSeq(q, 1, Len(D)) /\ Len(D) <= Len(q) /\ D # q
  BY DEF Below, Within
<1>3. Len(q) \in Nat /\ SubSeq(q, 1, Len(q)) = q
  BY <1>1
<1>4. PICK n \in Nat : n = Len(D)
  BY DEF Root, Scenarios, Glacier, Wiki
<1>5. n # Len(q)
  BY <1>2, <1>3, <1>4
<1>6. n \in 0 .. Len(q) - 1
  <2>1. n <= Len(q)
    BY <1>2, <1>4
  <2>2. PICK m \in Nat : m = Len(q)
    BY <1>3
  <2>3. n <= m /\ n # m
    BY <1>5, <2>1, <2>2
  <2>4. n \in 0 .. m - 1
    BY <2>3
  <2> QED
    BY <2>2, <2>4
<1> QED
  BY <1>2, <1>4, <1>6, HandlersAssumption

\* Before step c, a step comes nearer to it or gets it ready.
LEMMA BeforeLine ==
    ASSUME NEW p, NEW w, NEW s, Stepping(p, w, s), NEW c, NEW d, NEW v, NEW id, NEW q,
           Course(p, s, c, d, v, id, q), NEW x, NEW y, y = Entry(id, q, tree[q]),
           at[p] < c
    PROVE  at'[p] < c \/ (at'[p] = c /\ Ready(loc'[p], s, c, d, x, y))
<1> DEFINE n == at[p]
           l == loc[p]
           D == With(p)
<1>1. /\ n \in 1 .. Len(s) /\ Len(s) \in Nat /\ DOMAIN s = 1 .. Len(s)
      /\ StepFits(s, n) /\ s[n].do = w /\ s[n].with = With(p) /\ Now(p) = s[n]
      /\ Hops(p, w) /\ (w \notin Loops => l.todo = <<>>)
  BY Steps
<1>2. Line(s, c, d, v) /\ Fed(p, s, c, id, q) /\ q \in Path /\ tree[q] # 0
  BY DEF Course
<1>3. c \in Nat /\ w \notin {"nextFile", "exists", "content", "entities"}
  <2>1. c \in Nat /\ n \in 1 .. c
    BY <1>1, <1>2 DEF Line
  <2> QED
    BY <1>1, <1>2, <2>1 DEF Line
<1>4. y.id = id /\ y.path = q
  BY DEF Entry
<1>5. CASE n + 1 = c /\ s[c].do = "walk"
  <2>1. w = "enter" /\ D \in {Root, Scenarios, Glacier, Wiki} /\ Below(q, D)
    <3>1. c - 1 = n
      BY <1>1, <1>5
    <3> QED
      BY <1>1, <1>2, <1>5, <3>1 DEF Fed
  <2>2. D \in Dir
    BY <1>2, <2>1, DirAbove
  <2>3. D \in dirs
    BY <1>2, <2>1, <2>2 DEF Stepping, SharedOK, Below
  <2>4. EnterDir(p)
    BY <2>1, RunDoes DEF Stepping, Gates, Scans
  <2>5. GoOn(p, [l EXCEPT !.todo = <<D>>])
    BY <2>3, <2>4, Zenon DEF EnterDir
  <2>6. at'[p] = n + 1 /\ loc'[p] = [l EXCEPT !.todo = <<D>>]
    BY <2>5, Moved, NewLocals DEF Stepping
  <2>7. "todo" \in DOMAIN l
    BY DEF Stepping, Types, Locals
  <2>8. IsList(<<D>>) /\ Members(<<D>>) = {D} /\ <<D>> # <<>>
    BY ListFew
  <2>9. OnWay(<<D>>, q)
    BY <2>1, <2>2, <2>8 DEF OnWay, Below
  <2> HIDE DEF l, D
  <2>10. loc'[p].todo = <<D>>
    BY <2>6, <2>7
  <2> QED
    BY <1>4, <1>5, <2>6, <2>8, <2>9, <2>10 DEF Ready
<1>6. CASE n + 1 = c /\ s[c].do = "resolve"
  <2>1. w = "get" /\ req[p].domain = id
    <3>1. c - 1 = n
      BY <1>1, <1>6
    <3> QED
      BY <1>1, <1>2, <1>6, <3>1 DEF Fed
  <2>2. \E m : Known(m, id) /\ loc'[p].dom = <<Get(m, id)>>
    BY <2>1, GetGives DEF Stepping
  <2>3. loc'[p].dom[1].id = id
    BY <2>2, GotID
  <2>4. at'[p] = c
    BY <1>1, <1>6, <2>1 DEF Hops, Loops, Scans
  <2> QED
    BY <1>4, <1>6, <2>3, <2>4 DEF Ready
<1>7. CASE n + 1 = c /\ s[c].do = "resolveEach"
  <2>1. w = "domains" /\ With(p) = "all"
    <3>1. c - 1 = n
      BY <1>1, <1>7
    <3> QED
      BY <1>1, <1>2, <1>7, <3>1 DEF Fed
  <2>2. AllName(p, id, q)'
    BY <1>7 DEF Course, Line
  <2>3. IsList(loc'[p].doms) /\ \E k \in DOMAIN loc'[p].doms : loc'[p].doms[k].id = id
    BY <2>1, <2>2, DomainsGive DEF Stepping
  <2>4. loc'[p].todo = <<>>
    <3>1. "todo" \in DOMAIN Locals \ Touches(w)
      BY <2>1 DEF Touches, Locals, Fillers, Scans, Sources
    <3>2. loc'[p].todo = l.todo
      BY <3>1, RunTouches DEF Touched, Stepping
    <3> QED
      BY <1>1, <2>1, <3>2 DEF Loops, Scans
  <2>5. at'[p] = c
    BY <1>1, <1>7, <2>1 DEF Hops, Loops, Scans
  <2> QED
    BY <1>4, <1>7, <2>3, <2>4, <2>5 DEF Ready, Resolving
<1>8. CASE n + 1 = c /\ s[c].do = "targets"
  <2>1. w # "enter"
    BY <1>1, <1>8 DEF StepFits
  <2>2. at'[p] = n \/ at'[p] = n + 1
    BY <1>1, <1>3, <2>1 DEF Hops
  <2> QED
    BY <1>1, <1>2, <1>8, <2>2 DEF Ready
<1>9. CASE n + 1 < c
  <2>1. at'[p] \in {n, n + 1, n + 2}
    BY <1>1, <1>3 DEF Hops
  <2>2. CASE at'[p] = n + 2 /\ n + 2 = c
    <3>1. w = "enter"
      BY <1>1, <1>3, <2>2 DEF Hops
    <3>2. s[c - 1].do = "walk"
      <4>1. s[n + 1].do = "walk"
        BY <1>1, <3>1 DEF StepFits
      <4>2. n + 1 = c - 1
        BY <1>1, <2>2
      <4> QED
        BY <4>1, <4>2
    <3>3. s[c].do = "targets"
      BY <1>2, <3>2 DEF Fed
    <3> QED
      BY <2>2, <3>3 DEF Ready
  <2> QED
    BY <1>1, <1>3, <1>9, <2>1, <2>2
<1>10. s[c].do \in {"walk", "resolve", "resolveEach", "targets"}
  BY <1>2 DEF Fed
<1>11. n + 1 = c \/ n + 1 < c
  BY <1>1, <1>3
<1> QED
  BY <1>5, <1>6, <1>7, <1>8, <1>9, <1>10, <1>11

\* Step c finds it, sooner or later.
LEMMA AtSource ==
    ASSUME NEW p, NEW w, NEW s, Stepping(p, w, s), NEW c, NEW d, NEW v, NEW id, NEW q,
           Course(p, s, c, d, v, id, q), NEW y, y = Entry(id, q, tree[q]), NEW x, x = Due(v, y),
           at[p] = c, Ready(loc[p], s, c, d, x, y)
    PROVE  \/ at'[p] = c /\ Ready(loc'[p], s, c, d, x, y)
           \/ /\ at'[p] = c + 1
              /\ IF c = d THEN y \in loc'[p].items ELSE x \in Members(loc'[p][v])
<1> DEFINE l == loc[p]
<1>1. /\ c \in 1 .. Len(s) /\ Len(s) \in Nat /\ DOMAIN s = 1 .. Len(s)
      /\ s[c].do = w /\ s[c].with = With(p)
      /\ Hops(p, w) /\ IsList(l.targets) /\ IsList(l.found)
  BY Steps
<1>2. Line(s, c, d, v) /\ Fed(p, s, c, id, q) /\ q \in Path /\ tree[q] # 0
  BY DEF Course
<1>3. y.id = id /\ y.path = q
  BY DEF Entry
<1>4. w \in (IF v = "found" THEN {"walk"} ELSE {"targets", "resolve", "resolveEach"})
  BY <1>1, <1>2 DEF Line
<1>5. CASE w = "walk"
  <2>1. v = "found" /\ id = "" /\ (With(p) = "list" => ~Derived(q))
    BY <1>1, <1>2, <1>4, <1>5 DEF Fed, Line
  <2>2. With(p) \in (IF c = d THEN {"read", "list"} ELSE {"collect"})
    BY <1>1, <1>2, <2>1 DEF Line
  <2>3. x = y
    BY <2>1 DEF Due
  <2>4. /\ l.todo # <<>> /\ IsList(l.todo)
        /\ OnWay(l.todo, q) \/ Noted(p, l, y)
    BY <1>1, <1>3, <1>5, <2>2, <2>3 DEF Ready, Noted
  <2>5. /\ IsList(loc'[p].todo)
        /\ OnWay(loc'[p].todo, q) \/ Noted(p, loc'[p], y)
    BY <1>1, <1>2, <1>5, <2>1, <2>2, <2>4, WalkTakes DEF Stepping
  <2>6. \/ at'[p] = c + 1 /\ loc'[p].todo = <<>>
        \/ at'[p] = c /\ loc'[p].todo # <<>>
    <3>1. VisitNext(p)
      BY <1>5, Walks DEF Stepping
    <3>2. \E m : Loop(p, m)
      BY <3>1, Zenon DEF VisitNext
    <3> QED
      BY <3>2, Moved DEF Stepping
  <2>7. loc'[p].todo = <<>> => Noted(p, loc'[p], y)
    BY <2>5, NoMembers DEF OnWay
  <2>8. Noted(p, loc'[p], y) => IF c = d THEN y \in loc'[p].items ELSE x \in Members(loc'[p].found)
    BY <2>2, <2>3 DEF Noted
  <2> QED
    BY <1>1, <1>3, <1>5, <2>1, <2>5, <2>6, <2>7, <2>8 DEF Ready
<1>6. CASE w \in {"targets", "resolve", "resolveEach"}
  <2>1. v = "targets" /\ c # d /\ AllName(p, id, q)' /\ x = Entry(id, q, 0)
    BY <1>2, <1>3, <1>4, <1>6 DEF Line, Course, Due
  <2>2. CASE w = "targets"
    <3>1. With(p) = Base(q)
      BY <1>1, <1>2, <2>2 DEF Fed
    <3>2. x \in Members(loc'[p].targets)
      BY <1>2, <2>1, <2>2, <3>1, TargetsTake DEF Stepping
    <3>3. at'[p] = c + 1
      BY <1>1, <2>2 DEF Hops, Loops, Scans
    <3> QED
      BY <2>1, <3>2, <3>3
  <2>3. CASE w = "resolve"
    <3>1. With(p) = Base(q) /\ l.dom[1].id = id
      BY <1>1, <1>2, <1>3, <2>3 DEF Fed, Ready
    <3>2. x \in Members(loc'[p].targets)
      BY <1>2, <2>1, <2>3, <3>1, ResolveTakes DEF Stepping
    <3>3. at'[p] = c + 1
      BY <1>1, <2>3 DEF Hops, Loops, Scans
    <3> QED
      BY <2>1, <3>2, <3>3
  <2>4. CASE w = "resolveEach"
    <3>1. Base(q) \in {"observations", "action-items", "hot-memory"}
      BY <1>1, <1>2, <2>4 DEF Fed
    <3>2. Resolving(l, id, Base(q), x)
      BY <1>1, <1>3, <2>4 DEF Ready
    <3>3. \/ IsList(loc'[p].todo) /\ Pair(id, Base(q)) \in Members(loc'[p].todo)
          \/ x \in Members(loc'[p].targets)
      BY <1>1, <1>2, <2>1, <2>4, <3>1, <3>2, EachTakes DEF Stepping
    <3>4. \/ at'[p] = c + 1 /\ loc'[p].todo = <<>>
          \/ at'[p] = c
      BY <1>1, <2>4 DEF Hops, Loops, Scans
    <3>5. CASE x \in Members(loc'[p].targets)
      <4>1. Resolving(loc'[p], id, Base(q), x)
        BY <3>5 DEF Resolving
      <4> QED
        BY <1>1, <1>3, <2>1, <2>4, <3>4, <3>5, <4>1 DEF Ready
    <3>6. CASE x \notin Members(loc'[p].targets)
      <4>1. loc'[p].todo # <<>>
        BY <3>3, <3>6, NoMembers
      <4>2. Resolving(loc'[p], id, Base(q), x)
        BY <3>3, <3>6, <4>1 DEF Resolving
      <4> QED
        BY <1>1, <1>3, <2>4, <3>4, <4>1, <4>2 DEF Ready
    <3> QED
      BY <3>5, <3>6
  <2> QED
    BY <1>6, <2>2, <2>3, <2>4
<1> QED
  BY <1>4, <1>5, <1>6

\* Between the two it stays on the list.
LEMMA OnLine ==
    ASSUME NEW p, NEW w, NEW s, Stepping(p, w, s), NEW c, NEW d, NEW v, NEW id, NEW q,
           Course(p, s, c, d, v, id, q), NEW x, x.path = q,
           c < at[p], at[p] < d, x \in Members(loc[p][v])
    PROVE  x \in Members(loc'[p][v]) /\ at'[p] \in {at[p], at[p] + 1, at[p] + 2} /\ at'[p] <= d
<1> DEFINE n == at[p]
<1>1. /\ n \in 1 .. Len(s) /\ Len(s) \in Nat /\ DOMAIN s = 1 .. Len(s)
      /\ StepFits(s, n) /\ s[n].do = w /\ Now(p) = s[n]
      /\ Hops(p, w) /\ IsList(loc[p].targets) /\ IsList(loc[p].found)
  BY Steps
<1>2. Line(s, c, d, v)
  BY DEF Course
<1>3. c \in Nat /\ d \in 1 .. Len(s) /\ v \in {"targets", "found"}
  BY <1>1, <1>2 DEF Line
<1>4. n \in c + 1 .. d - 1
  BY <1>1, <1>3
<1>5. w \in Between(v)
  BY <1>1, <1>2, <1>4 DEF Line
<1>6. Lets(p, q, Now(p))
  <2>1. n \in c + 1 .. Len(s)
    BY <1>1, <1>3, <1>4
  <2> QED
    BY <1>1, <2>1 DEF Course
<1>7. x \in Members(loc'[p][v])
  BY <1>1, <1>3, <1>5, <1>6, ListKept DEF Stepping
<1>8. at'[p] \in {n, n + 1, n + 2}
  BY <1>1, <1>5 DEF Hops, Between
<1>9. CASE at'[p] = n + 2 /\ n + 1 = d
  <2>1. w = "enter"
    BY <1>1, <1>5, <1>9 DEF Hops, Between
  <2>2. s[d].do = "walk"
    BY <1>1, <1>9, <2>1 DEF StepFits
  <2>3. c # d
    BY <1>3, <1>4
  <2> QED
    BY <1>2, <2>2, <2>3 DEF Line, Scans
<1> QED
  BY <1>1, <1>3, <1>4, <1>7, <1>8, <1>9

\* The marker's time is that of one it had.
Marked(p) == loc[p].since \in Was(p, Marker) \cup {0}

\* Step d takes it from the list, sooner or later.
LEMMA AtReader ==
    ASSUME NEW p, NEW w, NEW s, Stepping(p, w, s), NEW c, NEW d, NEW v, NEW id, NEW q,
           Course(p, s, c, d, v, id, q), NEW y, y = Entry(id, q, tree[q]), NEW x, x = Due(v, y),
           Marked(p), c < at[p], at[p] = d, x \in Members(loc[p][v]), Reading(loc[p], s, d, x, y)
    PROVE  \/ at'[p] = d + 1 /\ y \in loc'[p].items
           \/ /\ at'[p] = d /\ x \in Members(loc'[p][v])
              /\ x \in Members(loc'[p].todo) \/ y \in loc'[p].items
<1> DEFINE l == loc[p]
<1>1. /\ d \in 1 .. Len(s) /\ Len(s) \in Nat /\ DOMAIN s = 1 .. Len(s)
      /\ s[d].do = w /\ s[d].with = With(p) /\ Now(p) = s[d]
      /\ Hops(p, w) /\ LeftOf(p, w) /\ IsList(l.targets) /\ IsList(l.found)
  BY Steps
<1>2. Line(s, c, d, v) /\ Fed(p, s, c, id, q) /\ q \in Path /\ tree[q] # 0 /\ Takes(p, q, s[d])
  BY DEF Course
<1>3. c \in Nat /\ c # d /\ d \in c + 1 .. Len(s) /\ v \in {"targets", "found"}
  BY <1>1, <1>2 DEF Line
<1>4. /\ s[d].with = v
      /\ s[d].do \in Scans \cup (IF v = "found" THEN {"report", "changed"} ELSE {})
  BY <1>2, <1>3 DEF Line
<1>5. Lets(p, q, Now(p))
  BY <1>1, <1>3 DEF Course
<1>6. x.path = q /\ y.path = q /\ y.ver = tree[q] /\ y = Member(x) /\ (v = "found" => x = y)
  BY <1>2 DEF Due, Entry, Member, Content
<1>7. CASE w \in Scans
  <2>0. l.todo = <<>> \/ x \in Members(l.todo) \/ y \in l.items
    BY <1>1, <1>7 DEF Reading
  <2>1. w = "scanNotes" => q # Marker
    BY <1>1, <1>2 DEF Takes
  <2>2. x \in Members(l[With(p)])
    BY <1>1, <1>4
  <2>3. x \in Members(loc'[p].todo) \/ y \in loc'[p].items
    BY <1>1, <1>2, <1>6, <1>7, <2>0, <2>1, <2>2, ScanTakes DEF Stepping
  <2>4. x \in Members(loc'[p][v])
    BY <1>1, <1>3, <1>5, <1>6, <1>7, ListKept DEF Stepping
  <2>5. \/ at'[p] = d + 1 /\ loc'[p].todo = <<>>
        \/ at'[p] = d
    BY <1>1, <1>7 DEF Hops, Scans, Loops
  <2> QED
    BY <2>3, <2>4, <2>5, NoMembers
<1>8. CASE w \in {"report", "changed"}
  <2>1. v = "found" /\ x = y /\ y \in Members(l.found)
    BY <1>1, <1>4, <1>6, <1>8 DEF Scans
  <2>2. at'[p] = d + 1
    BY <1>1, <1>8 DEF Hops, Loops, Scans
  <2>3. CASE w = "report"
    BY <2>1, <2>2, <2>3, ReportTakes DEF Stepping
  <2>4. CASE w = "changed"
    <3>1. q # Marker /\ Readable(p, q) /\ \A u \in Was(p, Marker) : tree[q] > u
      BY <1>1, <1>2, <2>4 DEF Takes
    <3>2. tree[q] > 0
      <4>1. tree[q] \in Nat
        BY <1>2, HandlersAssumption DEF Stepping, SharedOK
      <4> QED
        BY <1>2, <4>1
    <3>3. y.ver > l.since
      BY <1>6, <3>1, <3>2 DEF Marked
    <3> QED
      BY <1>6, <2>1, <2>2, <2>4, <3>1, <3>3, ChangedTakes DEF Stepping
  <2> QED
    BY <1>8, <2>3, <2>4
<1> QED
  BY <1>1, <1>4, <1>7, <1>8

\* Behind step d it stays in the answer.
LEMMA BehindLine ==
    ASSUME NEW p, NEW w, NEW s, Stepping(p, w, s), NEW c, NEW d, NEW v, NEW id, NEW q,
           Course(p, s, c, d, v, id, q), NEW y, y.path = q, d < at[p], y \in loc[p].items
    PROVE  at'[p] = at[p] + 1 /\ y \in loc'[p].items
<1> DEFINE n == at[p]
<1>1. /\ n \in 1 .. Len(s) /\ Len(s) \in Nat /\ DOMAIN s = 1 .. Len(s)
      /\ s[n].do = w /\ Now(p) = s[n] /\ Hops(p, w)
  BY Steps
<1>2. Line(s, c, d, v)
  BY DEF Course
<1>3. c \in Nat /\ d \in 1 .. Len(s) /\ c <= d
  BY <1>1, <1>2 DEF Line
<1>4. n \in d + 1 .. Len(s) /\ n \in c + 1 .. Len(s)
  BY <1>1, <1>3
<1>5. w \in {"hide", "below", "changed"}
  BY <1>1, <1>2, <1>4 DEF Line
<1>6. Lets(p, q, Now(p))
  BY <1>1, <1>4 DEF Course
<1>7. y \in loc'[p].items
  BY <1>5, <1>6, ItemsKept DEF Stepping
<1> QED
  BY <1>1, <1>5, <1>7 DEF Hops, Loops, Scans

\* So each step of the request carries it on.
LEMMA LineKept ==
    ASSUME NEW p, NEW w, NEW s, Stepping(p, w, s), NEW c, NEW d, NEW v, NEW id, NEW q,
           Course(p, s, c, d, v, id, q), NEW y, y = Entry(id, q, tree[q]), NEW x, x = Due(v, y),
           Marked(p), Carries(at[p], loc[p], s, c, d, v, x, y)
    PROVE  Carries(at'[p], loc'[p], s, c, d, v, x, y)
<1> DEFINE n == at[p]
           m == at'[p]
<1>1. /\ n \in 1 .. Len(s) /\ Len(s) \in Nat /\ DOMAIN s = 1 .. Len(s) /\ s[n].do = w
      /\ Hops(p, w)
  BY Steps
<1>2. Line(s, c, d, v)
  BY DEF Course
<1>3. c \in Nat /\ d \in 1 .. Len(s) /\ c <= d
  BY <1>1, <1>2 DEF Line
<1>4. x.path = q /\ y.path = q
  BY DEF Due, Entry
<1>5. ASSUME m = n + 1, m = d, s[d].do \in Scans
      PROVE  loc'[p].todo = <<>>
  <2>1. s = Handler[req[p]] /\ LeftBy(s, n, loc[p])
    BY DEF Stepping
  <2>2. m \in DOMAIN s /\ s[m].do \in Scans
    BY <1>1, <1>3, <1>5
  <2> QED
    BY <1>5, <2>1, <2>2, BeginsEmpty DEF Stepping
<1>6. CASE n < c
  <2>1. m < c \/ (m = c /\ Ready(loc'[p], s, c, d, x, y))
    BY <1>6, BeforeLine
  <2>2. m \in Int
    BY <1>1 DEF Hops
  <2> QED
    BY <1>3, <2>1, <2>2 DEF Carries
<1>7. CASE n = c
  <2>1. Ready(loc[p], s, c, d, x, y)
    BY <1>7 DEF Carries
  <2>2. \/ m = c /\ Ready(loc'[p], s, c, d, x, y)
        \/ /\ m = c + 1
           /\ IF c = d THEN y \in loc'[p].items ELSE x \in Members(loc'[p][v])
    BY <1>7, <2>1, AtSource
  <2> HIDE DEF m
  <2>3. m = c => ~(c < m) /\ ~(d < m) /\ (c < d => m # d)
    BY <1>3
  <2>4. m = c + 1 => m # c /\ (d < m => c = d) /\ (c < d /\ m <= d => c # d)
    BY <1>3
  <2>5. CASE m = c
    BY <2>2, <2>3, <2>5, <1>3 DEF Carries, m
  <2>6. CASE m = c + 1
    <3>1. CASE c = d
      BY <1>3, <2>2, <2>6, <3>1 DEF Carries, m
    <3>2. CASE c # d
      <4>1. x \in Members(loc'[p][v]) /\ m # c /\ ~(d < m)
        BY <1>3, <2>2, <2>6, <3>2
      <4>2. m = d /\ s[d].do \in Scans => loc'[p].todo = <<>>
        BY <1>5, <1>7, <2>6 DEF m
      <4> QED
        BY <4>1, <4>2 DEF Carries, Reading, m
    <3> QED
      BY <3>1, <3>2
  <2> QED
    BY <2>2, <2>5, <2>6
<1>8. CASE c < n /\ n < d
  <2>1. x \in Members(loc[p][v])
    BY <1>1, <1>3, <1>8 DEF Carries
  <2>2. x \in Members(loc'[p][v]) /\ m \in {n, n + 1, n + 2} /\ m <= d
    BY <1>4, <1>8, <2>1, OnLine
  <2>3. m # c /\ ~(d < m)
    BY <1>1, <1>3, <1>8, <2>2
  <2>4. m = d /\ s[d].do \in Scans => loc'[p].todo = <<>>
    <3> SUFFICES ASSUME m = d, s[d].do \in Scans
                 PROVE  loc'[p].todo = <<>>
      OBVIOUS
    <3>1. m = n + 1 \/ m = n + 2
      BY <1>1, <1>8, <2>2
    <3>2. CASE m = n + 2
      <4>1. w \in {"enter", "entities"} /\ loc'[p] = loc[p]
        BY <1>1, <3>2 DEF Hops
      <4>2. loc[p].todo = <<>>
        BY <4>1, Steps DEF Loops, Scans
      <4> QED
        BY <4>1, <4>2
    <3> QED
      BY <1>5, <3>1, <3>2
  <2> QED
    BY <2>2, <2>3, <2>4 DEF Carries, Reading
<1>9. CASE c < n /\ n = d
  <2>1. x \in Members(loc[p][v]) /\ Reading(loc[p], s, d, x, y)
    BY <1>1, <1>3, <1>9 DEF Carries
  <2>2. \/ m = d + 1 /\ y \in loc'[p].items
        \/ /\ m = d /\ x \in Members(loc'[p][v])
           /\ x \in Members(loc'[p].todo) \/ y \in loc'[p].items
    BY <1>9, <2>1, AtReader
  <2>3. /\ m = d + 1 => m # c /\ ~(m <= d) /\ m # d
        /\ m = d => m # c /\ ~(d < m)
    BY <1>1, <1>3, <1>9
  <2> QED
    BY <2>2, <2>3 DEF Carries, Reading
<1>10. CASE d < n
  <2>1. y \in loc[p].items
    BY <1>10 DEF Carries
  <2>2. m = n + 1 /\ y \in loc'[p].items
    BY <1>4, <1>10, <2>1, BehindLine
  <2>3. m # c /\ ~(m <= d) /\ m # d
    BY <1>1, <1>3, <1>10, <2>2
  <2> QED
    BY <2>2, <2>3 DEF Carries
<1>11. n < c \/ n = c \/ (c < n /\ n < d) \/ (c < n /\ n = d) \/ d < n
  BY <1>1, <1>3
<1> QED
  BY <1>6, <1>7, <1>8, <1>9, <1>10, <1>11
--------------------------------------------------------------------------------
\* File q has been there all the time, and so have the conditions of its course.
Route(p, s, c, d, v, id, q) ==
    /\ Line(s, c, d, v) /\ Fed(p, s, c, id, q)
    /\ v = "targets" => AllName(p, id, q)
    /\ Takes(p, q, s[d])
    /\ \A k \in c + 1 .. Len(s) : Lets(p, q, s[k])

LineAt(p, q) ==
    \A s, c, d, v, id, x, y :
        /\ s = Handler[req[p]] /\ Route(p, s, c, d, v, id, q)
        /\ y = Entry(id, q, tree[q]) /\ x = Due(v, y)
        => Carries(at[p], loc[p], s, c, d, v, x, y)

\* domain_summary has been through the first i files of the domain it got: those that
\* are there are in the answer, the last one is at least before its next step.
Told(n, l, id, q, y) ==
    /\ n \in 5 .. 7 => \A j \in 1 .. l.i : l.dom[1].files[j] = Base(q) =>
                           y \in l.items \/ (n = 6 /\ l.targets[1] = Entry(id, q, 0))
    /\ n > 7 => y \in l.items

Gotten(p, n, l) ==
    /\ n > 2 => /\ \E m \in during[p].regs : Known(m, req[p].domain)
                                            /\ l.dom = <<Get(m, req[p].domain)>>
                /\ l.i \in 0 .. Len(l.dom[1].files)
    /\ n < 5 => l.i = 0

RoundsAt(p) ==
    req[p].method = "domain_summary" =>
        /\ Gotten(p, at[p], loc[p])
        /\ \A q \in Steady(p) : \A id, y :
               /\ id = req[p].domain /\ Readable(p, q) /\ AllName(p, id, q)
               /\ y = Entry(id, q, tree[q])
               => Told(at[p], loc[p], id, q, y)

\* What has been the case is valid, and includes what is the case.
Lived(p) ==
    /\ at[p] # 0 => \A q \in Path : tree[q] \in during[p].past[q]
    /\ \A m \in during[p].regs : m \in Manifests /\ Valid(m)

\* A request that has not failed will have all it is to have.
CompleteAt(p) ==
    code[p] = "none" =>
        /\ Lived(p) /\ Marked(p) /\ RoundsAt(p)
        /\ \A q \in Steady(p) : LineAt(p, q)

\* What is steady after a step was so before, and what is said of it.
LEMMA SteadyBefore ==
    ASSUME NEW p \in Proc, Observe, at[p] # 0, at'[p] # 0, req'[p] = req[p], Lived(p),
           NEW q, q \in Steady(p)'
    PROVE  /\ q \in Steady(p) /\ q \in Path /\ tree'[q] = tree[q] /\ tree[q] # 0
           /\ \A id : AllName(p, id, q)' => AllName(p, id, q)
           /\ \A x : /\ Takes(p, q, x)' => Takes(p, q, x)
                     /\ Lets(p, q, x)' => Lets(p, q, x)
<1>1. q \in Path /\ tree'[q] # 0 /\ during'[p].past[q] = {tree'[q]}
  BY DEF Steady
<1>2. \A u \in Path : during[p].past[u] \subseteq during'[p].past[u]
  BY PastGrows
<1>3. tree[q] \in during[p].past[q]
  BY <1>1 DEF Lived
<1>4. tree'[q] = tree[q] /\ during[p].past[q] = {tree[q]}
  BY <1>1, <1>2, <1>3
<1>5. ASSUME NEW id, AllName(p, id, q)'
      PROVE  AllName(p, id, q)
  <2>1. during[p].regs \subseteq during'[p].regs
    BY Remembered
  <2>2. \A m \in during'[p].regs : Names(m, id, q)
    BY <1>5 DEF AllName
  <2> QED
    BY <2>1, <2>2 DEF AllName
<1>6. Readable(p, q)' <=> Readable(p, q)
  BY DEF Readable
<1>7. \A u \in Was(p, Marker) : u \in Was(p, Marker)'
  BY <1>2 DEF Was
<1>8. ASSUME NEW x, Takes(p, q, x)'
      PROVE  Takes(p, q, x)
  BY <1>4, <1>6, <1>7, <1>8 DEF Takes
<1>9. ASSUME NEW x, Lets(p, q, x)'
      PROVE  Lets(p, q, x)
  BY <1>6, <1>9 DEF Lets
<1> QED
  BY <1>1, <1>4, <1>5, <1>8, <1>9 DEF Steady

LEMMA RouteBefore ==
    ASSUME NEW p \in Proc, Observe, at[p] # 0, at'[p] # 0, req'[p] = req[p], Lived(p),
           NEW q, q \in Steady(p)',
           NEW s, NEW c, NEW d, NEW v, NEW id, Route(p, s, c, d, v, id, q)'
    PROVE  Route(p, s, c, d, v, id, q) /\ Course(p, s, c, d, v, id, q)
<1>1. /\ q \in Steady(p) /\ q \in Path /\ tree'[q] = tree[q] /\ tree[q] # 0
      /\ AllName(p, id, q)' => AllName(p, id, q)
      /\ Takes(p, q, s[d])' => Takes(p, q, s[d])
      /\ \A x : Lets(p, q, x)' => Lets(p, q, x)
  BY SteadyBefore
<1>2. /\ Line(s, c, d, v) /\ (Fed(p, s, c, id, q))'
      /\ v = "targets" => AllName(p, id, q)'
      /\ Takes(p, q, s[d])' /\ \A k \in c + 1 .. Len(s) : Lets(p, q, s[k])'
  BY DEF Route
<1>3. Fed(p, s, c, id, q)
  BY <1>2 DEF Fed
<1>4. \A k \in c + 1 .. Len(s) : Lets(p, q, s[k])
  BY <1>1, <1>2
<1> QED
  BY <1>1, <1>2, <1>3, <1>4 DEF Route, Course

LEMMA LivedOn ==
    ASSUME NEW p \in Proc, Observe, SharedOK', \A m \in during[p].regs : m \in Manifests /\ Valid(m)
    PROVE  Lived(p)'
<1>1. CASE at'[p] = 0
  BY <1>1 DEF Lived, Observe, Nothing
<1>2. CASE at'[p] # 0
  <2>1. during'[p] = Both(during[p], Moment(reg', tree'))
    BY <1>2 DEF Observe
  <2>2. during'[p].regs = during[p].regs \cup {reg'}
    BY <2>1 DEF Both, Moment
  <2>3. reg' \in Manifests /\ Valid(reg')
    BY DEF SharedOK
  <2>4. \A q \in Path : tree'[q] \in during'[p].past[q]
    BY <1>2, PastGrows
  <2> QED
    BY <1>2, <2>2, <2>3, <2>4 DEF Lived
<1> QED
  BY <1>1, <1>2

\* A request that begins, or has not begun, has nothing to have yet.
LEMMA NotYet ==
    ASSUME NEW s, NEW c, NEW d, NEW v, Line(s, c, d, v), NEW n \in {0, 1}, NEW l, NEW x, NEW y
    PROVE  Carries(n, l, s, c, d, v, x, y)
<1>1. c \in Nat /\ d \in Nat /\ 1 < c /\ c <= d
  BY DEF Line
<1>2. n # c /\ ~(c < n) /\ ~(d < n) /\ (c < d => n # d)
  BY <1>1
<1> QED
  BY <1>2 DEF Carries

LEMMA CompleteBegins ==
    ASSUME NEW p \in Proc, at'[p] \in {0, 1}, loc'[p] = Locals, Lived(p)'
    PROVE  CompleteAt(p)'
<1>1. Marked(p)'
  BY DEF Marked, Locals
<1>2. RoundsAt(p)'
  BY DEF RoundsAt, Gotten, Told, Locals
<1>3. \A q : LineAt(p, q)'
  BY NotYet DEF LineAt, Route
<1> QED
  BY <1>1, <1>2, <1>3 DEF CompleteAt
--------------------------------------------------------------------------------
\* The program of domain_summary.
LEMMA SummarySteps ==
    ASSUME NEW p \in Proc, Types, req[p].method = "domain_summary"
    PROVE  LET s == Handler[req[p]]
           IN /\ Len(s) = 7 /\ s[1].do = "need" /\ s[2].do = "get" /\ s[3].do = "gateDomain"
              /\ s[4].do = "need" /\ s[5].do = "nextFile" /\ s[6].do = "exists"
              /\ s[7].do = "content"
<1> DEFINE r == req[p]
           s == Handler[r]
<1>1. s = Program(r)
  BY DEF Types, Handler
<1>2. Program(r) = HandleDomainSummary(r)
  BY DEF Program
<1>3. s = <<Need({"params", "role", "domain"}), Do("get", "invalid"),
            Do("gateDomain", "read"), Need({"since"}),
            Do("nextFile", "read"), Do("exists", "read"), Do("content", "read")>>
  BY <1>1, <1>2 DEF HandleDomainSummary
<1>4. \A what, with : Do(what, with).do = what
  BY DoWhat
<1> HIDE DEF s
<1>5. Len(s) = 7 /\ \A k \in 1 .. 7 : s[k] = <<Need({"params", "role", "domain"}), Do("get", "invalid"),
            Do("gateDomain", "read"), Need({"since"}),
            Do("nextFile", "read"), Do("exists", "read"), Do("content", "read")>>[k]
  BY <1>3
<1> QED
  BY <1>3, <1>4, <1>5 DEF Need, s

\* The domain it got, and its files: what manifests R name is among them.
Filed(R, id, l) ==
    /\ IsList(l.dom[1].files) /\ Len(l.dom[1].files) \in Nat /\ l.dom[1].id = id
    /\ \A q : (\A m \in R : Names(m, id, q)) =>
           \E j \in 1 .. Len(l.dom[1].files) : l.dom[1].files[j] = Base(q)
Got(R, id, l) == \E m \in R : /\ m \in Manifests /\ Valid(m)
                              /\ Known(m, id) /\ l.dom = <<Get(m, id)>>

LEMMA GotFiles ==
    ASSUME NEW R, NEW id, NEW l, Got(R, id, l)
    PROVE  Filed(R, id, l)
<1>0. PICK m \in R : m \in Manifests /\ Valid(m) /\ Known(m, id) /\ l.dom = <<Get(m, id)>>
  BY DEF Got
<1>1. m \in Manifests /\ Valid(m)
  BY <1>0
<1>2. Get(m, id) \in Domains(m) /\ Get(m, id).id = id
  BY <1>0, GotID
<1>3. PICK d : d = Get(m, id) /\ d \in Domains(m) /\ d.id = id /\ l.dom[1] = d
  BY <1>0, <1>2
<1>4. d.files \in Seq({d.files[i] : i \in DOMAIN d.files})
  BY <1>1, <1>3, HandlersAssumption
<1>5. IsList(d.files) /\ Len(d.files) \in Nat /\ DOMAIN d.files = 1 .. Len(d.files)
  BY <1>4 DEF IsList, Members
<1>6. ASSUME NEW q, \A k \in R : Names(k, id, q)
      PROVE  \E j \in 1 .. Len(d.files) : d.files[j] = Base(q)
  <2>1. PICK e \in Domains(m) : e.id = id /\ Declares(e, Base(q))
    BY <1>6 DEF Names
  <2>2. e = d
    BY <1>1, <1>3, <2>1 DEF Valid, Domains
  <2> QED
    BY <1>5, <2>1, <2>2 DEF Declares
<1> QED
  BY <1>3, <1>5, <1>6 DEF Filed

\* What the steps of its rounds do.
LEMMA NextFileDoes ==
    ASSUME NEW p \in Proc, Types, SharedOK, Observe, at'[p] # 0, code'[p] = "none", Run(p),
           Doing(p, "nextFile"), IsList(loc[p].dom[1].files), loc[p].i \in Nat
    PROVE  \/ loc[p].i = Len(loc[p].dom[1].files) /\ at'[p] = at[p] + 3 /\ loc'[p] = loc[p]
           \/ /\ loc[p].i # Len(loc[p].dom[1].files) /\ loc'[p].i = loc[p].i + 1
              /\ loc'[p].dom = loc[p].dom /\ loc'[p].items = loc[p].items
              /\ at'[p] \in {at[p], at[p] + 1}
              /\ \A q \in Path : \A id :
                     /\ loc[p].dom[1].files[loc[p].i + 1] = Base(q) /\ id = loc[p].dom[1].id
                     /\ Readable(p, q) /\ AllName(p, id, q)'
                     => at'[p] = at[p] + 1 /\ loc'[p].targets[1] = Entry(id, q, 0)
<1> DEFINE l == loc[p]
           name == l.dom[1].id
           file == l.dom[1].files[l.i + 1]
           t == Target(Get(reg, name), file)
           next == [l EXCEPT !.i = @ + 1]
           more == [next EXCEPT !.targets = <<t>>]
<1>1. NextFile(p)
  BY RunDoes DEF Gates, Scans
<1>2. \/ l.i = Len(l.dom[1].files) /\ Jump(p, 3, l)
      \/ /\ l.i # Len(l.dom[1].files) /\ Query(p)
         /\ \/ Resolves(reg, name, file) /\ Readable(p, t.path) /\ GoOn(p, more)
            \/ ~(Resolves(reg, name, file) /\ Readable(p, t.path)) /\ Jump(p, 0, next)
  BY <1>1, Zenon DEF NextFile
<1>3. {"i", "targets", "dom", "items"} \subseteq DOMAIN l
  BY DEF Types, Locals
<1>4. /\ next.i = l.i + 1 /\ next.dom = l.dom /\ next.items = l.items
      /\ more.i = l.i + 1 /\ more.dom = l.dom /\ more.items = l.items /\ more.targets = <<t>>
  <2> HIDE DEF t, l
  <2> QED
    BY <1>3
<1>5. CASE l.i = Len(l.dom[1].files)
  BY <1>2, <1>5, Moved, NewLocals
<1>6. CASE l.i # Len(l.dom[1].files) /\ Query(p)
  <2>1. ASSUME NEW q \in Path, NEW id, file = Base(q), id = name, Readable(p, q), AllName(p, id, q)'
        PROVE  Resolves(reg, name, file) /\ t = Entry(id, q, 0) /\ t.path = q
    <3>1. PICK m : m = reg /\ Names(m, id, q) /\ Valid(m)
      BY <1>6, <2>1, AnswerNames DEF SharedOK
    <3>2. Resolves(m, id, Base(q)) /\ Target(Get(m, id), Base(q)) = Entry(id, q, 0)
      BY <3>1, NamedTarget
    <3> HIDE DEF file, name
    <3>3. Resolves(reg, name, file) /\ t = Entry(id, q, 0)
      BY <2>1, <3>1, <3>2
    <3> QED
      BY <3>3 DEF Entry
  <2>2. CASE /\ Resolves(reg, name, file) /\ Readable(p, t.path) /\ GoOn(p, more)
    <3>1. loc'[p] = more /\ at'[p] = at[p] + 1
      BY <2>2, Moved, NewLocals, Zenon
    <3> HIDE DEF t, file, name, more, next
    <3>2. loc'[p].targets[1] = t
      BY <1>4, <3>1
    <3> QED
      BY <1>4, <1>6, <2>1, <3>1, <3>2 DEF file, name, l
  <2>3. CASE ~(Resolves(reg, name, file) /\ Readable(p, t.path)) /\ Jump(p, 0, next)
    <3>1. loc'[p] = next /\ at'[p] = at[p] + 0
      BY <2>3, Moved, NewLocals, Zenon
    <3>2. at'[p] = at[p]
      BY <3>1 DEF Types
    <3> HIDE DEF t, file, name, more, next
    <3>3. \A q \in Path : \A id : ~(file = Base(q) /\ id = name /\ Readable(p, q) /\ AllName(p, id, q)')
      BY <2>1, <2>3
    <3> QED
      BY <1>4, <1>6, <3>1, <3>2, <3>3 DEF file, name, l
  <2> QED
    BY <1>2, <1>6, <2>2, <2>3
<1> QED
  BY <1>2, <1>5, <1>6

LEMMA ExistsDoes ==
    ASSUME NEW p \in Proc, Types, Run(p), Doing(p, "exists")
    PROVE  LET t == loc[p].targets[1]
           IN /\ at'[p] \in {at[p] - 1, at[p] + 1} /\ loc[p].items \subseteq loc'[p].items
              /\ loc'[p].dom = loc[p].dom /\ loc'[p].i = loc[p].i
              /\ Content(t.path) # 0 => Member(t) \in loc'[p].items
<1> DEFINE l == loc[p]
           t == l.targets[1]
           xs == l.items \cup {Member(t)}
           next == [l EXCEPT !.items = xs]
<1>1. CheckExists(p)
  BY RunDoes DEF Gates, Scans
<1>2. \/ Content(t.path) = 0 /\ Jump(p, -1, l)
      \/ Content(t.path) # 0 /\ (Jump(p, -1, next) \/ GoOn(p, next))
  BY <1>1, Zenon DEF CheckExists
<1>3. {"i", "dom", "items"} \subseteq DOMAIN l
  BY DEF Types, Locals
<1>4. l.items \subseteq xs /\ Member(t) \in xs
  OBVIOUS
<1>5. next.i = l.i /\ next.dom = l.dom /\ next.items = xs
  <2> HIDE DEF xs, l
  <2> QED
    BY <1>3
<1>6. \/ Content(t.path) = 0 /\ at'[p] = at[p] - 1 /\ loc'[p] = l
      \/ Content(t.path) # 0 /\ at'[p] \in {at[p] - 1, at[p] + 1} /\ loc'[p] = next
  <2>1. /\ Jump(p, -1, l) => loc'[p] = l /\ at'[p] = at[p] + (-1)
        /\ Jump(p, -1, next) => loc'[p] = next /\ at'[p] = at[p] + (-1)
        /\ GoOn(p, next) => loc'[p] = next /\ at'[p] = at[p] + 1
    BY Moved, NewLocals, Zenon
  <2>2. at[p] + (-1) = at[p] - 1
    BY DEF Types
  <2> HIDE DEF next, t, l
  <2> QED
    BY <1>2, <2>1, <2>2
<1> HIDE DEF next, xs
<1> QED
  BY <1>4, <1>5, <1>6

LEMMA ContentDoes ==
    ASSUME NEW p \in Proc, Types, Run(p), Doing(p, "content")
    PROVE  /\ at'[p] = at[p] - 2 /\ loc[p].items \subseteq loc'[p].items
           /\ loc'[p].dom = loc[p].dom /\ loc'[p].i = loc[p].i
<1> DEFINE l == loc[p]
           xs == l.items \cup {x \in {Member(l.targets[1])} : x.ver # 0}
           next == [l EXCEPT !.items = xs]
<1>1. ReadContent(p)
  BY RunDoes DEF Gates, Scans
<1>2. Jump(p, -2, next)
  BY <1>1, Zenon DEF ReadContent
<1>3. {"i", "dom", "items"} \subseteq DOMAIN l
  BY DEF Types, Locals
<1>4. l.items \subseteq xs
  OBVIOUS
<1>5. next.i = l.i /\ next.dom = l.dom /\ next.items = xs
  <2> HIDE DEF xs, l
  <2> QED
    BY <1>3
<1>6. loc'[p] = next /\ at'[p] = at[p] + (-2)
  BY <1>2, Moved, NewLocals, Zenon
<1>7. at[p] + (-2) = at[p] - 2
  BY DEF Types
<1> HIDE DEF next, xs
<1> QED
  BY <1>4, <1>5, <1>6, <1>7

\* Before its rounds it has none behind it.
LEMMA BeforeRounds ==
    ASSUME NEW p, NEW w, NEW s, Stepping(p, w, s), req[p].method = "domain_summary",
           req'[p] = req[p], Lived(p)', Gotten(p, at[p], loc[p]), at[p] < 5
    PROVE  at'[p] = at[p] + 1 /\ Gotten(p, at[p], loc[p])' /\ loc'[p].i = 0
<1> DEFINE id == req[p].domain
<1>1. at[p] \in 1 .. Len(s) /\ s[at[p]].do = w /\ Hops(p, w)
  BY Steps
<1>2. at[p] \in 1 .. 4 /\ w \in {"need", "get", "gateDomain"} /\ (w = "get" <=> at[p] = 2)
  <2>1. /\ Len(s) = 7 /\ s[1].do = "need" /\ s[2].do = "get" /\ s[3].do = "gateDomain"
        /\ s[4].do = "need"
    BY SummarySteps DEF Stepping
  <2> QED
    BY <1>1, <2>1
<1>3. at'[p] = at[p] + 1
  BY <1>1, <1>2 DEF Hops, Loops, Scans
<1>4. loc'[p].i = loc[p].i /\ loc[p].i = 0
  <2>1. "i" \in DOMAIN Locals \ Touches(w)
    BY <1>2 DEF Touches, Locals, Fillers, Sources, Scans
  <2> QED
    BY <1>2, <2>1, RunTouches DEF Touched, Stepping, Gotten
<1>5. ASSUME at'[p] > 2
      PROVE  \E m \in during'[p].regs : Known(m, id) /\ loc'[p].dom = <<Get(m, id)>>
  <2>1. CASE w = "get"
    BY <2>1, GetGives DEF Stepping
  <2>2. CASE w # "get"
    <3>1. "dom" \in DOMAIN Locals \ Touches(w)
      BY <1>2, <2>2 DEF Touches, Locals, Fillers, Sources, Scans
    <3>2. loc'[p].dom = loc[p].dom
      BY <3>1, RunTouches DEF Touched, Stepping
    <3>3. at[p] > 2
      BY <1>2, <1>3, <1>5, <2>2
    <3>4. during[p].regs \subseteq during'[p].regs
      BY Remembered DEF Stepping
    <3> QED
      BY <3>2, <3>3, <3>4 DEF Gotten
  <2> QED
    BY <2>1, <2>2
<1>6. ASSUME at'[p] > 2
      PROVE  Len(loc'[p].dom[1].files) \in Nat
  <2>1. \A m \in during'[p].regs : m \in Manifests /\ Valid(m)
    BY DEF Lived
  <2> QED
    <3>1. Got(during'[p].regs, id, loc'[p])
      BY <1>5, <1>6, <2>1 DEF Got
    <3> QED
      BY <3>1, GotFiles DEF Filed
<1>7. at'[p] > 2 => loc'[p].i \in 0 .. Len(loc'[p].dom[1].files)
  BY <1>4, <1>6
<1> QED
  BY <1>3, <1>4, <1>5, <1>7 DEF Gotten

\* Each step of the request keeps count of its rounds.
LEMMA RoundsKept ==
    ASSUME NEW p, NEW w, NEW s, Stepping(p, w, s), req'[p] = req[p], at[p] # 0,
           RoundsAt(p), Lived(p), Lived(p)'
    PROVE  RoundsAt(p)'
<1> SUFFICES ASSUME req[p].method = "domain_summary"
             PROVE  RoundsAt(p)'
  BY DEF RoundsAt
<1> DEFINE l == loc[p]
           k == loc'[p]
           n == at[p]
           own == req[p].domain
           fs == l.dom[1].files
<1>0. p \in Proc /\ Observe /\ at'[p] # 0
  BY DEF Stepping
<1>1. n \in 1 .. 7 /\ s[n].do = w
  <2>1. n \in 1 .. Len(s) /\ s[n].do = w
    BY Steps
  <2> QED
    BY <2>1, SummarySteps DEF Stepping
<1>2. Gotten(p, n, l)
  BY DEF RoundsAt
<1>3. n > 2 => /\ IsList(fs) /\ Len(fs) \in Nat /\ l.dom[1].id = own
               /\ \A q : AllName(p, own, q) => \E j \in 1 .. Len(fs) : fs[j] = Base(q)
               /\ l.i \in 0 .. Len(fs)
               /\ \E m \in during'[p].regs : Known(m, own) /\ l.dom = <<Get(m, own)>>
  <2> SUFFICES ASSUME n > 2
               PROVE  /\ IsList(fs) /\ Len(fs) \in Nat /\ l.dom[1].id = own
                      /\ \A q : AllName(p, own, q) => \E j \in 1 .. Len(fs) : fs[j] = Base(q)
                      /\ l.i \in 0 .. Len(fs)
                      /\ \E m \in during'[p].regs : Known(m, own) /\ l.dom = <<Get(m, own)>>
    OBVIOUS
  <2>1. /\ \E m \in during[p].regs : Known(m, own) /\ l.dom = <<Get(m, own)>>
        /\ l.i \in 0 .. Len(fs)
    BY <1>2 DEF Gotten
  <2>2. \A m \in during[p].regs : m \in Manifests /\ Valid(m)
    BY DEF Lived
  <2>3. /\ IsList(fs) /\ Len(fs) \in Nat /\ l.dom[1].id = own
        /\ \A q : (\A m \in during[p].regs : Names(m, own, q)) => \E j \in 1 .. Len(fs) : fs[j] = Base(q)
    <3>1. Got(during[p].regs, own, l)
      BY <2>1, <2>2 DEF Got
    <3> QED
      BY <3>1, GotFiles DEF Filed
  <2>4. during[p].regs \subseteq during'[p].regs
    BY <1>0, Remembered
  <2> QED
    BY <2>1, <2>3, <2>4 DEF AllName
<1>4. ASSUME NEW q, q \in Steady(p)', Readable(p, q)', AllName(p, own, q)'
      PROVE  /\ q \in Path /\ tree'[q] = tree[q] /\ tree[q] # 0 /\ Readable(p, q)
             /\ AllName(p, own, q) /\ Told(n, l, own, q, Entry(own, q, tree[q]))
  <2>1. /\ q \in Steady(p) /\ q \in Path /\ tree'[q] = tree[q] /\ tree[q] # 0
        /\ AllName(p, own, q)
    BY <1>0, <1>4, SteadyBefore
  <2>2. Readable(p, q)
    BY <1>4 DEF Readable
  <2> QED
    BY <2>1, <2>2 DEF RoundsAt
<1> SUFFICES /\ Gotten(p, at[p], loc[p])'
             /\ \A q, y : /\ q \in Steady(p)' /\ Readable(p, q)' /\ AllName(p, own, q)'
                          /\ y = Entry(own, q, tree[q])
                          => Told(at'[p], k, own, q, y)
  <2>1. \A q : q \in Steady(p)' => tree'[q] = tree[q]
    BY <1>0, SteadyBefore
  <2> QED
    BY <2>1 DEF RoundsAt
<1>5. CASE n < 5
  <2>1. at'[p] = n + 1 /\ Gotten(p, at[p], loc[p])' /\ k.i = 0
    BY <1>2, <1>5, BeforeRounds
  <2>2. at'[p] \in 2 .. 5
    BY <1>1, <1>5, <2>1
  <2> QED
    BY <2>1, <2>2 DEF Told
<1>6. CASE n = 5
  <2>1. w = "nextFile" /\ l.i \in Nat
    BY <1>1, <1>3, <1>6, SummarySteps DEF Stepping
  <2>2. \/ l.i = Len(fs) /\ at'[p] = 8 /\ k = l
        \/ /\ l.i # Len(fs) /\ k.i = l.i + 1 /\ k.dom = l.dom /\ k.items = l.items
           /\ at'[p] \in {5, 6}
           /\ \A q \in Path : (fs[l.i + 1] = Base(q) /\ Readable(p, q) /\ AllName(p, own, q)')
                                  => at'[p] = 6 /\ k.targets[1] = Entry(own, q, 0)
    <3>1. IsList(fs) /\ l.dom[1].id = own
      BY <1>3, <1>6
    <3> QED
      BY <1>6, <2>1, <3>1, NextFileDoes DEF Stepping
  <2>3. CASE l.i = Len(fs) /\ at'[p] = 8 /\ k = l
    <3>1. Gotten(p, at[p], loc[p])'
      BY <1>3, <1>6, <2>3 DEF Gotten
    <3>2. ASSUME NEW q, q \in Steady(p)', Readable(p, q)', AllName(p, own, q)',
                 NEW y, y = Entry(own, q, tree[q])
          PROVE  y \in l.items
      <4>1. AllName(p, own, q) /\ Told(n, l, own, q, y)
        BY <1>4, <3>2
      <4>2. PICK j \in 1 .. Len(fs) : fs[j] = Base(q)
        BY <1>3, <1>6, <4>1
      <4> QED
        BY <1>6, <2>3, <4>1, <4>2 DEF Told
    <3> QED
      BY <2>3, <3>1, <3>2 DEF Told
  <2>4. CASE /\ l.i # Len(fs) /\ k.i = l.i + 1 /\ k.dom = l.dom /\ k.items = l.items
             /\ at'[p] \in {5, 6}
             /\ \A q \in Path : (fs[l.i + 1] = Base(q) /\ Readable(p, q) /\ AllName(p, own, q)')
                                    => at'[p] = 6 /\ k.targets[1] = Entry(own, q, 0)
    <3>1. Gotten(p, at[p], loc[p])'
      <4>1. l.i + 1 \in 0 .. Len(fs)
        BY <1>3, <1>6, <2>4
      <4> QED
        BY <1>3, <1>6, <2>4, <4>1 DEF Gotten
    <3>2. ASSUME NEW q, q \in Steady(p)', Readable(p, q)', AllName(p, own, q)',
                 NEW y, y = Entry(own, q, tree[q]),
                 NEW j \in 1 .. k.i, k.dom[1].files[j] = Base(q)
          PROVE  y \in k.items \/ (at'[p] = 6 /\ k.targets[1] = Entry(own, q, 0))
      <4>1. q \in Path /\ Readable(p, q) /\ Told(n, l, own, q, y)
        BY <1>4, <3>2
      <4>2. CASE j = l.i + 1
        BY <2>4, <3>2, <4>1, <4>2
      <4>3. CASE j # l.i + 1
        <5>1. j \in 1 .. l.i
          BY <1>3, <1>6, <2>4, <4>3
        <5> QED
          BY <1>6, <2>4, <3>2, <4>1, <5>1 DEF Told
      <4> QED
        BY <4>2, <4>3
    <3> QED
      BY <2>4, <3>1, <3>2 DEF Told
  <2> QED
    BY <2>2, <2>3, <2>4
<1>7. CASE n = 6
  <2>1. w = "exists"
    BY <1>1, <1>7, SummarySteps DEF Stepping
  <2>2. /\ at'[p] \in {5, 7} /\ l.items \subseteq k.items /\ k.dom = l.dom /\ k.i = l.i
        /\ Content(l.targets[1].path) # 0 => Member(l.targets[1]) \in k.items
    BY <1>7, <2>1, ExistsDoes DEF Stepping
  <2>3. Gotten(p, at[p], loc[p])'
    BY <1>3, <1>7, <2>2 DEF Gotten
  <2>4. ASSUME NEW q, q \in Steady(p)', Readable(p, q)', AllName(p, own, q)',
               NEW y, y = Entry(own, q, tree[q]),
               NEW j \in 1 .. k.i, k.dom[1].files[j] = Base(q)
        PROVE  y \in k.items
    <3>1. q \in Path /\ tree[q] # 0 /\ Told(n, l, own, q, y)
      BY <1>4, <2>4
    <3>2. y \in l.items \/ l.targets[1] = Entry(own, q, 0)
      BY <1>7, <2>2, <2>4, <3>1 DEF Told
    <3>3. l.targets[1] = Entry(own, q, 0) => Content(l.targets[1].path) = tree[q] /\ Member(l.targets[1]) = y
      BY <2>4, <3>1 DEF Entry, Member, Content
    <3> QED
      BY <2>2, <3>1, <3>2, <3>3
  <2> QED
    BY <2>2, <2>3, <2>4 DEF Told
<1>8. CASE n = 7
  <2>1. w = "content"
    BY <1>1, <1>8, SummarySteps DEF Stepping
  <2>2. at'[p] = 5 /\ l.items \subseteq k.items /\ k.dom = l.dom /\ k.i = l.i
    BY <1>8, <2>1, ContentDoes DEF Stepping
  <2>3. Gotten(p, at[p], loc[p])'
    BY <1>3, <1>8, <2>2 DEF Gotten
  <2>4. ASSUME NEW q, q \in Steady(p)', Readable(p, q)', AllName(p, own, q)',
               NEW y, y = Entry(own, q, tree[q]),
               NEW j \in 1 .. k.i, k.dom[1].files[j] = Base(q)
        PROVE  y \in k.items
    <3>1. Told(n, l, own, q, y)
      BY <1>4, <2>4
    <3> QED
      BY <1>8, <2>2, <2>4, <3>1 DEF Told
  <2> QED
    BY <2>2, <2>3, <2>4 DEF Told
<1> QED
  BY <1>1, <1>5, <1>6, <1>7, <1>8
--------------------------------------------------------------------------------
\* The time that is read from the marker is one it had, and the marker's past grows.
LEMMA MarkedKept ==
    ASSUME NEW p, NEW w, NEW s, Stepping(p, w, s), Marked(p)
    PROVE  Marked(p)'
<1>0. p \in Proc /\ Types /\ Observe /\ at'[p] # 0 /\ Run(p) /\ ~Reply(p) /\ Doing(p, w)
  BY DEF Stepping
<1>1. \A u \in Was(p, Marker) : u \in Was(p, Marker)'
  BY <1>0, PastGrows DEF Was
<1>2. CASE w # "marker"
  <2>1. "since" \in DOMAIN Locals \ Touches(w)
    BY <1>2 DEF Touches, Locals
  <2>2. loc'[p].since = loc[p].since
    BY <1>0, <2>1, RunTouches DEF Touched
  <2> QED
    BY <1>1, <2>2 DEF Marked
<1>3. CASE w = "marker"
  <2> DEFINE l == loc[p]
             now == Content(With(p))
  <2>1. With(p) = Marker
    BY <1>3, Steps DEF StepFits
  <2>2. StatMarker(p)
    BY <1>0, <1>3, RunDoes DEF Gates, Scans
  <2>3. loc'[p] = [l EXCEPT !.since = now] /\ UNCHANGED tree
    <3>1. GoOn(p, [l EXCEPT !.since = now]) /\ Local
      BY <2>2, Zenon DEF StatMarker
    <3> QED
      BY <1>0, <3>1, NewLocals DEF Local, files
  <2>4. "since" \in DOMAIN l
    BY <1>0 DEF Types, Locals
  <2>5. now \in Was(p, Marker)' \cup {0}
    BY <1>0, <2>1, <2>3, HistoryGrows DEF Was
  <2> HIDE DEF now, l
  <2>6. loc'[p].since = now
    BY <2>3, <2>4
  <2> QED
    BY <2>5, <2>6 DEF Marked
<1> QED
  BY <1>2, <1>3

\* While p stands still what is to come is still to come.
LEMMA CompleteStays ==
    ASSUME NEW p \in Proc, Observe, SharedOK', CompleteAt(p), HandlerOK(p)', req'[p] = req[p],
           at'[p] = at[p], code'[p] = code[p], loc'[p] = loc[p]
    PROVE  CompleteAt(p)'
<1> SUFFICES ASSUME code[p] = "none"
             PROVE  CompleteAt(p)'
  BY DEF CompleteAt
<1>1. Lived(p) /\ Marked(p) /\ RoundsAt(p) /\ \A q \in Steady(p) : LineAt(p, q)
  BY DEF CompleteAt
<1>2. Lived(p)'
  BY <1>1, LivedOn DEF Lived
<1>3. CASE at'[p] = 0
  <2>1. loc'[p] = Locals
    BY <1>3 DEF HandlerOK
  <2> QED
    BY <1>2, <1>3, <2>1, CompleteBegins
<1>4. CASE at'[p] # 0
  <2>1. Marked(p)'
    <3>1. \A u \in Was(p, Marker) : u \in Was(p, Marker)'
      BY <1>4, PastGrows DEF Was
    <3> QED
      BY <1>1, <3>1 DEF Marked
  <2>2. RoundsAt(p)'
    <3>1. during[p].regs \subseteq during'[p].regs
      BY <1>4, Remembered
    <3>2. req[p].method = "domain_summary" => Gotten(p, at[p], loc[p])'
      BY <1>1, <3>1 DEF RoundsAt, Gotten
    <3>3. ASSUME req[p].method = "domain_summary", NEW q, q \in Steady(p)', NEW id, NEW y,
                 id = req[p].domain, Readable(p, q)', AllName(p, id, q)',
                 y = Entry(id, q, tree'[q])
          PROVE  Told(at[p], loc[p], id, q, y)
      <4>1. q \in Steady(p) /\ tree'[q] = tree[q] /\ AllName(p, id, q)
        BY <1>1, <1>4, <3>3, SteadyBefore
      <4>2. Readable(p, q)
        BY <3>3 DEF Readable
      <4> QED
        BY <1>1, <3>3, <4>1, <4>2 DEF RoundsAt
    <3> QED
      BY <3>2, <3>3 DEF RoundsAt, Told
  <2>3. ASSUME NEW q, q \in Steady(p)', NEW s, NEW c, NEW d, NEW v, NEW id, NEW x, NEW y,
               s = Handler[req[p]], Route(p, s, c, d, v, id, q)',
               y = Entry(id, q, tree'[q]), x = Due(v, y)
        PROVE  Carries(at[p], loc[p], s, c, d, v, x, y)
    <3>1. q \in Steady(p) /\ tree'[q] = tree[q]
      BY <1>1, <1>4, <2>3, SteadyBefore
    <3>2. Route(p, s, c, d, v, id, q)
      BY <1>1, <1>4, <2>3, RouteBefore
    <3> QED
      BY <1>1, <2>3, <3>1, <3>2 DEF LineAt
  <2>4. \A q : q \in Steady(p)' => LineAt(p, q)'
    <3>1. Handler' = Handler
      BY DEF Handler
    <3>2. Handler'[req'[p]] = Handler[req[p]]
      BY <3>1
    <3> QED
      BY <2>3, <3>2 DEF LineAt
  <2> QED
    BY <1>2, <2>1, <2>2, <2>4 DEF CompleteAt
<1> QED
  BY <1>3, <1>4

\* The steps of the request itself.
LEMMA CompleteStep ==
    ASSUME NEW p \in Proc, Types, SharedOK, SharedOK', SoundAt(p), CompleteAt(p),
           HandlerOK(p)', Run(p), ~Reply(p)
    PROVE  CompleteAt(p)'
<1> DEFINE o == Handler[req[p]]
<1>1. /\ req'[p] = req[p] /\ Observe /\ code[p] = "none" /\ at[p] # 0
  <2>1. /\ UNCHANGED clients /\ code[p] = "none" /\ at[p] # 0
        /\ ((\E n, l : Jump(p, n, l)) \/ \E c : Fail(p, c))
    BY RunGoes, Zenon DEF Goes
  <2> QED
    BY <2>1 DEF clients, Jump, Fail
<1> SUFFICES ASSUME code'[p] = "none"
             PROVE  CompleteAt(p)'
  BY DEF CompleteAt
<1>2. PICK w : Doing(p, w)
  BY RunsDoing
<1>3. Lived(p) /\ Marked(p) /\ RoundsAt(p) /\ \A q \in Steady(p) : LineAt(p, q)
  BY <1>1 DEF CompleteAt
<1>4. Lived(p)'
  BY <1>1, <1>3, LivedOn DEF Lived
<1>5. CASE at'[p] = 0
  <2>1. loc'[p] = Locals
    BY <1>5 DEF HandlerOK
  <2> QED
    BY <1>4, <1>5, <2>1, CompleteBegins
<1>6. CASE at'[p] # 0
  <2>1. Stepping(p, w, o)
    BY <1>1, <1>2, <1>6 DEF Stepping, SoundAt
  <2> HIDE DEF o
  <2>2. Marked(p)'
    BY <1>3, <2>1, MarkedKept
  <2>3. RoundsAt(p)'
    BY <1>1, <1>3, <1>4, <2>1, RoundsKept
  <2>4. ASSUME NEW q, q \in Steady(p)', NEW s, NEW c, NEW d, NEW v, NEW id, NEW x, NEW y,
               s = o, Route(p, s, c, d, v, id, q)',
               y = Entry(id, q, tree'[q]), x = Due(v, y)
        PROVE  Carries(at'[p], loc'[p], s, c, d, v, x, y)
    <3>1. q \in Steady(p) /\ tree'[q] = tree[q]
      BY <1>1, <1>3, <1>6, <2>4, SteadyBefore
    <3>2. Route(p, s, c, d, v, id, q) /\ Course(p, s, c, d, v, id, q)
      BY <1>1, <1>3, <1>6, <2>4, RouteBefore
    <3>3. Carries(at[p], loc[p], s, c, d, v, x, y)
      BY <1>3, <2>4, <3>1, <3>2 DEF LineAt, o
    <3> QED
      BY <1>3, <2>1, <2>4, <3>1, <3>2, <3>3, LineKept
  <2>5. \A q : q \in Steady(p)' => LineAt(p, q)'
    <3>1. Handler' = Handler
      BY DEF Handler
    <3>2. Handler'[req'[p]] = o
      BY <1>1, <3>1 DEF o
    <3> QED
      BY <2>4, <3>2 DEF LineAt
  <2> QED
    BY <1>4, <2>2, <2>3, <2>5 DEF CompleteAt
<1> QED
  BY <1>5, <1>6

\* Every step keeps the requests complete.
LEMMA CompleteKept ==
    ASSUME Types, SharedOK, SharedOK', [Next]_vars, NEW p \in Proc, HandlerOK(p), HandlerOK(p)',
           SoundAt(p), CompleteAt(p)
    PROVE  CompleteAt(p)'
<1>1. CASE UNCHANGED vars
  <2>1. /\ req' = req /\ at' = at /\ code' = code /\ loc' = loc /\ during' = during /\ tree' = tree
    BY <1>1 DEF vars, clients, files
  <2>2. Handler' = Handler
    BY DEF Handler
  <2>3. /\ Lived(p)' = Lived(p) /\ Marked(p)' = Marked(p) /\ RoundsAt(p)' = RoundsAt(p)
        /\ Steady(p)' = Steady(p)
    BY <2>1 DEF Lived, Marked, Was, RoundsAt, Gotten, Told, Steady, Readable, AllName
  <2>4. \A q : LineAt(p, q)' = LineAt(p, q)
    BY <2>1, <2>2 DEF LineAt, Route, Carries, Fed, Takes, Lets, Readable, Was, AllName, Ready, Reading
  <2> QED
    BY <2>1, <2>3, <2>4 DEF CompleteAt
<1>2. CASE Turns
  BY <1>2, CompleteStays, TurnsAside DEF Aside, clients
<1>3. ASSUME NEW o \in Proc, o # p, Start(o) \/ Run(o)
      PROVE  CompleteAt(p)'
  BY <1>3, RunAlone, CompleteStays
<1>4. CASE Start(p)
  <2>1. at'[p] = 1 /\ loc'[p] = Locals /\ code[p] = "none" /\ Observe
    BY <1>4 DEF Start, Types, HandlerOK
  <2>2. Lived(p)'
    BY <2>1, LivedOn DEF CompleteAt, Lived
  <2> QED
    BY <2>1, <2>2, CompleteBegins
<1>5. CASE Reply(p)
  <2>1. at'[p] = 0 /\ loc'[p] = Locals /\ Observe
    BY <1>5 DEF Reply, Types
  <2>2. Lived(p)'
    BY <2>1 DEF Lived, Observe, Nothing
  <2> QED
    BY <2>1, <2>2, CompleteBegins
<1>6. CASE Run(p) /\ ~Reply(p)
  BY <1>6, CompleteStep
<1> QED
  BY <1>1, <1>2, <1>3, <1>4, <1>5, <1>6 DEF Next, Turns
--------------------------------------------------------------------------------
\* Tuples one after the other are one tuple.
LEMMA Glue ==
    ASSUME NEW S, NEW s \in Seq(S), NEW t \in Seq(S), NEW u \in Seq(S), Len(u) = Len(s) + Len(t),
           \A k \in 1 .. Len(s) : u[k] = s[k], \A k \in 1 .. Len(t) : u[Len(s) + k] = t[k]
    PROVE  s \o t = u
<1> DEFINE v == s \o t
<1>1. v \in Seq(S) /\ Len(v) = Len(u) /\ \A k \in 1 .. Len(s) : v[k] = s[k]
  OBVIOUS
<1>2. \A k \in 1 .. Len(t) : v[Len(s) + k] = t[k]
  OBVIOUS
<1> HIDE DEF v
<1>3. ASSUME NEW k \in 1 .. Len(u)
      PROVE  v[k] = u[k]
  <2>1. CASE k <= Len(s)
    BY <1>1, <2>1
  <2>2. CASE k > Len(s)
    <3>1. PICK j \in 1 .. Len(t) : k = Len(s) + j
      <4>1. k - Len(s) \in 1 .. Len(t) /\ k = Len(s) + (k - Len(s))
        BY <2>2
      <4> QED
        BY <4>1
    <3> QED
      BY <1>2, <3>1
  <2> QED
    BY <2>1, <2>2
<1>4. v = u
  BY <1>1, <1>3
<1> QED
  BY <1>4 DEF v

LEMMA Flat11 == \A a, b :
    <<a>> \o <<b>> = <<a, b>>
<1> TAKE a, b
<1> DEFINE s == <<a>>
           t == <<b>>
           u == <<a, b>>
           S == {a, b}
<1>1. s \in Seq(S) /\ t \in Seq(S) /\ u \in Seq(S) /\ Len(s) = 1 /\ Len(t) = 1 /\ Len(u) = 2
  OBVIOUS
<1>2. u[1] = s[1]
  OBVIOUS
<1>3. u[2] = t[1]
  OBVIOUS
<1> HIDE DEF s, t, u, S
<1>4. /\ Len(u) = Len(s) + Len(t)
      /\ \A k \in 1 .. Len(s) : u[k] = s[k]
      /\ \A k \in 1 .. Len(t) : u[Len(s) + k] = t[k]
  BY <1>1, <1>2, <1>3
<1>5. s \o t = u
  BY <1>1, <1>4, Glue
<1> QED
  BY <1>5 DEF s, t, u

LEMMA Flat12 == \A a, b, c :
    <<a>> \o <<b, c>> = <<a, b, c>>
<1> TAKE a, b, c
<1> DEFINE s == <<a>>
           t == <<b, c>>
           u == <<a, b, c>>
           S == {a, b, c}
<1>1. s \in Seq(S) /\ t \in Seq(S) /\ u \in Seq(S) /\ Len(s) = 1 /\ Len(t) = 2 /\ Len(u) = 3
  OBVIOUS
<1>2. u[1] = s[1]
  OBVIOUS
<1>3. u[2] = t[1] /\ u[3] = t[2]
  OBVIOUS
<1> HIDE DEF s, t, u, S
<1>4. /\ Len(u) = Len(s) + Len(t)
      /\ \A k \in 1 .. Len(s) : u[k] = s[k]
      /\ \A k \in 1 .. Len(t) : u[Len(s) + k] = t[k]
  BY <1>1, <1>2, <1>3
<1>5. s \o t = u
  BY <1>1, <1>4, Glue
<1> QED
  BY <1>5 DEF s, t, u

LEMMA Flat21 == \A a, b, c :
    <<a, b>> \o <<c>> = <<a, b, c>>
<1> TAKE a, b, c
<1> DEFINE s == <<a, b>>
           t == <<c>>
           u == <<a, b, c>>
           S == {a, b, c}
<1>1. s \in Seq(S) /\ t \in Seq(S) /\ u \in Seq(S) /\ Len(s) = 2 /\ Len(t) = 1 /\ Len(u) = 3
  OBVIOUS
<1>2. u[1] = s[1] /\ u[2] = s[2]
  OBVIOUS
<1>3. u[3] = t[1]
  OBVIOUS
<1> HIDE DEF s, t, u, S
<1>4. /\ Len(u) = Len(s) + Len(t)
      /\ \A k \in 1 .. Len(s) : u[k] = s[k]
      /\ \A k \in 1 .. Len(t) : u[Len(s) + k] = t[k]
  BY <1>1, <1>2, <1>3
<1>5. s \o t = u
  BY <1>1, <1>4, Glue
<1> QED
  BY <1>5 DEF s, t, u

LEMMA Flat13 == \A a, b, c, d :
    <<a>> \o <<b, c, d>> = <<a, b, c, d>>
<1> TAKE a, b, c, d
<1> DEFINE s == <<a>>
           t == <<b, c, d>>
           u == <<a, b, c, d>>
           S == {a, b, c, d}
<1>1. s \in Seq(S) /\ t \in Seq(S) /\ u \in Seq(S) /\ Len(s) = 1 /\ Len(t) = 3 /\ Len(u) = 4
  OBVIOUS
<1>2. u[1] = s[1]
  OBVIOUS
<1>3. u[2] = t[1] /\ u[3] = t[2] /\ u[4] = t[3]
  OBVIOUS
<1> HIDE DEF s, t, u, S
<1>4. /\ Len(u) = Len(s) + Len(t)
      /\ \A k \in 1 .. Len(s) : u[k] = s[k]
      /\ \A k \in 1 .. Len(t) : u[Len(s) + k] = t[k]
  BY <1>1, <1>2, <1>3
<1>5. s \o t = u
  BY <1>1, <1>4, Glue
<1> QED
  BY <1>5 DEF s, t, u

LEMMA Flat22 == \A a, b, c, d :
    <<a, b>> \o <<c, d>> = <<a, b, c, d>>
<1> TAKE a, b, c, d
<1> DEFINE s == <<a, b>>
           t == <<c, d>>
           u == <<a, b, c, d>>
           S == {a, b, c, d}
<1>1. s \in Seq(S) /\ t \in Seq(S) /\ u \in Seq(S) /\ Len(s) = 2 /\ Len(t) = 2 /\ Len(u) = 4
  OBVIOUS
<1>2. u[1] = s[1] /\ u[2] = s[2]
  OBVIOUS
<1>3. u[3] = t[1] /\ u[4] = t[2]
  OBVIOUS
<1> HIDE DEF s, t, u, S
<1>4. /\ Len(u) = Len(s) + Len(t)
      /\ \A k \in 1 .. Len(s) : u[k] = s[k]
      /\ \A k \in 1 .. Len(t) : u[Len(s) + k] = t[k]
  BY <1>1, <1>2, <1>3
<1>5. s \o t = u
  BY <1>1, <1>4, Glue
<1> QED
  BY <1>5 DEF s, t, u

LEMMA Flat31 == \A a, b, c, d :
    <<a, b, c>> \o <<d>> = <<a, b, c, d>>
<1> TAKE a, b, c, d
<1> DEFINE s == <<a, b, c>>
           t == <<d>>
           u == <<a, b, c, d>>
           S == {a, b, c, d}
<1>1. s \in Seq(S) /\ t \in Seq(S) /\ u \in Seq(S) /\ Len(s) = 3 /\ Len(t) = 1 /\ Len(u) = 4
  OBVIOUS
<1>2. u[1] = s[1] /\ u[2] = s[2] /\ u[3] = s[3]
  OBVIOUS
<1>3. u[4] = t[1]
  OBVIOUS
<1> HIDE DEF s, t, u, S
<1>4. /\ Len(u) = Len(s) + Len(t)
      /\ \A k \in 1 .. Len(s) : u[k] = s[k]
      /\ \A k \in 1 .. Len(t) : u[Len(s) + k] = t[k]
  BY <1>1, <1>2, <1>3
<1>5. s \o t = u
  BY <1>1, <1>4, Glue
<1> QED
  BY <1>5 DEF s, t, u

LEMMA Flat23 == \A a, b, c, d, e :
    <<a, b>> \o <<c, d, e>> = <<a, b, c, d, e>>
<1> TAKE a, b, c, d, e
<1> DEFINE s == <<a, b>>
           t == <<c, d, e>>
           u == <<a, b, c, d, e>>
           S == {a, b, c, d, e}
<1>1. s \in Seq(S) /\ t \in Seq(S) /\ u \in Seq(S) /\ Len(s) = 2 /\ Len(t) = 3 /\ Len(u) = 5
  OBVIOUS
<1>2. u[1] = s[1] /\ u[2] = s[2]
  OBVIOUS
<1>3. u[3] = t[1] /\ u[4] = t[2] /\ u[5] = t[3]
  OBVIOUS
<1> HIDE DEF s, t, u, S
<1>4. /\ Len(u) = Len(s) + Len(t)
      /\ \A k \in 1 .. Len(s) : u[k] = s[k]
      /\ \A k \in 1 .. Len(t) : u[Len(s) + k] = t[k]
  BY <1>1, <1>2, <1>3
<1>5. s \o t = u
  BY <1>1, <1>4, Glue
<1> QED
  BY <1>5 DEF s, t, u

LEMMA Flat32 == \A a, b, c, d, e :
    <<a, b, c>> \o <<d, e>> = <<a, b, c, d, e>>
<1> TAKE a, b, c, d, e
<1> DEFINE s == <<a, b, c>>
           t == <<d, e>>
           u == <<a, b, c, d, e>>
           S == {a, b, c, d, e}
<1>1. s \in Seq(S) /\ t \in Seq(S) /\ u \in Seq(S) /\ Len(s) = 3 /\ Len(t) = 2 /\ Len(u) = 5
  OBVIOUS
<1>2. u[1] = s[1] /\ u[2] = s[2] /\ u[3] = s[3]
  OBVIOUS
<1>3. u[4] = t[1] /\ u[5] = t[2]
  OBVIOUS
<1> HIDE DEF s, t, u, S
<1>4. /\ Len(u) = Len(s) + Len(t)
      /\ \A k \in 1 .. Len(s) : u[k] = s[k]
      /\ \A k \in 1 .. Len(t) : u[Len(s) + k] = t[k]
  BY <1>1, <1>2, <1>3
<1>5. s \o t = u
  BY <1>1, <1>4, Glue
<1> QED
  BY <1>5 DEF s, t, u

LEMMA Flat41 == \A a, b, c, d, e :
    <<a, b, c, d>> \o <<e>> = <<a, b, c, d, e>>
<1> TAKE a, b, c, d, e
<1> DEFINE s == <<a, b, c, d>>
           t == <<e>>
           u == <<a, b, c, d, e>>
           S == {a, b, c, d, e}
<1>1. s \in Seq(S) /\ t \in Seq(S) /\ u \in Seq(S) /\ Len(s) = 4 /\ Len(t) = 1 /\ Len(u) = 5
  OBVIOUS
<1>2. u[1] = s[1] /\ u[2] = s[2] /\ u[3] = s[3] /\ u[4] = s[4]
  OBVIOUS
<1>3. u[5] = t[1]
  OBVIOUS
<1> HIDE DEF s, t, u, S
<1>4. /\ Len(u) = Len(s) + Len(t)
      /\ \A k \in 1 .. Len(s) : u[k] = s[k]
      /\ \A k \in 1 .. Len(t) : u[Len(s) + k] = t[k]
  BY <1>1, <1>2, <1>3
<1>5. s \o t = u
  BY <1>1, <1>4, Glue
<1> QED
  BY <1>5 DEF s, t, u

\* The programs that are put together from such, step by step.
LEMMA IndexShape ==
    ASSUME NEW r
    PROVE  r.path = <<"L0_INDEX">> =>
           HandleRead(r) =
           <<Need({"params", "path"}), Do("enter", Root), Do("walk", "collect"),
             Do("scan", "found")>>
<1> DEFINE a == Need({"params", "path"})
           b == Do("enter", Root)
           c == Do("walk", "collect")
           d == Do("scan", "found")
<1>1. r.path = <<"L0_INDEX">> =>
        HandleRead(r) = <<a>> \o (<<b, c>> \o <<d>>)
  BY DEF HandleRead, ReadAll, ScanFiles, Walk
<1> HIDE DEF a, b, c, d
<1>2. <<b, c>> \o <<d>> = <<b, c, d>>
  BY Flat21, Zenon
<1>3. <<a>> \o <<b, c, d>> = <<a, b, c, d>>
  BY Flat13, Zenon
<1> QED
  BY <1>1, <1>2, <1>3 DEF a, b, c, d

LEMMA ListingShape ==
    ASSUME NEW r
    PROVE  r.path # <<"L0_INDEX">> /\ r.path = <<"LIST">> =>
           HandleRead(r) =
           <<Need({"params", "path"}), Do("enter", Root), Do("walk", "collect"),
             Do("report", "found")>>
<1> DEFINE a == Need({"params", "path"})
           b == Do("enter", Root)
           c == Do("walk", "collect")
           d == Do("report", "found")
<1>1. r.path # <<"L0_INDEX">> /\ r.path = <<"LIST">> =>
        HandleRead(r) = <<a>> \o (<<b, c>> \o <<d>>)
  BY DEF HandleRead, ScanFiles, Walk
<1> HIDE DEF a, b, c, d
<1>2. <<b, c>> \o <<d>> = <<b, c, d>>
  BY Flat21, Zenon
<1>3. <<a>> \o <<b, c, d>> = <<a, b, c, d>>
  BY Flat13, Zenon
<1> QED
  BY <1>1, <1>2, <1>3 DEF a, b, c, d

LEMMA SearchShape ==
    ASSUME NEW r
    PROVE  HandleSearch(r) =
           <<Need({"params", "query"}), Do("gateSearch", Everything),
             Do("enter", Root), Do("walk", "collect"), Do("scan", "found")>>
<1> DEFINE a == Need({"params", "query"})
           b == Do("gateSearch", Everything)
           c == Do("enter", Root)
           d == Do("walk", "collect")
           e == Do("scan", "found")
<1>1. HandleSearch(r) = <<a, b>> \o (<<c, d>> \o <<e>>)
  BY DEF HandleSearch, ReadAll, ScanFiles, Walk
<1> HIDE DEF a, b, c, d, e
<1>2. <<c, d>> \o <<e>> = <<c, d, e>>
  BY Flat21, Zenon
<1>3. <<a, b>> \o <<c, d, e>> = <<a, b, c, d, e>>
  BY Flat23, Zenon
<1> QED
  BY <1>1, <1>2, <1>3 DEF a, b, c, d, e

LEMMA StatsShape ==
    ASSUME NEW r
    PROVE  HandleStats(r) =
           <<Need({"params"}), Do("enter", Root), Do("walk", "collect"),
             Do("below", "found"), Do("scan", "found")>>
<1> DEFINE a == Need({"params"})
           b == Do("enter", Root)
           c == Do("walk", "collect")
           d == Do("below", "found")
           e == Do("scan", "found")
<1>1. HandleStats(r) = <<a>> \o <<b, c>> \o <<d, e>>
  BY DEF HandleStats, ScanFiles, Walk
<1> HIDE DEF a, b, c, d, e
<1>2. <<a>> \o <<b, c>> = <<a, b, c>>
  BY Flat12, Zenon
<1>3. <<a, b, c>> \o <<d, e>> = <<a, b, c, d, e>>
  BY Flat32, Zenon
<1> QED
  BY <1>1, <1>2, <1>3 DEF a, b, c, d, e

LEMMA L0IndexShape ==
    ASSUME NEW r
    PROVE  HandleL0Index(r) =
           <<Need({"params"}), Do("enter", Root), Do("walk", "collect"),
             Do("scan", "found"), Do("below", "items")>>
<1> DEFINE a == Need({"params"})
           b == Do("enter", Root)
           c == Do("walk", "collect")
           d == Do("scan", "found")
           e == Do("below", "items")
<1>1. HandleL0Index(r) = <<a>> \o (<<b, c>> \o <<d>>) \o <<e>>
  BY DEF HandleL0Index, ReadAll, ScanFiles, Walk
<1> HIDE DEF a, b, c, d, e
<1>2. <<b, c>> \o <<d>> = <<b, c, d>>
  BY Flat21, Zenon
<1>3. <<a>> \o <<b, c, d>> = <<a, b, c, d>>
  BY Flat13, Zenon
<1>4. <<a, b, c, d>> \o <<e>> = <<a, b, c, d, e>>
  BY Flat41, Zenon
<1> QED
  BY <1>1, <1>2, <1>3, <1>4 DEF a, b, c, d, e

LEMMA ListShape ==
    ASSUME NEW r
    PROVE  HandleList(r) =
           <<Need({"params"}), Do("enter", Root), Do("walk", "collect"),
             Do("report", "found")>>
<1> DEFINE a == Need({"params"})
           b == Do("enter", Root)
           c == Do("walk", "collect")
           d == Do("report", "found")
<1>1. HandleList(r) = <<a>> \o <<b, c>> \o <<d>>
  BY DEF HandleList, ScanFiles, Walk
<1> HIDE DEF a, b, c, d
<1>2. <<a>> \o <<b, c>> = <<a, b, c>>
  BY Flat12, Zenon
<1>3. <<a, b, c>> \o <<d>> = <<a, b, c, d>>
  BY Flat31, Zenon
<1> QED
  BY <1>1, <1>2, <1>3 DEF a, b, c, d

LEMMA ScenarioShape ==
    ASSUME NEW r
    PROVE  HandleScenarioCheck(r) =
           <<Need({"params", "role"}), Do("enter", Scenarios), Do("walk", "read"),
             Do("hide", "items")>>
<1> DEFINE a == Need({"params", "role"})
           b == Do("enter", Scenarios)
           c == Do("walk", "read")
           d == Do("hide", "items")
<1>1. HandleScenarioCheck(r) = <<a>> \o <<b, c>> \o <<d>>
  BY DEF HandleScenarioCheck, Walk
<1> HIDE DEF a, b, c, d
<1>2. <<a>> \o <<b, c>> = <<a, b, c>>
  BY Flat12, Zenon
<1>3. <<a, b, c>> \o <<d>> = <<a, b, c, d>>
  BY Flat31, Zenon
<1> QED
  BY <1>1, <1>2, <1>3 DEF a, b, c, d

LEMMA GlacierShape ==
    ASSUME NEW r
    PROVE  HandleGlacierIndex(r) =
           <<Need({"params", "role"}), Do("enter", Glacier), Do("walk", "list"),
             Do("hide", "items")>>
<1> DEFINE a == Need({"params", "role"})
           b == Do("enter", Glacier)
           c == Do("walk", "list")
           d == Do("hide", "items")
<1>1. HandleGlacierIndex(r) = <<a>> \o <<b, c>> \o <<d>>
  BY DEF HandleGlacierIndex, Walk
<1> HIDE DEF a, b, c, d
<1>2. <<a>> \o <<b, c>> = <<a, b, c>>
  BY Flat12, Zenon
<1>3. <<a, b, c>> \o <<d>> = <<a, b, c, d>>
  BY Flat31, Zenon
<1> QED
  BY <1>1, <1>2, <1>3 DEF a, b, c, d

LEMMA WikiShape ==
    ASSUME NEW r
    PROVE  HandleWikiIndex(r) =
           <<Need({"params", "role"}), Do("enter", Wiki), Do("walk", "list"),
             Do("hide", "items")>>
<1> DEFINE a == Need({"params", "role"})
           b == Do("enter", Wiki)
           c == Do("walk", "list")
           d == Do("hide", "items")
<1>1. HandleWikiIndex(r) = <<a>> \o <<b, c>> \o <<d>>
  BY DEF HandleWikiIndex, Walk
<1> HIDE DEF a, b, c, d
<1>2. <<a>> \o <<b, c>> = <<a, b, c>>
  BY Flat12, Zenon
<1>3. <<a, b, c>> \o <<d>> = <<a, b, c, d>>
  BY Flat31, Zenon
<1> QED
  BY <1>1, <1>2, <1>3 DEF a, b, c, d

LEMMA LinkIndexShape ==
    ASSUME NEW r
    PROVE  HandleLinkIndex(r) =
           <<Need({"params", "role"}), Do("enter", Root), Do("walk", "collect"),
             Do("scanNotes", "found"), Do("hide", "items")>>
<1> DEFINE a == Need({"params", "role"})
           b == Do("enter", Root)
           c == Do("walk", "collect")
           d == Do("scanNotes", "found")
           e == Do("hide", "items")
<1>1. HandleLinkIndex(r) = <<a>> \o <<b, c>> \o <<d, e>>
  BY DEF HandleLinkIndex, ScanFiles, Walk
<1> HIDE DEF a, b, c, d, e
<1>2. <<a>> \o <<b, c>> = <<a, b, c>>
  BY Flat12, Zenon
<1>3. <<a, b, c>> \o <<d, e>> = <<a, b, c, d, e>>
  BY Flat32, Zenon
<1> QED
  BY <1>1, <1>2, <1>3 DEF a, b, c, d, e

LEMMA HousekeepingShape ==
    ASSUME NEW r
    PROVE  HandleHousekeepingScan(r) =
           <<Need({"params", "role"}), Do("domains", "all"),
             Do("resolveEach", "read"), Do("roots", "read"), Do("permit", "targets"),
             Do("marker", Marker), Do("enter", Root), Do("walk", "collect"),
             Do("scan", "targets"), Do("changed", "found")>>
<1> DEFINE a == Need({"params", "role"})
           b == Do("domains", "all")
           c == Do("resolveEach", "read")
           d == Do("roots", "read")
           e == Do("permit", "targets")
           f == Do("marker", Marker)
           g == Do("enter", Root)
           h == Do("walk", "collect")
           i == Do("scan", "targets")
           j == Do("changed", "found")
<1>1. HandleHousekeepingScan(r) = <<a, b, c, d, e, f>> \o <<g, h>> \o <<i, j>>
  BY DEF HandleHousekeepingScan, ScanFiles, Walk
<1> HIDE DEF a, b, c, d, e, f, g, h, i, j
<1>2. <<a, b, c, d, e, f>> \o <<g, h>> = <<a, b, c, d, e, f, g, h>>
  <2> DEFINE v == <<a, b, c, d, e, f>>
             t == <<g, h>>
             u == <<a, b, c, d, e, f, g, h>>
             S == {a, b, c, d, e, f, g, h}
  <2>1. v \in Seq(S) /\ t \in Seq(S) /\ u \in Seq(S) /\ Len(v) = 6 /\ Len(t) = 2 /\ Len(u) = 8
    OBVIOUS
  <2>2. u[1] = v[1] /\ u[2] = v[2] /\ u[3] = v[3] /\ u[4] = v[4] /\ u[5] = v[5] /\ u[6] = v[6]
    OBVIOUS
  <2>3. u[7] = t[1] /\ u[8] = t[2]
    OBVIOUS
  <2> HIDE DEF v, t, u, S
  <2>4. /\ Len(u) = Len(v) + Len(t)
        /\ \A x \in 1 .. Len(v) : u[x] = v[x]
        /\ \A x \in 1 .. Len(t) : u[Len(v) + x] = t[x]
    BY <2>1, <2>2, <2>3
  <2>5. v \o t = u
    BY <2>1, <2>4, Glue
  <2> QED
    BY <2>5 DEF v, t, u
<1>3. <<a, b, c, d, e, f, g, h>> \o <<i, j>> = <<a, b, c, d, e, f, g, h, i, j>>
  <2> DEFINE v == <<a, b, c, d, e, f, g, h>>
             t == <<i, j>>
             u == <<a, b, c, d, e, f, g, h, i, j>>
             S == {a, b, c, d, e, f, g, h, i, j}
  <2>1. v \in Seq(S) /\ t \in Seq(S) /\ u \in Seq(S) /\ Len(v) = 8 /\ Len(t) = 2 /\ Len(u) = 10
    OBVIOUS
  <2>2. u[1] = v[1] /\ u[2] = v[2] /\ u[3] = v[3] /\ u[4] = v[4] /\ u[5] = v[5] /\ u[6] = v[6] /\ u[7] = v[7] /\ u[8] = v[8]
    OBVIOUS
  <2>3. u[9] = t[1] /\ u[10] = t[2]
    OBVIOUS
  <2> HIDE DEF v, t, u, S
  <2>4. /\ Len(u) = Len(v) + Len(t)
        /\ \A x \in 1 .. Len(v) : u[x] = v[x]
        /\ \A x \in 1 .. Len(t) : u[Len(v) + x] = t[x]
    BY <2>1, <2>2, <2>3
  <2>5. v \o t = u
    BY <2>1, <2>4, Glue
  <2> QED
    BY <2>5 DEF v, t, u
<1> QED
  BY <1>1, <1>2, <1>3 DEF a, b, c, d, e, f, g, h, i, j

LEMMA BriefShape ==
    ASSUME NEW r
    PROVE  HandleSessionBrief(r) =
           <<Need({"params", "role"}), Do("domains", "each"),
             Do("targets", "action-items"), Do("open", HotMemory),
             Do("open", Patterns), Do("countEach", "targets"), Do("hide", "counts")>>
BY DEF HandleSessionBrief

LEMMA ActionsAllShape ==
    ASSUME NEW r
    PROVE  r.domain = "" =>
           HandleOpenActions(r) =
           <<Need({"params", "role"}), Do("targets", "action-items"),
             Do("count", "targets"), Do("hide", "items")>>
<1> DEFINE a == Need({"params", "role"})
           b == Do("targets", "action-items")
           c == Do("count", "targets")
           d == Do("hide", "items")
<1>1. r.domain = "" =>
        HandleOpenActions(r) = <<a>> \o <<b>> \o <<c, d>>
  BY DEF HandleOpenActions, TargetsOf
<1> HIDE DEF a, b, c, d
<1>2. <<a>> \o <<b>> = <<a, b>>
  BY Flat11, Zenon
<1>3. <<a, b>> \o <<c, d>> = <<a, b, c, d>>
  BY Flat22, Zenon
<1> QED
  BY <1>1, <1>2, <1>3 DEF a, b, c, d

LEMMA ActionsOneShape ==
    ASSUME NEW r
    PROVE  r.domain # "" =>
           HandleOpenActions(r) =
           <<Need({"params", "role"}), Do("get", "invalid"),
             Do("resolve", "action-items"), Do("count", "targets"),
             Do("hide", "items")>>
<1> DEFINE a == Need({"params", "role"})
           b == Do("get", "invalid")
           c == Do("resolve", "action-items")
           d == Do("count", "targets")
           e == Do("hide", "items")
<1>1. r.domain # "" =>
        HandleOpenActions(r) = <<a>> \o <<b, c>> \o <<d, e>>
  BY DEF HandleOpenActions, TargetsOf
<1> HIDE DEF a, b, c, d, e
<1>2. <<a>> \o <<b, c>> = <<a, b, c>>
  BY Flat12, Zenon
<1>3. <<a, b, c>> \o <<d, e>> = <<a, b, c, d, e>>
  BY Flat32, Zenon
<1> QED
  BY <1>1, <1>2, <1>3 DEF a, b, c, d, e

LEMMA RecentAllShape ==
    ASSUME NEW r
    PROVE  r.domain = "" =>
           HandleRecentObservations(r) =
           <<Need({"params", "role", "alias", "since"}),
             Do("targets", "observations"), Do("permit", "targets"),
             Do("count", "targets")>>
<1> DEFINE a == Need({"params", "role", "alias", "since"})
           b == Do("targets", "observations")
           c == Do("permit", "targets")
           d == Do("count", "targets")
<1>1. r.domain = "" =>
        HandleRecentObservations(r) = <<a>> \o <<b>> \o <<c, d>>
  BY DEF HandleRecentObservations, TargetsOf
<1> HIDE DEF a, b, c, d
<1>2. <<a>> \o <<b>> = <<a, b>>
  BY Flat11, Zenon
<1>3. <<a, b>> \o <<c, d>> = <<a, b, c, d>>
  BY Flat22, Zenon
<1> QED
  BY <1>1, <1>2, <1>3 DEF a, b, c, d

LEMMA RecentOneShape ==
    ASSUME NEW r
    PROVE  r.domain # "" =>
           HandleRecentObservations(r) =
           <<Need({"params", "role", "alias", "since"}), Do("get", "invalid"),
             Do("resolve", "observations"), Do("permit", "targets"),
             Do("count", "targets")>>
<1> DEFINE a == Need({"params", "role", "alias", "since"})
           b == Do("get", "invalid")
           c == Do("resolve", "observations")
           d == Do("permit", "targets")
           e == Do("count", "targets")
<1>1. r.domain # "" =>
        HandleRecentObservations(r) = <<a>> \o <<b, c>> \o <<d, e>>
  BY DEF HandleRecentObservations, TargetsOf
<1> HIDE DEF a, b, c, d, e
<1>2. <<a>> \o <<b, c>> = <<a, b, c>>
  BY Flat12, Zenon
<1>3. <<a, b, c>> \o <<d, e>> = <<a, b, c, d, e>>
  BY Flat32, Zenon
<1> QED
  BY <1>1, <1>2, <1>3 DEF a, b, c, d, e

LEMMA ClusterAllShape ==
    ASSUME NEW r
    PROVE  r.domain = "" =>
           HandleClusterCheck(r) =
           <<Need({"params", "role"}), Do("targets", "observations"),
             Do("permit", "targets"), Need({"since"}), Do("count", "targets")>>
<1> DEFINE a == Need({"params", "role"})
           b == Do("targets", "observations")
           c == Do("permit", "targets")
           d == Need({"since"})
           e == Do("count", "targets")
<1>1. r.domain = "" =>
        HandleClusterCheck(r) = <<a>> \o <<b>> \o <<c, d, e>>
  BY DEF HandleClusterCheck, TargetsOf
<1> HIDE DEF a, b, c, d, e
<1>2. <<a>> \o <<b>> = <<a, b>>
  BY Flat11, Zenon
<1>3. <<a, b>> \o <<c, d, e>> = <<a, b, c, d, e>>
  BY Flat23, Zenon
<1> QED
  BY <1>1, <1>2, <1>3 DEF a, b, c, d, e

LEMMA ClusterOneShape ==
    ASSUME NEW r
    PROVE  r.domain # "" =>
           HandleClusterCheck(r) =
           <<Need({"params", "role"}), Do("get", "invalid"),
             Do("resolve", "observations"), Do("permit", "targets"), Need({"since"}),
             Do("count", "targets")>>
<1> DEFINE a == Need({"params", "role"})
           b == Do("get", "invalid")
           c == Do("resolve", "observations")
           d == Do("permit", "targets")
           e == Need({"since"})
           f == Do("count", "targets")
<1>1. r.domain # "" =>
        HandleClusterCheck(r) = <<a>> \o <<b, c>> \o <<d, e, f>>
  BY DEF HandleClusterCheck, TargetsOf
<1> HIDE DEF a, b, c, d, e, f
<1>2. <<a>> \o <<b, c>> = <<a, b, c>>
  BY Flat12, Zenon
<1>3. <<a, b, c>> \o <<d, e, f>> = <<a, b, c, d, e, f>>
  <2> DEFINE v == <<a, b, c>>
             t == <<d, e, f>>
             u == <<a, b, c, d, e, f>>
             S == {a, b, c, d, e, f}
  <2>1. v \in Seq(S) /\ t \in Seq(S) /\ u \in Seq(S) /\ Len(v) = 3 /\ Len(t) = 3 /\ Len(u) = 6
    OBVIOUS
  <2>2. u[1] = v[1] /\ u[2] = v[2] /\ u[3] = v[3]
    OBVIOUS
  <2>3. u[4] = t[1] /\ u[5] = t[2] /\ u[6] = t[3]
    OBVIOUS
  <2> HIDE DEF v, t, u, S
  <2>4. /\ Len(u) = Len(v) + Len(t)
        /\ \A x \in 1 .. Len(v) : u[x] = v[x]
        /\ \A x \in 1 .. Len(t) : u[Len(v) + x] = t[x]
    BY <2>1, <2>2, <2>3
  <2>5. v \o t = u
    BY <2>1, <2>4, Glue
  <2> QED
    BY <2>5 DEF v, t, u
<1> QED
  BY <1>1, <1>2, <1>3 DEF a, b, c, d, e, f

LEMMA EntitiesAllShape ==
    ASSUME NEW r
    PROVE  r.domain = "" =>
           HandleEntityAudit(r) =
           <<Need({"params", "role"}), Do("targets", "entities"),
             Do("permit", "targets"), Do("count", "targets")>>
<1> DEFINE a == Need({"params", "role"})
           b == Do("targets", "entities")
           c == Do("permit", "targets")
           d == Do("count", "targets")
<1>1. r.domain = "" =>
        HandleEntityAudit(r) = <<a>> \o <<b>> \o <<c, d>>
  BY DEF HandleEntityAudit, TargetsOf
<1> HIDE DEF a, b, c, d
<1>2. <<a>> \o <<b>> = <<a, b>>
  BY Flat11, Zenon
<1>3. <<a, b>> \o <<c, d>> = <<a, b, c, d>>
  BY Flat22, Zenon
<1> QED
  BY <1>1, <1>2, <1>3 DEF a, b, c, d

LEMMA EntitiesOneShape ==
    ASSUME NEW r
    PROVE  r.domain # "" =>
           HandleEntityAudit(r) =
           <<Need({"params", "role"}), Do("get", "invalid"),
             Do("resolve", "entities"), Do("permit", "targets"),
             Do("count", "targets")>>
<1> DEFINE a == Need({"params", "role"})
           b == Do("get", "invalid")
           c == Do("resolve", "entities")
           d == Do("permit", "targets")
           e == Do("count", "targets")
<1>1. r.domain # "" =>
        HandleEntityAudit(r) = <<a>> \o <<b, c>> \o <<d, e>>
  BY DEF HandleEntityAudit, TargetsOf
<1> HIDE DEF a, b, c, d, e
<1>2. <<a>> \o <<b, c>> = <<a, b, c>>
  BY Flat12, Zenon
<1>3. <<a, b, c>> \o <<d, e>> = <<a, b, c, d, e>>
  BY Flat32, Zenon
<1> QED
  BY <1>1, <1>2, <1>3 DEF a, b, c, d, e

\* How the programs bring a file into the answer: the walks first, then the lists of
\* declared files.
LEMMA IndexRoute ==
    ASSUME NEW p, NEW q \in Path, NEW s,
           s = <<Need({"params", "path"}), Do("enter", Root), Do("walk", "collect"),
                 Do("scan", "found")>>
    PROVE  Below(q, Root) =>
           Route(p, s, 3, 4, "found", "", q)
<1>1. /\ Len(s) = 4 /\ DOMAIN s = 1 .. 4
      /\ s[1].do = "need" /\ s[2].do = "enter" /\ s[2].with = Root
      /\ s[3].do = "walk" /\ s[3].with = "collect"
      /\ s[4].do = "scan" /\ s[4].with = "found"
  BY DoWhat DEF Need
<1>2. Line(s, 3, 4, "found")
  BY <1>1 DEF Line, Between, Scans
<1>3. s[3 - 1].do = "enter" /\ s[3 - 1].with = Root
  BY <1>1
<1>4. Below(q, Root) => Fed(p, s, 3, "", q)
  BY <1>1, <1>3 DEF Fed
<1>5. Takes(p, q, s[4])
  BY <1>1 DEF Takes
<1>6. \A k \in 3 + 1 .. Len(s) : Lets(p, q, s[k])
  BY <1>1 DEF Lets
<1> QED
  BY <1>2, <1>4, <1>5, <1>6 DEF Route

LEMMA ListingRoute ==
    ASSUME NEW p, NEW q \in Path, NEW s,
           s = <<Need({"params", "path"}), Do("enter", Root), Do("walk", "collect"),
                 Do("report", "found")>>
    PROVE  Below(q, Root) =>
           Route(p, s, 3, 4, "found", "", q)
<1>1. /\ Len(s) = 4 /\ DOMAIN s = 1 .. 4
      /\ s[1].do = "need" /\ s[2].do = "enter" /\ s[2].with = Root
      /\ s[3].do = "walk" /\ s[3].with = "collect"
      /\ s[4].do = "report" /\ s[4].with = "found"
  BY DoWhat DEF Need
<1>2. Line(s, 3, 4, "found")
  BY <1>1 DEF Line, Between, Scans
<1>3. s[3 - 1].do = "enter" /\ s[3 - 1].with = Root
  BY <1>1
<1>4. Below(q, Root) => Fed(p, s, 3, "", q)
  BY <1>1, <1>3 DEF Fed
<1>5. Takes(p, q, s[4])
  BY <1>1 DEF Takes
<1>6. \A k \in 3 + 1 .. Len(s) : Lets(p, q, s[k])
  BY <1>1 DEF Lets
<1> QED
  BY <1>2, <1>4, <1>5, <1>6 DEF Route

LEMMA SearchRoute ==
    ASSUME NEW p, NEW q \in Path, NEW s,
           s = <<Need({"params", "query"}), Do("gateSearch", Everything),
                 Do("enter", Root), Do("walk", "collect"), Do("scan", "found")>>
    PROVE  Below(q, Root) =>
           Route(p, s, 4, 5, "found", "", q)
<1>1. /\ Len(s) = 5 /\ DOMAIN s = 1 .. 5
      /\ s[1].do = "need" /\ s[2].do = "gateSearch"
      /\ s[3].do = "enter" /\ s[3].with = Root
      /\ s[4].do = "walk" /\ s[4].with = "collect"
      /\ s[5].do = "scan" /\ s[5].with = "found"
  BY DoWhat DEF Need
<1>2. Line(s, 4, 5, "found")
  BY <1>1 DEF Line, Between, Scans
<1>3. s[4 - 1].do = "enter" /\ s[4 - 1].with = Root
  BY <1>1
<1>4. Below(q, Root) => Fed(p, s, 4, "", q)
  BY <1>1, <1>3 DEF Fed
<1>5. Takes(p, q, s[5])
  BY <1>1 DEF Takes
<1>6. \A k \in 4 + 1 .. Len(s) : Lets(p, q, s[k])
  BY <1>1 DEF Lets
<1> QED
  BY <1>2, <1>4, <1>5, <1>6 DEF Route

LEMMA StatsRoute ==
    ASSUME NEW p, NEW q \in Path, NEW s,
           s = <<Need({"params"}), Do("enter", Root), Do("walk", "collect"),
                 Do("below", "found"), Do("scan", "found")>>
    PROVE  /\ Below(q, Root)
           /\ Within(q, req[p].path)
           => Route(p, s, 3, 5, "found", "", q)
<1>1. /\ Len(s) = 5 /\ DOMAIN s = 1 .. 5
      /\ s[1].do = "need" /\ s[2].do = "enter" /\ s[2].with = Root
      /\ s[3].do = "walk" /\ s[3].with = "collect" /\ s[4].do = "below"
      /\ s[5].do = "scan" /\ s[5].with = "found"
  BY DoWhat DEF Need
<1>2. Line(s, 3, 5, "found")
  BY <1>1 DEF Line, Between, Scans
<1>3. s[3 - 1].do = "enter" /\ s[3 - 1].with = Root
  BY <1>1
<1>4. Below(q, Root) => Fed(p, s, 3, "", q)
  BY <1>1, <1>3 DEF Fed
<1>5. Takes(p, q, s[5])
  BY <1>1 DEF Takes
<1>6. Within(q, req[p].path) => \A k \in 3 + 1 .. Len(s) : Lets(p, q, s[k])
  BY <1>1 DEF Lets
<1> QED
  BY <1>2, <1>4, <1>5, <1>6 DEF Route

LEMMA L0IndexRoute ==
    ASSUME NEW p, NEW q \in Path, NEW s,
           s = <<Need({"params"}), Do("enter", Root), Do("walk", "collect"),
                 Do("scan", "found"), Do("below", "items")>>
    PROVE  /\ Below(q, Root)
           /\ Within(q, req[p].path)
           => Route(p, s, 3, 4, "found", "", q)
<1>1. /\ Len(s) = 5 /\ DOMAIN s = 1 .. 5
      /\ s[1].do = "need" /\ s[2].do = "enter" /\ s[2].with = Root
      /\ s[3].do = "walk" /\ s[3].with = "collect"
      /\ s[4].do = "scan" /\ s[4].with = "found" /\ s[5].do = "below"
  BY DoWhat DEF Need
<1>2. Line(s, 3, 4, "found")
  BY <1>1 DEF Line, Between, Scans
<1>3. s[3 - 1].do = "enter" /\ s[3 - 1].with = Root
  BY <1>1
<1>4. Below(q, Root) => Fed(p, s, 3, "", q)
  BY <1>1, <1>3 DEF Fed
<1>5. Takes(p, q, s[4])
  BY <1>1 DEF Takes
<1>6. Within(q, req[p].path) => \A k \in 3 + 1 .. Len(s) : Lets(p, q, s[k])
  BY <1>1 DEF Lets
<1> QED
  BY <1>2, <1>4, <1>5, <1>6 DEF Route

LEMMA ListRoute ==
    ASSUME NEW p, NEW q \in Path, NEW s,
           s = <<Need({"params"}), Do("enter", Root), Do("walk", "collect"),
                 Do("report", "found")>>
    PROVE  Below(q, Root) =>
           Route(p, s, 3, 4, "found", "", q)
<1>1. /\ Len(s) = 4 /\ DOMAIN s = 1 .. 4
      /\ s[1].do = "need" /\ s[2].do = "enter" /\ s[2].with = Root
      /\ s[3].do = "walk" /\ s[3].with = "collect"
      /\ s[4].do = "report" /\ s[4].with = "found"
  BY DoWhat DEF Need
<1>2. Line(s, 3, 4, "found")
  BY <1>1 DEF Line, Between, Scans
<1>3. s[3 - 1].do = "enter" /\ s[3 - 1].with = Root
  BY <1>1
<1>4. Below(q, Root) => Fed(p, s, 3, "", q)
  BY <1>1, <1>3 DEF Fed
<1>5. Takes(p, q, s[4])
  BY <1>1 DEF Takes
<1>6. \A k \in 3 + 1 .. Len(s) : Lets(p, q, s[k])
  BY <1>1 DEF Lets
<1> QED
  BY <1>2, <1>4, <1>5, <1>6 DEF Route

LEMMA ScenarioRoute ==
    ASSUME NEW p, NEW q \in Path, NEW s,
           s = <<Need({"params", "role"}), Do("enter", Scenarios),
                 Do("walk", "read"), Do("hide", "items")>>
    PROVE  /\ Below(q, Scenarios)
           /\ Readable(p, q)
           => Route(p, s, 3, 3, "found", "", q)
<1>1. /\ Len(s) = 4 /\ DOMAIN s = 1 .. 4
      /\ s[1].do = "need" /\ s[2].do = "enter" /\ s[2].with = Scenarios
      /\ s[3].do = "walk" /\ s[3].with = "read" /\ s[4].do = "hide"
  BY DoWhat DEF Need
<1>2. Line(s, 3, 3, "found")
  BY <1>1 DEF Line, Between, Scans
<1>3. s[3 - 1].do = "enter" /\ s[3 - 1].with = Scenarios
  BY <1>1
<1>4. Below(q, Scenarios) => Fed(p, s, 3, "", q)
  BY <1>1, <1>3 DEF Fed
<1>5. Takes(p, q, s[3])
  BY <1>1 DEF Takes
<1>6. Readable(p, q) => \A k \in 3 + 1 .. Len(s) : Lets(p, q, s[k])
  BY <1>1 DEF Lets
<1> QED
  BY <1>2, <1>4, <1>5, <1>6 DEF Route

LEMMA GlacierRoute ==
    ASSUME NEW p, NEW q \in Path, NEW s,
           s = <<Need({"params", "role"}), Do("enter", Glacier), Do("walk", "list"),
                 Do("hide", "items")>>
    PROVE  /\ Below(q, Glacier)
           /\ ~Derived(q)
           /\ Readable(p, q)
           => Route(p, s, 3, 3, "found", "", q)
<1>1. /\ Len(s) = 4 /\ DOMAIN s = 1 .. 4
      /\ s[1].do = "need" /\ s[2].do = "enter" /\ s[2].with = Glacier
      /\ s[3].do = "walk" /\ s[3].with = "list" /\ s[4].do = "hide"
  BY DoWhat DEF Need
<1>2. Line(s, 3, 3, "found")
  BY <1>1 DEF Line, Between, Scans
<1>3. s[3 - 1].do = "enter" /\ s[3 - 1].with = Glacier
  BY <1>1
<1>4. Below(q, Glacier) /\ ~Derived(q) => Fed(p, s, 3, "", q)
  BY <1>1, <1>3 DEF Fed
<1>5. Takes(p, q, s[3])
  BY <1>1 DEF Takes
<1>6. Readable(p, q) => \A k \in 3 + 1 .. Len(s) : Lets(p, q, s[k])
  BY <1>1 DEF Lets
<1> QED
  BY <1>2, <1>4, <1>5, <1>6 DEF Route

LEMMA WikiRoute ==
    ASSUME NEW p, NEW q \in Path, NEW s,
           s = <<Need({"params", "role"}), Do("enter", Wiki), Do("walk", "list"),
                 Do("hide", "items")>>
    PROVE  /\ Below(q, Wiki)
           /\ ~Derived(q)
           /\ Readable(p, q)
           => Route(p, s, 3, 3, "found", "", q)
<1>1. /\ Len(s) = 4 /\ DOMAIN s = 1 .. 4
      /\ s[1].do = "need" /\ s[2].do = "enter" /\ s[2].with = Wiki
      /\ s[3].do = "walk" /\ s[3].with = "list" /\ s[4].do = "hide"
  BY DoWhat DEF Need
<1>2. Line(s, 3, 3, "found")
  BY <1>1 DEF Line, Between, Scans
<1>3. s[3 - 1].do = "enter" /\ s[3 - 1].with = Wiki
  BY <1>1
<1>4. Below(q, Wiki) /\ ~Derived(q) => Fed(p, s, 3, "", q)
  BY <1>1, <1>3 DEF Fed
<1>5. Takes(p, q, s[3])
  BY <1>1 DEF Takes
<1>6. Readable(p, q) => \A k \in 3 + 1 .. Len(s) : Lets(p, q, s[k])
  BY <1>1 DEF Lets
<1> QED
  BY <1>2, <1>4, <1>5, <1>6 DEF Route

LEMMA LinkIndexRoute ==
    ASSUME NEW p, NEW q \in Path, NEW s,
           s = <<Need({"params", "role"}), Do("enter", Root), Do("walk", "collect"),
                 Do("scanNotes", "found"), Do("hide", "items")>>
    PROVE  /\ Below(q, Root)
           /\ q # Marker
           /\ Readable(p, q)
           => Route(p, s, 3, 4, "found", "", q)
<1>1. /\ Len(s) = 5 /\ DOMAIN s = 1 .. 5
      /\ s[1].do = "need" /\ s[2].do = "enter" /\ s[2].with = Root
      /\ s[3].do = "walk" /\ s[3].with = "collect"
      /\ s[4].do = "scanNotes" /\ s[4].with = "found" /\ s[5].do = "hide"
  BY DoWhat DEF Need
<1>2. Line(s, 3, 4, "found")
  BY <1>1 DEF Line, Between, Scans
<1>3. s[3 - 1].do = "enter" /\ s[3 - 1].with = Root
  BY <1>1
<1>4. Below(q, Root) => Fed(p, s, 3, "", q)
  BY <1>1, <1>3 DEF Fed
<1>5. q # Marker /\ Readable(p, q) => Takes(p, q, s[4])
  BY <1>1 DEF Takes
<1>6. Readable(p, q) => \A k \in 3 + 1 .. Len(s) : Lets(p, q, s[k])
  BY <1>1 DEF Lets
<1> QED
  BY <1>2, <1>4, <1>5, <1>6 DEF Route

LEMMA ChangesRoute ==
    ASSUME NEW p, NEW q \in Path, NEW s,
           s = <<Need({"params", "role"}), Do("domains", "all"),
                 Do("resolveEach", "read"), Do("roots", "read"),
                 Do("permit", "targets"), Do("marker", Marker), Do("enter", Root),
                 Do("walk", "collect"), Do("scan", "targets"), Do("changed", "found")>>
    PROVE  /\ Below(q, Root)
           /\ q # Marker
           /\ Readable(p, q)
           /\ \A u \in Was(p, Marker) : tree[q] > u
           => Route(p, s, 8, 10, "found", "", q)
<1>1. /\ Len(s) = 10 /\ DOMAIN s = 1 .. 10
      /\ s[1].do = "need" /\ s[2].do = "domains" /\ s[2].with = "all"
      /\ s[3].do = "resolveEach" /\ s[4].do = "roots" /\ s[5].do = "permit"
      /\ s[6].do = "marker" /\ s[7].do = "enter" /\ s[7].with = Root
      /\ s[8].do = "walk" /\ s[8].with = "collect"
      /\ s[9].do = "scan" /\ s[9].with = "targets"
      /\ s[10].do = "changed" /\ s[10].with = "found"
  BY DoWhat DEF Need
<1>2. Line(s, 8, 10, "found")
  BY <1>1 DEF Line, Between, Scans
<1>3. s[8 - 1].do = "enter" /\ s[8 - 1].with = Root
  BY <1>1
<1>4. Below(q, Root) => Fed(p, s, 8, "", q)
  BY <1>1, <1>3 DEF Fed
<1>5. (q # Marker /\ Readable(p, q) /\ \A u \in Was(p, Marker) : tree[q] > u) => Takes(p, q, s[10])
  BY <1>1 DEF Takes
<1>6. Readable(p, q) => \A k \in 8 + 1 .. Len(s) : Lets(p, q, s[k])
  BY <1>1 DEF Lets
<1> QED
  BY <1>2, <1>4, <1>5, <1>6 DEF Route

LEMMA HousekeepingRoute ==
    ASSUME NEW p, NEW q \in Path, NEW id, NEW s,
           s = <<Need({"params", "role"}), Do("domains", "all"),
                 Do("resolveEach", "read"), Do("roots", "read"),
                 Do("permit", "targets"), Do("marker", Marker), Do("enter", Root),
                 Do("walk", "collect"), Do("scan", "targets"), Do("changed", "found")>>
    PROVE  /\ Readable(p, q)
           /\ AllName(p, id, q)
           /\ Base(q) \in {"observations", "action-items", "hot-memory"}
           => Route(p, s, 3, 9, "targets", id, q)
<1>1. /\ Len(s) = 10 /\ DOMAIN s = 1 .. 10
      /\ s[1].do = "need" /\ s[2].do = "domains" /\ s[2].with = "all"
      /\ s[3].do = "resolveEach" /\ s[4].do = "roots" /\ s[5].do = "permit"
      /\ s[6].do = "marker" /\ s[7].do = "enter" /\ s[7].with = Root
      /\ s[8].do = "walk" /\ s[8].with = "collect"
      /\ s[9].do = "scan" /\ s[9].with = "targets"
      /\ s[10].do = "changed" /\ s[10].with = "found"
  BY DoWhat DEF Need
<1>2. Line(s, 3, 9, "targets")
  BY <1>1 DEF Line, Between, Scans
<1>3. s[3 - 1].do = "domains" /\ s[3 - 1].with = "all"
  BY <1>1
<1>4. Base(q) \in {"observations", "action-items", "hot-memory"} => Fed(p, s, 3, id, q)
  BY <1>1, <1>3 DEF Fed
<1>5. Takes(p, q, s[9])
  BY <1>1 DEF Takes
<1>6. Readable(p, q) => \A k \in 3 + 1 .. Len(s) : Lets(p, q, s[k])
  BY <1>1 DEF Lets
<1> QED
  BY <1>2, <1>4, <1>5, <1>6 DEF Route

LEMMA BriefRoute ==
    ASSUME NEW p, NEW q \in Path, NEW id, NEW s,
           s = <<Need({"params", "role"}), Do("domains", "each"),
                 Do("targets", "action-items"), Do("open", HotMemory),
                 Do("open", Patterns), Do("countEach", "targets"),
                 Do("hide", "counts")>>
    PROVE  /\ Readable(p, q)
           /\ AllName(p, id, q)
           /\ Base(q) = "action-items"
           => Route(p, s, 3, 6, "targets", id, q)
<1>1. /\ Len(s) = 7 /\ DOMAIN s = 1 .. 7
      /\ s[1].do = "need" /\ s[2].do = "domains" /\ s[2].with = "each"
      /\ s[3].do = "targets" /\ s[3].with = "action-items" /\ s[4].do = "open"
      /\ s[5].do = "open" /\ s[6].do = "countEach" /\ s[6].with = "targets"
      /\ s[7].do = "hide"
  BY DoWhat DEF Need
<1>2. Line(s, 3, 6, "targets")
  BY <1>1 DEF Line, Between, Scans
<1>3. Base(q) = "action-items" => Fed(p, s, 3, id, q)
  BY <1>1 DEF Fed
<1>4. Takes(p, q, s[6])
  BY <1>1 DEF Takes
<1>5. Readable(p, q) => \A k \in 3 + 1 .. Len(s) : Lets(p, q, s[k])
  BY <1>1 DEF Lets
<1> QED
  BY <1>2, <1>3, <1>4, <1>5 DEF Route

LEMMA ActionsAllRoute ==
    ASSUME NEW p, NEW q \in Path, NEW id, NEW s,
           s = <<Need({"params", "role"}), Do("targets", "action-items"),
                 Do("count", "targets"), Do("hide", "items")>>
    PROVE  /\ Readable(p, q)
           /\ AllName(p, id, q)
           /\ Base(q) = "action-items"
           => Route(p, s, 2, 3, "targets", id, q)
<1>1. /\ Len(s) = 4 /\ DOMAIN s = 1 .. 4
      /\ s[1].do = "need" /\ s[2].do = "targets" /\ s[2].with = "action-items"
      /\ s[3].do = "count" /\ s[3].with = "targets" /\ s[4].do = "hide"
  BY DoWhat DEF Need
<1>2. Line(s, 2, 3, "targets")
  BY <1>1 DEF Line, Between, Scans
<1>3. Base(q) = "action-items" => Fed(p, s, 2, id, q)
  BY <1>1 DEF Fed
<1>4. Takes(p, q, s[3])
  BY <1>1 DEF Takes
<1>5. Readable(p, q) => \A k \in 2 + 1 .. Len(s) : Lets(p, q, s[k])
  BY <1>1 DEF Lets
<1> QED
  BY <1>2, <1>3, <1>4, <1>5 DEF Route

LEMMA ActionsOneRoute ==
    ASSUME NEW p, NEW q \in Path, NEW id, NEW s,
           s = <<Need({"params", "role"}), Do("get", "invalid"),
                 Do("resolve", "action-items"), Do("count", "targets"),
                 Do("hide", "items")>>
    PROVE  /\ Readable(p, q)
           /\ AllName(p, id, q)
           /\ Base(q) = "action-items"
           /\ req[p].domain = id
           => Route(p, s, 3, 4, "targets", id, q)
<1>1. /\ Len(s) = 5 /\ DOMAIN s = 1 .. 5
      /\ s[1].do = "need" /\ s[2].do = "get"
      /\ s[3].do = "resolve" /\ s[3].with = "action-items"
      /\ s[4].do = "count" /\ s[4].with = "targets" /\ s[5].do = "hide"
  BY DoWhat DEF Need
<1>2. Line(s, 3, 4, "targets")
  BY <1>1 DEF Line, Between, Scans
<1>3. s[3 - 1].do = "get"
  BY <1>1
<1>4. Base(q) = "action-items" /\ req[p].domain = id => Fed(p, s, 3, id, q)
  BY <1>1, <1>3 DEF Fed
<1>5. Takes(p, q, s[4])
  BY <1>1 DEF Takes
<1>6. Readable(p, q) => \A k \in 3 + 1 .. Len(s) : Lets(p, q, s[k])
  BY <1>1 DEF Lets
<1> QED
  BY <1>2, <1>4, <1>5, <1>6 DEF Route

LEMMA RecentAllRoute ==
    ASSUME NEW p, NEW q \in Path, NEW id, NEW s,
           s = <<Need({"params", "role", "alias", "since"}),
                 Do("targets", "observations"), Do("permit", "targets"),
                 Do("count", "targets")>>
    PROVE  /\ Readable(p, q)
           /\ AllName(p, id, q)
           /\ Base(q) = "observations"
           => Route(p, s, 2, 4, "targets", id, q)
<1>1. /\ Len(s) = 4 /\ DOMAIN s = 1 .. 4
      /\ s[1].do = "need" /\ s[2].do = "targets" /\ s[2].with = "observations"
      /\ s[3].do = "permit" /\ s[4].do = "count" /\ s[4].with = "targets"
  BY DoWhat DEF Need
<1>2. Line(s, 2, 4, "targets")
  BY <1>1 DEF Line, Between, Scans
<1>3. Base(q) = "observations" => Fed(p, s, 2, id, q)
  BY <1>1 DEF Fed
<1>4. Takes(p, q, s[4])
  BY <1>1 DEF Takes
<1>5. Readable(p, q) => \A k \in 2 + 1 .. Len(s) : Lets(p, q, s[k])
  BY <1>1 DEF Lets
<1> QED
  BY <1>2, <1>3, <1>4, <1>5 DEF Route

LEMMA RecentOneRoute ==
    ASSUME NEW p, NEW q \in Path, NEW id, NEW s,
           s = <<Need({"params", "role", "alias", "since"}), Do("get", "invalid"),
                 Do("resolve", "observations"), Do("permit", "targets"),
                 Do("count", "targets")>>
    PROVE  /\ Readable(p, q)
           /\ AllName(p, id, q)
           /\ Base(q) = "observations"
           /\ req[p].domain = id
           => Route(p, s, 3, 5, "targets", id, q)
<1>1. /\ Len(s) = 5 /\ DOMAIN s = 1 .. 5
      /\ s[1].do = "need" /\ s[2].do = "get"
      /\ s[3].do = "resolve" /\ s[3].with = "observations" /\ s[4].do = "permit"
      /\ s[5].do = "count" /\ s[5].with = "targets"
  BY DoWhat DEF Need
<1>2. Line(s, 3, 5, "targets")
  BY <1>1 DEF Line, Between, Scans
<1>3. s[3 - 1].do = "get"
  BY <1>1
<1>4. Base(q) = "observations" /\ req[p].domain = id => Fed(p, s, 3, id, q)
  BY <1>1, <1>3 DEF Fed
<1>5. Takes(p, q, s[5])
  BY <1>1 DEF Takes
<1>6. Readable(p, q) => \A k \in 3 + 1 .. Len(s) : Lets(p, q, s[k])
  BY <1>1 DEF Lets
<1> QED
  BY <1>2, <1>4, <1>5, <1>6 DEF Route

LEMMA ClusterAllRoute ==
    ASSUME NEW p, NEW q \in Path, NEW id, NEW s,
           s = <<Need({"params", "role"}), Do("targets", "observations"),
                 Do("permit", "targets"), Need({"since"}), Do("count", "targets")>>
    PROVE  /\ Readable(p, q)
           /\ AllName(p, id, q)
           /\ Base(q) = "observations"
           => Route(p, s, 2, 5, "targets", id, q)
<1>1. /\ Len(s) = 5 /\ DOMAIN s = 1 .. 5
      /\ s[1].do = "need" /\ s[2].do = "targets" /\ s[2].with = "observations"
      /\ s[3].do = "permit" /\ s[4].do = "need"
      /\ s[5].do = "count" /\ s[5].with = "targets"
  BY DoWhat DEF Need
<1>2. Line(s, 2, 5, "targets")
  BY <1>1 DEF Line, Between, Scans
<1>3. Base(q) = "observations" => Fed(p, s, 2, id, q)
  BY <1>1 DEF Fed
<1>4. Takes(p, q, s[5])
  BY <1>1 DEF Takes
<1>5. Readable(p, q) => \A k \in 2 + 1 .. Len(s) : Lets(p, q, s[k])
  BY <1>1 DEF Lets
<1> QED
  BY <1>2, <1>3, <1>4, <1>5 DEF Route

LEMMA ClusterOneRoute ==
    ASSUME NEW p, NEW q \in Path, NEW id, NEW s,
           s = <<Need({"params", "role"}), Do("get", "invalid"),
                 Do("resolve", "observations"), Do("permit", "targets"),
                 Need({"since"}), Do("count", "targets")>>
    PROVE  /\ Readable(p, q)
           /\ AllName(p, id, q)
           /\ Base(q) = "observations"
           /\ req[p].domain = id
           => Route(p, s, 3, 6, "targets", id, q)
<1>1. /\ Len(s) = 6 /\ DOMAIN s = 1 .. 6
      /\ s[1].do = "need" /\ s[2].do = "get"
      /\ s[3].do = "resolve" /\ s[3].with = "observations" /\ s[4].do = "permit"
      /\ s[5].do = "need" /\ s[6].do = "count" /\ s[6].with = "targets"
  BY DoWhat DEF Need
<1>2. Line(s, 3, 6, "targets")
  BY <1>1 DEF Line, Between, Scans
<1>3. s[3 - 1].do = "get"
  BY <1>1
<1>4. Base(q) = "observations" /\ req[p].domain = id => Fed(p, s, 3, id, q)
  BY <1>1, <1>3 DEF Fed
<1>5. Takes(p, q, s[6])
  BY <1>1 DEF Takes
<1>6. Readable(p, q) => \A k \in 3 + 1 .. Len(s) : Lets(p, q, s[k])
  BY <1>1 DEF Lets
<1> QED
  BY <1>2, <1>4, <1>5, <1>6 DEF Route

LEMMA EntitiesAllRoute ==
    ASSUME NEW p, NEW q \in Path, NEW id, NEW s,
           s = <<Need({"params", "role"}), Do("targets", "entities"),
                 Do("permit", "targets"), Do("count", "targets")>>
    PROVE  /\ Readable(p, q)
           /\ AllName(p, id, q)
           /\ Base(q) = "entities"
           => Route(p, s, 2, 4, "targets", id, q)
<1>1. /\ Len(s) = 4 /\ DOMAIN s = 1 .. 4
      /\ s[1].do = "need" /\ s[2].do = "targets" /\ s[2].with = "entities"
      /\ s[3].do = "permit" /\ s[4].do = "count" /\ s[4].with = "targets"
  BY DoWhat DEF Need
<1>2. Line(s, 2, 4, "targets")
  BY <1>1 DEF Line, Between, Scans
<1>3. Base(q) = "entities" => Fed(p, s, 2, id, q)
  BY <1>1 DEF Fed
<1>4. Takes(p, q, s[4])
  BY <1>1 DEF Takes
<1>5. Readable(p, q) => \A k \in 2 + 1 .. Len(s) : Lets(p, q, s[k])
  BY <1>1 DEF Lets
<1> QED
  BY <1>2, <1>3, <1>4, <1>5 DEF Route

LEMMA EntitiesOneRoute ==
    ASSUME NEW p, NEW q \in Path, NEW id, NEW s,
           s = <<Need({"params", "role"}), Do("get", "invalid"),
                 Do("resolve", "entities"), Do("permit", "targets"),
                 Do("count", "targets")>>
    PROVE  /\ Readable(p, q)
           /\ AllName(p, id, q)
           /\ Base(q) = "entities"
           /\ req[p].domain = id
           => Route(p, s, 3, 5, "targets", id, q)
<1>1. /\ Len(s) = 5 /\ DOMAIN s = 1 .. 5
      /\ s[1].do = "need" /\ s[2].do = "get"
      /\ s[3].do = "resolve" /\ s[3].with = "entities" /\ s[4].do = "permit"
      /\ s[5].do = "count" /\ s[5].with = "targets"
  BY DoWhat DEF Need
<1>2. Line(s, 3, 5, "targets")
  BY <1>1 DEF Line, Between, Scans
<1>3. s[3 - 1].do = "get"
  BY <1>1
<1>4. Base(q) = "entities" /\ req[p].domain = id => Fed(p, s, 3, id, q)
  BY <1>1, <1>3 DEF Fed
<1>5. Takes(p, q, s[5])
  BY <1>1 DEF Takes
<1>6. Readable(p, q) => \A k \in 3 + 1 .. Len(s) : Lets(p, q, s[k])
  BY <1>1 DEF Lets
<1> QED
  BY <1>2, <1>4, <1>5, <1>6 DEF Route

\* Every file lies below the root, and none below the glacier is derived.
LEMMA BelowPlaces ==
    ASSUME NEW q \in Path
    PROVE  Below(q, Root) /\ (Below(q, Glacier) => ~Derived(q))
<1>1. PICK S : q \in Seq(S)
  BY HandlersAssumption
<1>2. q # Root
  BY HandlersAssumption
<1>3. Within(q, Root)
  BY <1>1 DEF Within, Root
<1>4. Below(q, Glacier) => ~Derived(q)
  <2> SUFFICES ASSUME Within(q, Glacier), Derived(q)
               PROVE  FALSE
    BY DEF Below
  <2>a. ASSUME NEW dir, Within(q, dir), Len(dir) \in Nat \ {0}
        PROVE  dir[1] = q[1]
    <3>1. SubSeq(q, 1, Len(dir))[1] = q[1]
      BY <1>1, <2>a DEF Within
    <3> QED
      BY <2>a, <3>1 DEF Within
  <2>1. q[1] = "glacier"
    <3>1. Len(Glacier) = 1 /\ Glacier[1] = "glacier"
      BY DEF Glacier
    <3> QED
      BY <2>a, <3>1
  <2>2. q[1] = "wiki"
    <3> DEFINE meta == <<"wiki", "_meta">>
    <3>1. Len(meta) = 2 /\ meta[1] = "wiki"
      OBVIOUS
    <3>2. q = <<"wiki", "index">> \/ Within(q, meta)
      BY DEF Derived
    <3>3. CASE q = <<"wiki", "index">>
      BY <3>3
    <3> HIDE DEF meta
    <3>4. CASE Within(q, meta)
      BY <2>a, <3>1, <3>4
    <3> QED
      BY <3>2, <3>3, <3>4
  <2> QED
    BY <2>1, <2>2
<1> QED
  BY <1>2, <1>3, <1>4 DEF Below

\* The walk that comes to the file has a line that brings it into the answer.
LEMMA WalkRoute ==
    ASSUME NEW p \in Proc, Types, NEW q \in Path, InWalk(p, q),
           req[p].method \in Filtered => Readable(p, q)
    PROVE  \E c, d, v : Route(p, Handler[req[p]], c, d, v, "", q)
<1> DEFINE r == req[p]
           m == r.method
           s == Handler[r]
<1>1. s = Program(r)
  BY DEF Types, Handler
<1>2. Below(q, Root) /\ (Below(q, Glacier) => ~Derived(q))
  BY BelowPlaces
<1>3. CASE m = "search"
  <2>1. s = HandleSearch(r)
    BY <1>1, <1>3 DEF Program
  <2> QED
    BY <1>2, <2>1, SearchShape, SearchRoute
<1>4. CASE m = "list"
  <2>1. s = HandleList(r)
    BY <1>1, <1>4 DEF Program
  <2> QED
    BY <1>2, <2>1, ListShape, ListRoute
<1>5. CASE m = "read"
  <2>1. s = HandleRead(r)
    BY <1>1, <1>5 DEF Program
  <2>2. r.path = <<"L0_INDEX">> \/ (r.path # <<"L0_INDEX">> /\ r.path = <<"LIST">>)
    BY <1>5 DEF InWalk, Special
  <2>3. CASE r.path = <<"L0_INDEX">>
    BY <1>2, <2>1, <2>3, IndexShape, IndexRoute
  <2>4. CASE r.path # <<"L0_INDEX">> /\ r.path = <<"LIST">>
    BY <1>2, <2>1, <2>4, ListingShape, ListingRoute
  <2> QED
    BY <2>2, <2>3, <2>4
<1>6. CASE m = "stats"
  <2>1. s = HandleStats(r) /\ Within(q, r.path)
    BY <1>1, <1>6 DEF Program, InWalk
  <2> QED
    BY <1>2, <2>1, StatsShape, StatsRoute
<1>7. CASE m = "l0index"
  <2>1. s = HandleL0Index(r) /\ Within(q, r.path)
    BY <1>1, <1>7 DEF Program, InWalk
  <2> QED
    BY <1>2, <2>1, L0IndexShape, L0IndexRoute
<1>8. CASE m = "scenario_check"
  <2>1. s = HandleScenarioCheck(r) /\ Below(q, Scenarios) /\ Readable(p, q)
    BY <1>1, <1>8 DEF Program, InWalk, Filtered
  <2> QED
    BY <2>1, ScenarioShape, ScenarioRoute
<1>9. CASE m = "glacier_index_compute"
  <2>1. s = HandleGlacierIndex(r) /\ Below(q, Glacier) /\ Readable(p, q)
    BY <1>1, <1>9 DEF Program, InWalk, Filtered
  <2> QED
    BY <1>2, <2>1, GlacierShape, GlacierRoute
<1>10. CASE m = "wiki_index_compute"
  <2>1. s = HandleWikiIndex(r) /\ Below(q, Wiki) /\ ~Derived(q) /\ Readable(p, q)
    BY <1>1, <1>10 DEF Program, InWalk, Filtered
  <2> QED
    BY <2>1, WikiShape, WikiRoute
<1>11. CASE m = "link_index_compute"
  <2>1. s = HandleLinkIndex(r) /\ q # Marker /\ Readable(p, q)
    BY <1>1, <1>11 DEF Program, InWalk, Filtered
  <2> QED
    BY <1>2, <2>1, LinkIndexShape, LinkIndexRoute
<1>12. CASE m = "housekeeping_scan"
  <2>1. /\ s = HandleHousekeepingScan(r) /\ q # Marker /\ Readable(p, q)
        /\ \A u \in Was(p, Marker) : tree[q] > u
    BY <1>1, <1>12 DEF Program, InWalk, Filtered
  <2> QED
    BY <1>2, <2>1, HousekeepingShape, ChangesRoute
<1>13. m \in {"search", "list", "read", "stats", "l0index", "scenario_check",
              "glacier_index_compute", "wiki_index_compute", "link_index_compute",
              "housekeeping_scan"}
  BY DEF InWalk
<1> QED
  BY <1>3, <1>4, <1>5, <1>6, <1>7, <1>8, <1>9, <1>10, <1>11, <1>12, <1>13

\* So has the list of the files of one name, in every domain or in the one asked for.
LEMMA TargetRoute ==
    ASSUME NEW p \in Proc, Types, NEW q \in Path, NEW id, AllName(p, id, q), Readable(p, q),
           Base(q) \in FilesOf(req[p].method), req[p].domain \in {"", id}
    PROVE  \E c, d, v : Route(p, Handler[req[p]], c, d, v, id, q)
<1> DEFINE r == req[p]
           m == r.method
           s == Handler[r]
<1>1. s = Program(r)
  BY DEF Types, Handler
<1>2. r.domain = "" \/ (r.domain # "" /\ r.domain = id)
  OBVIOUS
<1>3. CASE m = "open_actions"
  <2>1. s = HandleOpenActions(r) /\ Base(q) = "action-items"
    BY <1>1, <1>3 DEF Program, FilesOf
  <2> QED
    BY <1>2, <2>1, ActionsAllShape, ActionsOneShape, ActionsAllRoute, ActionsOneRoute
<1>4. CASE m = "session_brief"
  <2>1. s = HandleSessionBrief(r) /\ Base(q) = "action-items"
    BY <1>1, <1>4 DEF Program, FilesOf
  <2> QED
    BY <2>1, BriefShape, BriefRoute
<1>5. CASE m = "recent_observations"
  <2>1. s = HandleRecentObservations(r) /\ Base(q) = "observations"
    BY <1>1, <1>5 DEF Program, FilesOf
  <2> QED
    BY <1>2, <2>1, RecentAllShape, RecentOneShape, RecentAllRoute, RecentOneRoute
<1>6. CASE m = "cluster_check"
  <2>1. s = HandleClusterCheck(r) /\ Base(q) = "observations"
    BY <1>1, <1>6 DEF Program, FilesOf
  <2> QED
    BY <1>2, <2>1, ClusterAllShape, ClusterOneShape, ClusterAllRoute, ClusterOneRoute
<1>7. CASE m = "entity_audit"
  <2>1. s = HandleEntityAudit(r) /\ Base(q) = "entities"
    BY <1>1, <1>7 DEF Program, FilesOf
  <2> QED
    BY <1>2, <2>1, EntitiesAllShape, EntitiesOneShape, EntitiesAllRoute, EntitiesOneRoute
<1>8. CASE m = "housekeeping_scan"
  <2>1. /\ s = HandleHousekeepingScan(r)
        /\ Base(q) \in {"observations", "action-items", "hot-memory"}
    BY <1>1, <1>8 DEF Program, FilesOf
  <2> QED
    BY <2>1, HousekeepingShape, HousekeepingRoute
<1>9. m \in {"open_actions", "session_brief", "recent_observations", "cluster_check",
             "entity_audit", "housekeeping_scan"}
  BY DEF FilesOf
<1> QED
  BY <1>3, <1>4, <1>5, <1>6, <1>7, <1>8, <1>9

\* At the end of its line the file is in the answer.
LEMMA LineAnswers ==
    ASSUME NEW p \in Proc, Types, HandlerOK(p), Ok(p), CompleteAt(p), NEW q \in Steady(p),
           NEW c, NEW d, NEW v, NEW id, Route(p, Handler[req[p]], c, d, v, id, q)
    PROVE  Entry(id, q, tree[q]) \in loc[p].items
<1> DEFINE s == Handler[req[p]]
           y == Entry(id, q, tree[q])
<1>1. s = Program(req[p])
  BY DEF Types, Handler
<1>2. Len(s) \in Nat /\ DOMAIN s = 1 .. Len(s)
  BY <1>1, ProgramFits DEF Fits
<1>3. at[p] = Len(s) + 1
  <2>1. at[p] # 0 /\ at[p] \notin DOMAIN s
    BY DEF Ok, Answered, Running
  <2> QED
    BY <1>2, <2>1 DEF HandlerOK
<1>4. LineAt(p, q)
  BY DEF CompleteAt, Ok
<1>5. Carries(at[p], loc[p], s, c, d, v, Due(v, y), y)
  BY <1>4 DEF LineAt
<1>6. d \in Nat /\ d \in DOMAIN s
  BY DEF Route, Line
<1> HIDE DEF s, y
<1>7. d < at[p]
  BY <1>2, <1>3, <1>6
<1>8. y \in loc[p].items
  BY <1>5, <1>7 DEF Carries
<1> QED
  BY <1>8 DEF y

\* At the end of domain_summary its rounds are over.
LEMMA RoundsAnswer ==
    ASSUME NEW p \in Proc, Types, HandlerOK(p), Ok(p), CompleteAt(p), NEW q \in Steady(p),
           req[p].method = "domain_summary", AllName(p, req[p].domain, q), Readable(p, q)
    PROVE  Entry(req[p].domain, q, tree[q]) \in loc[p].items
<1> DEFINE s == Handler[req[p]]
<1>1. s = Program(req[p])
  BY DEF Types, Handler
<1>2. DOMAIN s = 1 .. Len(s)
  BY <1>1, ProgramFits DEF Fits
<1>3. Len(s) = 7
  BY SummarySteps
<1>4. at[p] = 8
  <2>1. at[p] # 0 /\ at[p] \notin DOMAIN s
    BY DEF Ok, Answered, Running
  <2> QED
    BY <1>2, <1>3, <2>1 DEF HandlerOK
<1>5. Told(at[p], loc[p], req[p].domain, q, Entry(req[p].domain, q, tree[q]))
  BY DEF CompleteAt, Ok, RoundsAt
<1> QED
  BY <1>4, <1>5 DEF Told

\* So an answer has all that the property asks for.
LEMMA CompleteAnswers ==
    ASSUME NEW p \in Proc, Types, HandlerOK(p), Ok(p), CompleteAt(p), NEW q \in Steady(p)
    PROVE  /\ InWalk(p, q) /\ (req[p].method \in Filtered => Readable(p, q))
                  => Entry("", q, tree[q]) \in loc[p].items
           /\ \A id \in {d.id : d \in UNION {Domains(m) : m \in during[p].regs}} :
                  /\ \A m \in during[p].regs : InScope(req[p], m, id, q)
                  /\ Readable(p, q)
                  => Entry(id, q, tree[q]) \in loc[p].items
<1>1. q \in Path
  BY DEF Steady
<1>2. InWalk(p, q) /\ (req[p].method \in Filtered => Readable(p, q))
          => Entry("", q, tree[q]) \in loc[p].items
  BY <1>1, WalkRoute, LineAnswers
<1>3. ASSUME NEW id \in {d.id : d \in UNION {Domains(m) : m \in during[p].regs}},
             \A m \in during[p].regs : InScope(req[p], m, id, q), Readable(p, q)
      PROVE  Entry(id, q, tree[q]) \in loc[p].items
  <2>1. PICK n \in during[p].regs : InScope(req[p], n, id, q)
    BY <1>3
  <2>2. AllName(p, id, q)
    BY <1>3 DEF InScope, AllName, Names
  <2>3. CASE req[p].method = "domain_summary" /\ req[p].domain = id
    BY <1>3, <2>2, <2>3, RoundsAnswer
  <2>4. CASE Base(q) \in FilesOf(req[p].method) /\ req[p].domain \in {"", id}
    BY <1>1, <1>3, <2>2, <2>4, TargetRoute, LineAnswers
  <2> QED
    BY <2>1, <2>3, <2>4 DEF InScope
<1> QED
  BY <1>2, <1>3

\* An answer misses nothing: a file that was there unchanged all the time its request
\* ran, that the role may read and that the walk comes to, or that every registry which
\* the controller held meanwhile puts in scope, is in the answer, whatever the others
\* write, move, edit, reload and install.
THEOREM AnswersAreComplete == Spec => []AnswersComplete
<1>1. Init => \A p \in Proc : CompleteAt(p)
  <2> SUFFICES ASSUME Init, NEW p \in Proc
               PROVE  CompleteAt(p)
    OBVIOUS
  <2>1. at[p] = 0 /\ loc[p] = Locals /\ during[p] = Nothing
    BY DEF Init
  <2>2. Lived(p)
    BY <2>1 DEF Lived, Nothing
  <2>3. Marked(p) /\ RoundsAt(p)
    BY <2>1 DEF Marked, RoundsAt, Gotten, Told, Locals
  <2>4. \A q : LineAt(p, q)
    BY <2>1, NotYet DEF LineAt, Route
  <2> QED
    BY <2>2, <2>3, <2>4 DEF CompleteAt
<1>2. IInv /\ TypeOK /\ TypeOK' /\ (\A p \in Proc : SoundAt(p)) /\ (\A p \in Proc : CompleteAt(p))
          /\ [Next]_vars
          => (\A p \in Proc : CompleteAt(p))'
  <2> SUFFICES ASSUME IInv, TypeOK, TypeOK', \A p \in Proc : SoundAt(p),
                      \A p \in Proc : CompleteAt(p), [Next]_vars, NEW p \in Proc
               PROVE  CompleteAt(p)'
    OBVIOUS
  <2>1. SharedOK /\ HandlerOK(p) /\ SharedOK' /\ HandlerOK(p)'
    BY DEF TypeOK, SharedOK, HandlerOK
  <2>2. Types
    BY DEF IInv
  <2> QED
    BY <2>1, <2>2, CompleteKept
<1>3. IInv /\ TypeOK /\ (\A p \in Proc : CompleteAt(p)) => AnswersComplete
  BY CompleteAnswers, TypesOfParts DEF IInv, AnswersComplete
<1> QED
  BY <1>1, <1>2, <1>3, BeginsSound, StaysSound, ChecksHold, HandlersTyped, PTL DEF Spec
================================================================================
