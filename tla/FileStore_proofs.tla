---------------------------- MODULE FileStore_proofs ---------------------------
(***************************************************************************)
(* The inductive invariant of FileStore and what follows from it, for      *)
(* every set of handlers, paths, inodes, texts and faults.                 *)
(***************************************************************************)
EXTENDS FileStore, SequenceTheorems, WellFoundedInduction, TLAPS

\* The empty file is a content.
LEMMA EmptyContent == Empty \in Content
BY EmptySeq DEF Empty, Content

\* The payload of a write is a content.
LEMMA WrittenContent ==
    ASSUME NEW t \in Text, NEW nl \in BOOLEAN
    PROVE  Written(t, nl) \in Content
BY DEF Written, Content, Line

\* Appending a text, whole or cut short, gives a content.
LEMMA AppendedContent ==
    ASSUME NEW c \in Content, NEW t \in Text
    PROVE  Appended(c, t) \in Content /\ AppendedShort(c) \in Content
<1>1. c.lines \in Seq(Line)
  BY DEF Content
<1>2. t \in Line /\ Torn \in Line
  BY DEF Line
<1>3. Append(c.lines, t) \in Seq(Line) /\ Append(c.lines, Torn) \in Seq(Line)
  BY <1>1, <1>2
<1> QED
  BY <1>3 DEF Appended, AppendedShort, Content

\* Replacing lines by a text gives a content.
LEMMA PatchedContent ==
    ASSUME NEW c \in Content, NEW old, NEW t \in Text
    PROVE  Patched(c, old, t) \in Content
<1> DEFINE new == [i \in DOMAIN c.lines |-> IF c.lines[i] = old THEN t ELSE c.lines[i]]
<1>1. c.lines \in Seq(Line) /\ DOMAIN c.lines = 1 .. Len(c.lines) /\ Len(c.lines) \in Nat
  BY DEF Content
<1>2. \A i \in 1 .. Len(c.lines) : new[i] \in Line
  <2> SUFFICES ASSUME NEW i \in 1 .. Len(c.lines)
               PROVE  new[i] \in Line
    OBVIOUS
  <2>1. c.lines[i] \in Line
    BY <1>1, ElementOfSeq
  <2> QED
    BY <1>1, <2>1 DEF Line
<1>3. new = [i \in 1 .. Len(c.lines) |-> new[i]]
  BY <1>1
<1>4. new \in Seq(Line)
  <2>1. new \in [1 .. Len(c.lines) -> Line]
    BY <1>2, <1>3
  <2> QED
    BY <1>1, <2>1, SeqDef
<1> QED
  BY <1>4 DEF Patched, Content

\* A non-empty set of naturals has a least element.
LEMMA LeastNat ==
    ASSUME NEW S, S \subseteq Nat, S # {}
    PROVE  \E s \in S : \A r \in S : s <= r
<1> DEFINE R == {ss \in Nat \X Nat : ss[1] < ss[2]}
<1>1. IsWellFoundedOn(R, Nat)
  BY NatLessThanWellFounded, Zenon DEF OpToRel
<1>2. PICK s \in S : \A r \in S : <<r, s>> \notin R
  BY <1>1, WFMin
<1>3. \A r \in S : s <= r
  <2> SUFFICES ASSUME NEW r \in S, ~(s <= r)
               PROVE  FALSE
    OBVIOUS
  <2>1. <<r, s>> \in R
    BY SMT
  <2> QED
    BY <1>2, <2>1
<1> QED
  BY <1>3

\* A section append has a place for its text, inside the file or at its end.
LEMMA InsertionPointExists ==
    ASSUME NEW c \in Content, NEW h, HasHeading(c, h)
    PROVE  \E i \in 1 .. Len(c.lines)+1 : InsertionPoint(c, h, i)
<1> DEFINE n == Len(c.lines)
<1>1. n \in Nat /\ DOMAIN c.lines = 1 .. n
  BY DEF Content
<1>2. PICK s \in Occurrences(c, h) : \A r \in Occurrences(c, h) : s <= r
  <2>1. Occurrences(c, h) \subseteq Nat /\ Occurrences(c, h) # {}
    BY <1>1 DEF Occurrences, HasHeading
  <2> QED
    BY <2>1, LeastNat
<1>3. s \in 1 .. n
  BY <1>1 DEF Occurrences
<1> DEFINE E == {i \in s+1 .. n+1 : i = n+1 \/ c.lines[i] \in Heading}
<1>4. PICK i \in E : \A r \in E : i <= r
  <2>1. E \subseteq Nat /\ n+1 \in E
    BY <1>1, <1>3
  <2> HIDE DEF E
  <2> QED
    BY <2>1, LeastNat
<1>5. \A r \in s+1 .. i-1 : c.lines[r] \notin Heading
  BY <1>1, <1>3, <1>4
<1>6. InsertionPoint(c, h, i)
  BY <1>2, <1>4, <1>5 DEF InsertionPoint
<1> QED
  BY <1>1, <1>3, <1>4, <1>6

\* Inserting a text under a heading the file has gives a content.
LEMMA InsertedContent ==
    ASSUME NEW c \in Content, NEW h, HasHeading(c, h), NEW t \in Text
    PROVE  Inserted(c, h, t) \in Content
<1> DEFINE i == CHOOSE j \in 1 .. Len(c.lines)+1 : InsertionPoint(c, h, j)
           n == Len(c.lines)
<1>1. c.lines \in Seq(Line) /\ n \in Nat
  BY DEF Content
<1>2. i \in 1 .. n+1
  BY InsertionPointExists
<1> HIDE DEF i
<1>3. \A j \in 1 .. n : c.lines[j] \in Line
  BY <1>1, ElementOfSeq
<1>4. SubSeq(c.lines, 1, i-1) \in Seq(Line) /\ SubSeq(c.lines, i, n) \in Seq(Line)
  BY <1>1, <1>2, <1>3, SubSeqProperties
<1>5. <<t>> \in Seq(Line)
  BY DEF Line
<1>6. SubSeq(c.lines, 1, i-1) \o <<t>> \o SubSeq(c.lines, i, n) \in Seq(Line)
  BY <1>4, <1>5, ConcatProperties
<1> QED
  BY <1>6 DEF Inserted, Content, SeqExt!InsertAt, i

\* An append, whole or cut short, keeps every line.
LEMMA AppendedKeeps ==
    ASSUME NEW c \in Content, NEW t
    PROVE  /\ LinesOf(c) \subseteq LinesOf(Appended(c, t))
           /\ LinesOf(c) \subseteq LinesOf(AppendedShort(c))
<1>1. c.lines \in Seq(Line)
  BY DEF Content
<1>2. ASSUME NEW x
      PROVE  LinesOf(c) \subseteq {Append(c.lines, x)[i] : i \in DOMAIN Append(c.lines, x)}
  <2>1. DOMAIN Append(c.lines, x) = 1 .. Len(c.lines)+1
    BY <1>1
  <2>2. \A i \in 1 .. Len(c.lines) : Append(c.lines, x)[i] = c.lines[i]
    BY <1>1
  <2> QED
    BY <1>1, <2>1, <2>2 DEF LinesOf
<1> QED
  BY <1>2 DEF LinesOf, Appended, AppendedShort

\* A patch keeps every line but the ones it replaces.
LEMMA PatchedKeeps ==
    ASSUME NEW c \in Content, NEW old, NEW t
    PROVE  LinesOf(c) \ {old} \subseteq LinesOf(Patched(c, old, t))
<1> DEFINE new == [i \in DOMAIN c.lines |-> IF c.lines[i] = old THEN t ELSE c.lines[i]]
<1>1. Patched(c, old, t).lines = new
  BY DEF Patched, Content
<1> QED
  BY <1>1 DEF LinesOf

\* A section append keeps every line.
LEMMA InsertedKeeps ==
    ASSUME NEW c \in Content, NEW h, HasHeading(c, h), NEW t \in Text
    PROVE  LinesOf(c) \subseteq LinesOf(Inserted(c, h, t))
<1> DEFINE i == CHOOSE j \in 1 .. Len(c.lines)+1 : InsertionPoint(c, h, j)
           n == Len(c.lines)
           before == SubSeq(c.lines, 1, i-1)
           after == SubSeq(c.lines, i, n)
           new == before \o <<t>> \o after
<1>1. c.lines \in Seq(Line) /\ n \in Nat /\ DOMAIN c.lines = 1 .. n
  BY DEF Content
<1>2. i \in 1 .. n+1
  BY InsertionPointExists
<1>3. Inserted(c, h, t).lines = new
  BY DEF Inserted, SeqExt!InsertAt
<1> HIDE DEF i
<1>4. \A j \in 1 .. n : c.lines[j] \in Line
  BY <1>1, ElementOfSeq
<1>5. /\ before \in Seq(Line) /\ Len(before) = i-1
      /\ \A j \in 1 .. i-1 : before[j] = c.lines[j]
  BY <1>1, <1>2, <1>4, SubSeqProperties
<1>6. /\ after \in Seq(Line) /\ Len(after) = n-i+1
      /\ \A j \in 1 .. n-i+1 : after[j] = c.lines[i+j-1]
  BY <1>1, <1>2, <1>4, SubSeqProperties
<1>7. <<t>> \in Seq(Line) /\ Len(<<t>>) = 1
  BY DEF Line
<1> HIDE DEF before, after
<1>8. /\ before \o <<t>> \in Seq(Line) /\ Len(before \o <<t>>) = i
      /\ \A j \in 1 .. i-1 : (before \o <<t>>)[j] = before[j]
  BY <1>2, <1>5, <1>7, ConcatProperties
<1>9. /\ DOMAIN new = 1 .. n+1
      /\ \A j \in 1 .. i-1 : new[j] = c.lines[j]
      /\ \A j \in 1 .. n-i+1 : new[i+j] = c.lines[i+j-1]
  <2>1. new \in Seq(Line) /\ Len(new) = i + (n-i+1)
    <3>1. /\ (before \o <<t>>) \o after \in Seq(Line)
          /\ Len((before \o <<t>>) \o after) = Len(before \o <<t>>) + Len(after)
      BY <1>6, <1>8, ConcatProperties
    <3> QED
      BY <1>6, <1>8, <3>1
  <2>2. DOMAIN new = 1 .. n+1
    BY <1>1, <1>2, <2>1
  <2>3. \A j \in 1 .. i-1 : new[j] = c.lines[j]
    BY <1>1, <1>2, <1>5, <1>6, <1>8, ConcatProperties
  <2>4. \A j \in 1 .. n-i+1 : new[i+j] = c.lines[i+j-1]
    <3> SUFFICES ASSUME NEW j \in 1 .. n-i+1
                 PROVE  new[i+j] = after[j]
      BY <1>6
    <3>1. i+j \in 1 .. Len(before \o <<t>>) + Len(after) /\ ~(i+j <= i) /\ i+j-i = j
      <4>1. i \in 1 .. n+1 /\ n \in Nat /\ j \in 1 .. n-i+1
        BY <1>1, <1>2
      <4>2. Len(before \o <<t>>) = i /\ Len(after) = n-i+1
        BY <1>6, <1>8
      <4> HIDE DEF n
      <4>3. i+j \in 1 .. i + (n-i+1) /\ ~(i+j <= i) /\ i+j-i = j
        BY <4>1
      <4> QED
        BY <4>2, <4>3
    <3>2. \A k \in 1 .. Len(before \o <<t>>) + Len(after) :
             ((before \o <<t>>) \o after)[k] =
                IF k <= Len(before \o <<t>>) THEN (before \o <<t>>)[k]
                                            ELSE after[k - Len(before \o <<t>>)]
      BY <1>6, <1>8, ConcatProperties
    <3> QED
      BY <1>8, <3>1, <3>2
  <2> QED
    BY <2>2, <2>3, <2>4
<1> HIDE DEF new
<1>10. ASSUME NEW j \in 1 .. n
       PROVE  \E k \in DOMAIN new : new[k] = c.lines[j]
  <2>1. CASE j < i
    <3>1. j \in 1 .. i-1 /\ j \in DOMAIN new
      BY <1>1, <1>2, <1>9, <2>1
    <3> QED
      BY <1>9, <3>1
  <2>2. CASE ~(j < i)
    <3>1. j-i+1 \in 1 .. n-i+1 /\ i+(j-i+1)-1 = j /\ i+(j-i+1) \in DOMAIN new
      BY <1>1, <1>2, <1>9, <2>2
    <3>2. new[i+(j-i+1)] = c.lines[i+(j-i+1)-1]
      BY <1>9, <3>1
    <3> QED
      BY <3>1, <3>2
  <2> QED
    BY <2>1, <2>2
<1> QED
  BY <1>1, <1>3, <1>10 DEF LinesOf
--------------------------------------------------------------------------------
\* The fields a request has.
LEMMA RequestFields ==
    ASSUME NEW r \in Request
    PROVE  /\ r.op \in OpName /\ r.path \in Path /\ r.text \in Text
           /\ r.op = "write" => r.nl \in BOOLEAN
           /\ r.op = "section" => r.head \in Heading
           /\ r.op = "move" => r.to \in Path
BY DEF Request, OpName, Readers

\* An accepted update computes a content.
LEMMA RewrittenContent ==
    ASSUME NEW r \in Request, NEW c \in Content,
           r.op \in {"write", "append", "section", "patch"}, Accepts(r, c)
    PROVE  Rewritten(r, c) \in Content
<1>1. CASE r.op = "write"
  BY <1>1, RequestFields, WrittenContent DEF Rewritten
<1>2. CASE r.op = "append"
  BY <1>2, RequestFields, AppendedContent DEF Rewritten
<1>3. CASE r.op = "section"
  BY <1>3, RequestFields, InsertedContent DEF Rewritten, Accepts
<1>4. CASE r.op = "patch"
  BY <1>4, RequestFields, PatchedContent DEF Rewritten
<1> QED
  BY <1>1, <1>2, <1>3, <1>4

\* A handler that is not idle serves a request.
LEMMA ServesRequest ==
    ASSUME TypeOK, NEW p \in Proc, StepOK(p), pc[p] \notin {"idle", "reply"}
    PROVE  req[p] \in Request
BY DEF TypeOK, StepOK, PC, NoReq, Readers

\* The initial states satisfy the invariant.
LEMMA InitIInv == Init => IInv
<1> SUFFICES ASSUME Init PROVE IInv
  OBVIOUS
<1> PICK start \in [Path -> UNION {InitContents[q] : q \in Path}] :
        /\ \A q \in Path : start[q] \in InitContents[q]
        /\ dir = [q \in Path |-> IF start[q] = Missing THEN NoIno ELSE Home[q]]
        /\ data = [i \in Ino |->
                     IF \E q \in Path : dir[q] = i
                     THEN start[CHOOSE q \in Path : dir[q] = i] ELSE Empty]
  BY DEF Init
<1>1. dir \in [Path -> Ino \cup {NoIno}]
  BY StoreAssumption
<1>2. data \in [Ino -> Content]
  <2> SUFFICES ASSUME NEW i \in Ino
               PROVE  data[i] \in Content
    OBVIOUS
  <2>1. CASE \E q \in Path : dir[q] = i
    <3> DEFINE q == CHOOSE x \in Path : dir[x] = i
    <3>1. q \in Path /\ dir[q] = i
      BY <2>1
    <3>2. start[q] # Missing
      BY <3>1, StoreAssumption
    <3>3. start[q] \in Content
      BY <3>1, <3>2, StoreAssumption
    <3> QED
      BY <2>1, <3>3
  <2>2. CASE ~ \E q \in Path : dir[q] = i
    BY <2>2, EmptyContent
  <2> QED
    BY <2>1, <2>2
<1>3. TypeOK
  BY <1>1, <1>2, EmptyContent
     DEF Init, TypeOK, PC, Outcome, NoOutcome
<1>4. NamesDistinct
  BY StoreAssumption DEF NamesDistinct
<1>5. \A p \in Proc : StepOK(p)
  BY DEF Init, StepOK
<1>6. LockExclusive /\ LockedContentStable
  BY DEF Init, LockExclusive, Holding, LockedContentStable, Updating
<1>7. TempsPrivate
  BY DEF Init, TempsPrivate
<1> QED
  BY <1>3, <1>4, <1>5, <1>6, <1>7 DEF IInv
\* Starting a request preserves the invariant.
LEMMA StartIInv ==
    ASSUME IInv, NEW p \in Proc, Start(p)
    PROVE  IInv'
<1> USE DEF IInv
<1>0. pc[p] \in PC /\ StepOK(p)
  BY DEF TypeOK
<1>1. TypeOK'
  BY <1>0, RequestFields, ServesRequest, EmptyContent DEF Start, Goto, FirstStep, files, TypeOK, PC, Outcome, NoOutcome
<1>2. NamesDistinct'
  BY DEF Start, Goto, FirstStep, files, NamesDistinct, TypeOK
<1>3. \A q \in Proc : StepOK(q)'
  <2>1. PICK r \in Request : /\ req' = [req EXCEPT ![p] = r]
                             /\ pc' = [pc EXCEPT ![p] = FirstStep(r.op)]
    BY DEF Start, Goto
  <2>2. UNCHANGED <<fd, buf, tmp>> /\ pc[p] = "idle"
    BY DEF Start
  <2>3. \A q \in Proc \ {p} : StepOK(q)'
    BY <2>1, <2>2 DEF StepOK, TypeOK
  <2>4. r.op \in OpName
    BY RequestFields
  <2>5. StepOK(p)'
    BY <1>0, <2>1, <2>2, <2>4 DEF StepOK, TypeOK, FirstStep, OpName, Readers, Accepts
  <2> QED
    BY <2>3, <2>5
<1>4. LockExclusive'
  BY <1>0 DEF Start, Goto, FirstStep, files, LockExclusive, Holding, Conflict, StepOK, TypeOK
<1>5. LockedContentStable'
  BY <1>0 DEF Start, Goto, FirstStep, files, LockedContentStable, Updating, StepOK, TypeOK
<1>6. TempsPrivate'
  BY <1>0 DEF Start, Goto, FirstStep, files, TempsPrivate, Linked, Open, StepOK, TypeOK
<1> QED
  BY <1>1, <1>2, <1>3, <1>4, <1>5, <1>6

\* Opening an existing file preserves the invariant.
LEMMA OpenExistingIInv ==
    ASSUME IInv, NEW p \in Proc, OpenExisting(p)
    PROVE  IInv'
<1> USE DEF IInv
<1>0. pc[p] \in PC /\ StepOK(p)
  BY DEF TypeOK
<1>1. TypeOK'
  BY <1>0, RequestFields, ServesRequest, EmptyContent DEF OpenExisting, Goto, files, TypeOK, PC, Outcome, NoOutcome
<1>2. NamesDistinct'
  BY DEF OpenExisting, Goto, files, NamesDistinct, TypeOK
<1>3. \A q \in Proc : StepOK(q)'
  BY DEF OpenExisting, Goto, files, StepOK, TypeOK
<1>4. LockExclusive'
  BY <1>0 DEF OpenExisting, Goto, files, LockExclusive, Holding, Conflict, StepOK, TypeOK
<1>5. LockedContentStable'
  BY <1>0 DEF OpenExisting, Goto, files, LockedContentStable, Updating, StepOK, TypeOK
<1>6. TempsPrivate'
  <2>1. dir[req[p].path] \in Linked
    BY <1>0, ServesRequest, RequestFields DEF OpenExisting, Linked
  <2>2. Open' \subseteq Open \cup Linked
    BY <2>1 DEF OpenExisting, Open, TypeOK
  <2>3. temps' \cap (Linked' \cup Open') = {}
    BY <2>2 DEF OpenExisting, files, TempsPrivate, Linked
  <2> QED
    BY <2>3 DEF OpenExisting, Goto, files, TempsPrivate, TypeOK
<1> QED
  BY <1>1, <1>2, <1>3, <1>4, <1>5, <1>6

\* Creating the file of an append preserves the invariant.
LEMMA OpenCreateIInv ==
    ASSUME IInv, NEW p \in Proc, OpenCreate(p)
    PROVE  IInv'
<1> USE DEF IInv
<1>0. pc[p] \in PC /\ StepOK(p)
  BY DEF TypeOK
<1>f. Fresh(FreeIno) \subseteq FreeIno
  BY StoreAssumption DEF FreeIno
<1>a. PICK i \in FreeIno :
        /\ dir' = [dir EXCEPT ![req[p].path] = i]
        /\ data' = [data EXCEPT ![i] = Empty]
        /\ fd' = [fd EXCEPT ![p] = i]
  BY <1>f DEF OpenCreate
<1>b. /\ i \in Ino /\ i # NoIno /\ i \notin temps
      /\ \A q \in Path : dir[q] # i
      /\ \A q \in Proc : fd[q] # i
  BY StoreAssumption DEF FreeIno, Linked, Open
<1>c. /\ pc' = [pc EXCEPT ![p] = "lock"]
      /\ UNCHANGED <<temps, req, buf, tmp, out, used>>
      /\ pc[p] = "open" /\ req[p].op = "append" /\ req[p].path \in Path
  BY <1>0, ServesRequest, RequestFields DEF OpenCreate, Goto
<1>1. TypeOK'
  BY <1>a, <1>b, <1>c, EmptyContent DEF TypeOK, PC
<1>2. NamesDistinct'
  BY <1>a, <1>b, <1>c DEF NamesDistinct, TypeOK
<1>3. \A q \in Proc : StepOK(q)'
  BY <1>0, <1>a, <1>b, <1>c DEF StepOK, TypeOK
<1>4. LockExclusive'
  BY <1>a, <1>b, <1>c DEF LockExclusive, Holding, Conflict, TypeOK
<1>5. LockedContentStable'
  BY <1>a, <1>b, <1>c DEF LockedContentStable, Updating, TypeOK
<1>6. TempsPrivate'
  <2>1. Linked' \cup Open' \subseteq Linked \cup Open \cup {i}
    BY <1>a, <1>c DEF Linked, Open, TypeOK
  <2>2. temps' \cap (Linked' \cup Open') = {}
    BY <1>b, <1>c, <2>1 DEF TempsPrivate
  <2>3. ASSUME NEW q \in Proc, pc'[q] = "publish"
        PROVE  data'[tmp'[q]] = Rewritten(req[q], buf[q])'
    <3>1. pc[q] = "publish"
      BY <1>c, <2>3 DEF TypeOK
    <3>2. tmp[q] \in temps
      BY <3>1 DEF TempsPrivate, StepOK
    <3>3. tmp[q] \in Ino /\ tmp[q] # i
      BY <1>b, <3>2 DEF TypeOK
    <3> QED
      BY <1>a, <1>c, <3>1, <3>3 DEF TempsPrivate, TypeOK
  <2> QED
    BY <1>c, <2>2, <2>3 DEF TempsPrivate
<1> QED
  BY <1>1, <1>2, <1>3, <1>4, <1>5, <1>6

\* Finding no file preserves the invariant.
LEMMA OpenMissingIInv ==
    ASSUME IInv, NEW p \in Proc, OpenMissing(p)
    PROVE  IInv'
<1> USE DEF IInv
<1>0. pc[p] \in PC /\ StepOK(p)
  BY DEF TypeOK
<1>1. TypeOK'
  BY <1>0, RequestFields, ServesRequest, EmptyContent DEF OpenMissing, Goto, Finish, files, TypeOK, PC, Outcome, NoOutcome
<1>2. NamesDistinct'
  BY DEF OpenMissing, Goto, Finish, files, NamesDistinct, TypeOK
<1>3. \A q \in Proc : StepOK(q)'
  BY DEF OpenMissing, Goto, Finish, files, StepOK, TypeOK
<1>4. LockExclusive'
  BY <1>0 DEF OpenMissing, Goto, Finish, files, LockExclusive, Holding, Conflict, StepOK, TypeOK
<1>5. LockedContentStable'
  BY <1>0 DEF OpenMissing, Goto, Finish, files, LockedContentStable, Updating, StepOK, TypeOK
<1>6. TempsPrivate'
  BY <1>0 DEF OpenMissing, Goto, Finish, files, TempsPrivate, Linked, Open, StepOK, TypeOK
<1> QED
  BY <1>1, <1>2, <1>3, <1>4, <1>5, <1>6

\* Acquiring the lock preserves the invariant.
LEMMA LockIInv ==
    ASSUME IInv, NEW p \in Proc, Lock(p)
    PROVE  IInv'
<1> USE DEF IInv
<1>0. pc[p] \in PC /\ StepOK(p)
  BY DEF TypeOK
<1>1. TypeOK'
  BY <1>0, RequestFields, ServesRequest, EmptyContent DEF Lock, Goto, files, TypeOK, PC, Outcome, NoOutcome
<1>2. NamesDistinct'
  BY DEF Lock, Goto, files, NamesDistinct, TypeOK
<1>3. \A q \in Proc : StepOK(q)'
  BY DEF Lock, Goto, files, StepOK, TypeOK
<1>4. LockExclusive'
  BY <1>0 DEF Lock, Goto, files, LockExclusive, Holding, Conflict, StepOK, TypeOK
<1>5. LockedContentStable'
  BY <1>0 DEF Lock, Goto, files, LockedContentStable, Updating, StepOK, TypeOK
<1>6. TempsPrivate'
  BY <1>0 DEF Lock, Goto, files, TempsPrivate, Linked, Open, StepOK, TypeOK
<1> QED
  BY <1>1, <1>2, <1>3, <1>4, <1>5, <1>6

\* Answering a reader preserves the invariant.
LEMMA LookReadIInv ==
    ASSUME IInv, NEW p \in Proc, LookRead(p)
    PROVE  IInv'
<1> USE DEF IInv
<1>0. pc[p] \in PC /\ StepOK(p)
  BY DEF TypeOK
<1>1. TypeOK'
  <2>1. data[fd[p]] \in Content
    BY <1>0 DEF LookRead, StepOK, TypeOK
  <2> QED
    BY <2>1 DEF LookRead, Goto, Finish, files, TypeOK, PC, Outcome
<1>2. NamesDistinct'
  BY DEF LookRead, Goto, Finish, files, NamesDistinct, TypeOK
<1>3. \A q \in Proc : StepOK(q)'
  BY DEF LookRead, Goto, Finish, files, StepOK, TypeOK
<1>4. LockExclusive'
  BY <1>0 DEF LookRead, Goto, Finish, files, LockExclusive, Holding, Conflict, StepOK, TypeOK
<1>5. LockedContentStable'
  BY <1>0 DEF LookRead, Goto, Finish, files, LockedContentStable, Updating, StepOK, TypeOK
<1>6. TempsPrivate'
  BY <1>0 DEF LookRead, Goto, Finish, files, TempsPrivate, Linked, Open, StepOK, TypeOK
<1> QED
  BY <1>1, <1>2, <1>3, <1>4, <1>5, <1>6

\* Rejecting an update preserves the invariant.
LEMMA LookRejectIInv ==
    ASSUME IInv, NEW p \in Proc, LookReject(p)
    PROVE  IInv'
<1> USE DEF IInv
<1>0. pc[p] \in PC /\ StepOK(p)
  BY DEF TypeOK
<1>1. TypeOK'
  BY <1>0, RequestFields, ServesRequest, EmptyContent DEF LookReject, Goto, Finish, files, TypeOK, PC, Outcome, NoOutcome
<1>2. NamesDistinct'
  BY DEF LookReject, Goto, Finish, files, NamesDistinct, TypeOK
<1>3. \A q \in Proc : StepOK(q)'
  BY DEF LookReject, Goto, Finish, files, StepOK, TypeOK
<1>4. LockExclusive'
  BY <1>0 DEF LookReject, Goto, Finish, files, LockExclusive, Holding, Conflict, StepOK, TypeOK
<1>5. LockedContentStable'
  BY <1>0 DEF LookReject, Goto, Finish, files, LockedContentStable, Updating, StepOK, TypeOK
<1>6. TempsPrivate'
  BY <1>0 DEF LookReject, Goto, Finish, files, TempsPrivate, Linked, Open, StepOK, TypeOK
<1> QED
  BY <1>1, <1>2, <1>3, <1>4, <1>5, <1>6

\* Deciding how to update preserves the invariant.
LEMMA LookUpdateIInv ==
    ASSUME IInv, NEW p \in Proc, LookUpdate(p)
    PROVE  IInv'
<1> USE DEF IInv
<1>0. pc[p] \in PC /\ StepOK(p)
  BY DEF TypeOK
<1>1. TypeOK'
  <2>1. data[fd[p]] \in Content
    BY <1>0 DEF LookUpdate, StepOK, TypeOK
  <2> QED
    BY <2>1 DEF LookUpdate, Goto, files, TypeOK, PC
<1>2. NamesDistinct'
  BY DEF LookUpdate, Goto, files, NamesDistinct, TypeOK
<1>3. \A q \in Proc : StepOK(q)'
  BY DEF LookUpdate, Goto, files, StepOK, TypeOK
<1>4. LockExclusive'
  BY <1>0 DEF LookUpdate, Goto, files, LockExclusive, Holding, Conflict, StepOK, TypeOK
<1>5. LockedContentStable'
  BY <1>0 DEF LookUpdate, Goto, files, LockedContentStable, Updating, StepOK, TypeOK
<1>6. TempsPrivate'
  BY <1>0 DEF LookUpdate, Goto, files, TempsPrivate, Linked, Open, StepOK, TypeOK
<1> QED
  BY <1>1, <1>2, <1>3, <1>4, <1>5, <1>6

\* Appending in place preserves the invariant.
LEMMA AppendInPlaceIInv ==
    ASSUME IInv, NEW p \in Proc, AppendInPlace(p)
    PROVE  IInv'
<1> USE DEF IInv
<1>0. pc[p] \in PC /\ StepOK(p)
  BY DEF TypeOK
<1>a. /\ pc[p] = "inplace" /\ req[p].op = "append" /\ req[p].text \in Text
      /\ fd[p] \in Ino /\ fd[p] # NoIno /\ data[fd[p]] \in Content
  BY <1>0, ServesRequest, RequestFields DEF AppendInPlace, StepOK, TypeOK
<1>b. PICK c \in Content : data' = [data EXCEPT ![fd[p]] = c]
  BY <1>a, AppendedContent DEF AppendInPlace
<1>c. PICK ok \in BOOLEAN : out' = [out EXCEPT ![p] = [ok |-> ok, content |-> Empty]]
  BY DEF AppendInPlace, Finish
<1>d. /\ pc' = [pc EXCEPT ![p] = "reply"]
      /\ UNCHANGED <<dir, temps, req, fd, buf, tmp, used>>
  BY DEF AppendInPlace, Finish, Goto
<1>1. TypeOK'
  BY <1>a, <1>b, <1>c, <1>d, EmptyContent DEF TypeOK, PC, Outcome
<1>2. NamesDistinct'
  BY DEF AppendInPlace, Goto, Finish, NamesDistinct, TypeOK
<1>3. \A q \in Proc : StepOK(q)'
  BY <1>0, <1>a, <1>d DEF StepOK, TypeOK
<1>4. LockExclusive'
  BY <1>a, <1>d DEF LockExclusive, Holding, Conflict, TypeOK
<1>5. LockedContentStable'
  <2> SUFFICES ASSUME NEW q \in Proc, Updating(q)'
               PROVE  data'[fd[q]] = buf[q]
    BY <1>d DEF LockedContentStable
  <2>1. q # p /\ Updating(q)
    BY <1>a, <1>d DEF Updating, TypeOK
  <2>2. Holding(p) /\ Holding(q) /\ Conflict(p, q)
    BY <1>a, <2>1 DEF Holding, Updating, Conflict, Readers
  <2>3. fd[q] # fd[p]
    BY <2>1, <2>2 DEF LockExclusive
  <2>4. fd[q] \in Ino
    BY <2>1 DEF Updating, TypeOK
  <2> QED
    BY <1>b, <2>1, <2>3, <2>4 DEF LockedContentStable, TypeOK
<1>6. TempsPrivate'
  <2>2. temps' \cap (Linked' \cup Open') = {}
    BY <1>d DEF TempsPrivate, Linked, Open
  <2>3. ASSUME NEW q \in Proc, pc'[q] = "publish"
        PROVE  data'[tmp'[q]] = Rewritten(req[q], buf[q])'
    <3>1. pc[q] = "publish"
      BY <1>d, <2>3 DEF TypeOK
    <3>2. tmp[q] \in temps
      BY <3>1 DEF TempsPrivate, StepOK
    <3>3. tmp[q] \in Ino /\ tmp[q] # fd[p]
      BY <1>a, <3>2 DEF TypeOK, TempsPrivate, Open
    <3> QED
      BY <1>b, <1>d, <3>1, <3>3 DEF TempsPrivate, TypeOK
  <2> QED
    BY <1>d, <2>2, <2>3 DEF TempsPrivate
<1> QED
  BY <1>1, <1>2, <1>3, <1>4, <1>5, <1>6

\* Creating a temp file preserves the invariant.
LEMMA CreateTempIInv ==
    ASSUME IInv, NEW p \in Proc, CreateTemp(p)
    PROVE  IInv'
<1> USE DEF IInv
<1>0. pc[p] \in PC /\ StepOK(p)
  BY DEF TypeOK
<1>f. Fresh(FreeIno) \subseteq FreeIno
  BY StoreAssumption DEF FreeIno
<1>a. PICK i \in FreeIno :
        /\ temps' = temps \cup {i}
        /\ data' = [data EXCEPT ![i] = Empty]
        /\ tmp' = [tmp EXCEPT ![p] = i]
  BY <1>f DEF CreateTemp
<1>b. /\ i \in Ino /\ i # NoIno /\ i \notin temps
      /\ \A q \in Path : dir[q] # i
      /\ \A q \in Proc : fd[q] # i
  BY StoreAssumption DEF FreeIno, Linked, Open
<1>c. /\ pc' = [pc EXCEPT ![p] = "fill"] /\ pc[p] = "create"
      /\ UNCHANGED <<dir, req, fd, buf, out, used>>
  BY DEF CreateTemp, Goto
<1>1. TypeOK'
  BY <1>0, <1>a, <1>b, <1>c, EmptyContent DEF TypeOK, PC
<1>2. NamesDistinct'
  BY DEF CreateTemp, Goto, NamesDistinct, TypeOK
<1>3. \A q \in Proc : StepOK(q)'
  BY <1>0, <1>a, <1>b, <1>c DEF StepOK, TypeOK
<1>4. LockExclusive'
  BY <1>0, <1>a, <1>b, <1>c DEF LockExclusive, Holding, Conflict, TypeOK
<1>5. LockedContentStable'
  BY <1>0, <1>a, <1>b, <1>c DEF LockedContentStable, Updating, TypeOK
<1>6. TempsPrivate'
  <2>1. temps' \cap (Linked' \cup Open') = {}
    BY <1>a, <1>b, <1>c DEF TempsPrivate, Linked, Open
  <2>2. \A q \in Proc : tmp[q] # i
    BY <1>b DEF TempsPrivate
  <2>4. \A q \in Proc : tmp'[q] # NoIno =>
          /\ tmp'[q] \in temps'
          /\ \A r \in Proc : tmp'[r] = tmp'[q] => r = q
    BY <1>a, <2>2 DEF TempsPrivate, TypeOK
  <2>3. ASSUME NEW q \in Proc, pc'[q] = "publish"
        PROVE  data'[tmp'[q]] = Rewritten(req[q], buf[q])'
    <3>1. pc[q] = "publish"
      BY <1>c, <2>3 DEF TypeOK
    <3>2. tmp[q] \in temps
      BY <3>1 DEF TempsPrivate, StepOK
    <3>3. tmp[q] \in Ino /\ tmp[q] # i
      BY <1>b, <3>2 DEF TypeOK
    <3> QED
      BY <1>0, <1>a, <1>c, <3>1, <3>3 DEF TempsPrivate, TypeOK
  <2> QED
    BY <2>1, <2>4, <2>3 DEF TempsPrivate
<1> QED
  BY <1>1, <1>2, <1>3, <1>4, <1>5, <1>6

\* Filling the temp file preserves the invariant.
LEMMA FillTempIInv ==
    ASSUME IInv, NEW p \in Proc, FillTemp(p)
    PROVE  IInv'
<1> USE DEF IInv
<1>0. pc[p] \in PC /\ StepOK(p)
  BY DEF TypeOK
<1>a. /\ pc[p] = "fill" /\ fd[p] # tmp[p]
      /\ tmp[p] \in temps /\ tmp[p] \in Ino /\ tmp[p] # NoIno
  BY <1>0, StoreAssumption DEF FillTemp, StepOK, TempsPrivate, TypeOK, Open
<1>b. Rewritten(req[p], buf[p]) \in Content
  BY <1>0, <1>a, ServesRequest, RewrittenContent DEF StepOK, TypeOK
<1>c. /\ data' = [data EXCEPT ![tmp[p]] = Rewritten(req[p], buf[p])]
      /\ pc' = [pc EXCEPT ![p] = "publish"]
      /\ UNCHANGED <<dir, temps, req, fd, buf, tmp, out, used>>
  BY DEF FillTemp, Goto
<1>1. TypeOK'
  BY <1>a, <1>b, <1>c DEF TypeOK, PC
<1>2. NamesDistinct'
  BY DEF FillTemp, Goto, NamesDistinct, TypeOK
<1>3. \A q \in Proc : StepOK(q)'
  BY DEF FillTemp, Goto, StepOK, TypeOK
<1>4. LockExclusive'
  BY <1>0 DEF FillTemp, Goto, LockExclusive, Holding, Conflict, StepOK, TypeOK
<1>5. LockedContentStable'
  <2> SUFFICES ASSUME NEW q \in Proc, Updating(q)'
               PROVE  data'[fd[q]] = buf[q]
    BY <1>c DEF LockedContentStable
  <2>1. Updating(q)
    BY <1>a, <1>c DEF Updating, TypeOK
  <2>2. fd[q] \in Ino /\ fd[q] # tmp[p]
    BY <1>a, <2>1 DEF Updating, TypeOK, TempsPrivate, Open
  <2> QED
    BY <1>c, <2>1, <2>2 DEF LockedContentStable, TypeOK
<1>6. TempsPrivate'
  BY <1>0 DEF FillTemp, Goto, TempsPrivate, Linked, Open, StepOK, TypeOK
<1> QED
  BY <1>1, <1>2, <1>3, <1>4, <1>5, <1>6

\* Renaming the temp file over the path preserves the invariant.
LEMMA PublishIInv ==
    ASSUME IInv, NEW p \in Proc, Publish(p)
    PROVE  IInv'
<1> USE DEF IInv
<1>0. pc[p] \in PC /\ StepOK(p)
  BY DEF TypeOK
<1>1. TypeOK'
  BY <1>0, RequestFields, ServesRequest, EmptyContent DEF Publish, Goto, Finish, TypeOK, PC, Outcome, NoOutcome
<1>2. NamesDistinct'
  <2>1. \A q \in Path : dir[q] # tmp[p]
    BY <1>0 DEF Publish, StepOK, TempsPrivate, Linked
  <2>2. dir' = [dir EXCEPT ![req[p].path] = tmp[p]]
    BY DEF Publish
  <2> QED
    BY <2>1, <2>2 DEF NamesDistinct, TypeOK
<1>3. \A q \in Proc : StepOK(q)'
  BY DEF Publish, Goto, Finish, StepOK, TypeOK
<1>4. LockExclusive'
  BY <1>0 DEF Publish, Goto, Finish, LockExclusive, Holding, Conflict, StepOK, TypeOK
<1>5. LockedContentStable'
  BY <1>0 DEF Publish, Goto, Finish, LockedContentStable, Updating, StepOK, TypeOK
<1>6. TempsPrivate'
  BY <1>0 DEF Publish, Goto, Finish, TempsPrivate, Linked, Open, StepOK, TypeOK
<1> QED
  BY <1>1, <1>2, <1>3, <1>4, <1>5, <1>6

\* Giving up an atomicWrite preserves the invariant.
LEMMA WriteFailsIInv ==
    ASSUME IInv, NEW p \in Proc, WriteFails(p)
    PROVE  IInv'
<1> USE DEF IInv
<1>0. pc[p] \in PC /\ StepOK(p)
  BY DEF TypeOK
<1>1. TypeOK'
  BY <1>0, RequestFields, ServesRequest, EmptyContent DEF WriteFails, Goto, Finish, TypeOK, PC, Outcome, NoOutcome
<1>2. NamesDistinct'
  BY DEF WriteFails, Goto, Finish, NamesDistinct, TypeOK
<1>3. \A q \in Proc : StepOK(q)'
  BY DEF WriteFails, Goto, Finish, StepOK, TypeOK
<1>4. LockExclusive'
  BY <1>0 DEF WriteFails, Goto, Finish, LockExclusive, Holding, Conflict, StepOK, TypeOK
<1>5. LockedContentStable'
  BY <1>0 DEF WriteFails, Goto, Finish, LockedContentStable, Updating, StepOK, TypeOK
<1>6. TempsPrivate'
  BY <1>0 DEF WriteFails, Goto, Finish, TempsPrivate, Linked, Open, StepOK, TypeOK
<1> QED
  BY <1>1, <1>2, <1>3, <1>4, <1>5, <1>6

\* Checking a move's destination preserves the invariant.
LEMMA MoveStatIInv ==
    ASSUME IInv, NEW p \in Proc, MoveStat(p)
    PROVE  IInv'
<1> USE DEF IInv
<1>0. pc[p] \in PC /\ StepOK(p)
  BY DEF TypeOK
<1>1. TypeOK'
  <2>1. UNCHANGED <<dir, data, temps, req, fd, buf, tmp, used>>
    BY DEF MoveStat, files
  <2>2. CASE dir[req[p].to] # NoIno
    <3>1. Finish(p, FALSE, Empty)
      BY <2>2 DEF MoveStat
    <3> QED
      BY <2>1, <3>1, EmptyContent DEF Finish, Goto, TypeOK, PC, Outcome
  <2>3. CASE dir[req[p].to] = NoIno
    BY <2>1, <2>3 DEF MoveStat, Goto, TypeOK, PC
  <2> QED
    BY <2>2, <2>3
<1>2. NamesDistinct'
  BY DEF MoveStat, Goto, Finish, files, NamesDistinct, TypeOK
<1>3. \A q \in Proc : StepOK(q)'
  BY DEF MoveStat, Goto, Finish, files, StepOK, TypeOK
<1>4. LockExclusive'
  BY <1>0 DEF MoveStat, Goto, Finish, files, LockExclusive, Holding, Conflict, StepOK, TypeOK
<1>5. LockedContentStable'
  BY <1>0 DEF MoveStat, Goto, Finish, files, LockedContentStable, Updating, StepOK, TypeOK
<1>6. TempsPrivate'
  BY <1>0 DEF MoveStat, Goto, Finish, files, TempsPrivate, Linked, Open, StepOK, TypeOK
<1> QED
  BY <1>1, <1>2, <1>3, <1>4, <1>5, <1>6

\* Renaming a moved file preserves the invariant.
LEMMA MoveRenameIInv ==
    ASSUME IInv, NEW p \in Proc, MoveRename(p)
    PROVE  IInv'
<1> USE DEF IInv
<1>0. pc[p] \in PC /\ StepOK(p)
  BY DEF TypeOK
<1>a. /\ req[p].path \in Path /\ req[p].to \in Path /\ pc[p] = "rename"
      /\ UNCHANGED <<data, temps, req, fd, buf, tmp, used>>
  BY <1>0, ServesRequest, RequestFields DEF MoveRename, StepOK
<1>b. \/ UNCHANGED dir
      \/ /\ dir[req[p].path] # NoIno
         /\ dir' = [dir EXCEPT ![req[p].path] = NoIno, ![req[p].to] = dir[req[p].path]]
  BY DEF MoveRename
<1>c. /\ pc' = [pc EXCEPT ![p] = "reply"]
      /\ \E ok \in BOOLEAN : out' = [out EXCEPT ![p] = [ok |-> ok, content |-> Empty]]
  BY DEF MoveRename, Finish, Goto
<1>1. TypeOK'
  <2>1. out' \in [Proc -> Outcome]
    BY <1>c, EmptyContent DEF TypeOK, Outcome
  <2>2. dir' \in [Path -> Ino \cup {NoIno}]
    BY <1>a, <1>b DEF TypeOK
  <2> QED
    BY <1>a, <1>c, <2>1, <2>2 DEF TypeOK, PC
<1>2. NamesDistinct'
  <2>1. CASE UNCHANGED dir
    BY <2>1 DEF NamesDistinct
  <2>2. CASE /\ dir[req[p].path] # NoIno
             /\ dir' = [dir EXCEPT ![req[p].path] = NoIno, ![req[p].to] = dir[req[p].path]]
    <3> SUFFICES ASSUME NEW q \in Path, NEW r \in Path,
                        dir'[q] = dir'[r], dir'[q] # NoIno
                 PROVE  q = r
      BY DEF NamesDistinct
    <3>1. \A x \in Path : dir'[x] = IF x = req[p].to THEN dir[req[p].path]
                                     ELSE IF x = req[p].path THEN NoIno ELSE dir[x]
      BY <1>a, <2>2 DEF TypeOK
    <3> QED
      BY <1>a, <3>1 DEF NamesDistinct
  <2> QED
    BY <1>b, <2>1, <2>2
<1>3. \A q \in Proc : StepOK(q)'
  BY DEF MoveRename, Goto, Finish, StepOK, TypeOK
<1>4. LockExclusive'
  BY <1>0 DEF MoveRename, Goto, Finish, LockExclusive, Holding, Conflict, StepOK, TypeOK
<1>5. LockedContentStable'
  BY <1>0 DEF MoveRename, Goto, Finish, LockedContentStable, Updating, StepOK, TypeOK
<1>6. TempsPrivate'
  <2>1. Linked' \subseteq Linked
    <3>1. CASE UNCHANGED dir
      BY <3>1 DEF Linked
    <3>2. CASE /\ dir[req[p].path] # NoIno
               /\ dir' = [dir EXCEPT ![req[p].path] = NoIno, ![req[p].to] = dir[req[p].path]]
      BY <1>a, <3>2 DEF Linked, TypeOK
    <3> QED
      BY <1>b, <3>1, <3>2
  <2>2. temps' \cap (Linked' \cup Open') = {}
    BY <1>a, <2>1 DEF TempsPrivate, Open
  <2> QED
    BY <1>a, <1>c, <2>2 DEF TempsPrivate, TypeOK
<1> QED
  BY <1>1, <1>2, <1>3, <1>4, <1>5, <1>6

\* Unlocking and answering preserves the invariant.
LEMMA ReplyIInv ==
    ASSUME IInv, NEW p \in Proc, Reply(p)
    PROVE  IInv'
<1> USE DEF IInv
<1>0. pc[p] \in PC /\ StepOK(p)
  BY DEF TypeOK
<1>1. TypeOK'
  BY <1>0, RequestFields, ServesRequest, EmptyContent DEF Reply, Goto, files, TypeOK, PC, Outcome, NoOutcome
<1>2. NamesDistinct'
  BY DEF Reply, Goto, files, NamesDistinct, TypeOK
<1>3. \A q \in Proc : StepOK(q)'
  BY DEF Reply, Goto, files, StepOK, TypeOK
<1>4. LockExclusive'
  BY <1>0 DEF Reply, Goto, files, LockExclusive, Holding, Conflict, StepOK, TypeOK
<1>5. LockedContentStable'
  BY <1>0 DEF Reply, Goto, files, LockedContentStable, Updating, StepOK, TypeOK
<1>6. TempsPrivate'
  BY <1>0 DEF Reply, Goto, files, TempsPrivate, Linked, Open, StepOK, TypeOK
<1> QED
  BY <1>1, <1>2, <1>3, <1>4, <1>5, <1>6

\* A crash and restart preserves the invariant.
LEMMA CrashIInv ==
    ASSUME IInv, Crash
    PROVE  IInv'
<1> USE DEF IInv
<1>1. TypeOK'
  BY EmptyContent DEF Crash, files, TypeOK, PC, Outcome, NoOutcome
<1>2. NamesDistinct'
  BY DEF Crash, files, NamesDistinct
<1>3. \A q \in Proc : StepOK(q)'
  BY DEF Crash, StepOK
<1>4. LockExclusive' /\ LockedContentStable'
  BY DEF Crash, LockExclusive, Holding, LockedContentStable, Updating
<1>5. TempsPrivate'
  BY DEF Crash, files, TempsPrivate, Linked, Open
<1> QED
  BY <1>1, <1>2, <1>3, <1>4, <1>5

\* A stuttering step preserves the invariant.
LEMMA StutterIInv ==
    ASSUME IInv, UNCHANGED vars
    PROVE  IInv'
BY DEF vars, IInv, TypeOK, NamesDistinct, StepOK, LockExclusive, Holding, Conflict,
       LockedContentStable, Updating, TempsPrivate, Linked, Open, Accepts

\* The invariant is inductive.
LEMMA NextIInv == IInv /\ [Next]_vars => IInv'
<1> SUFFICES ASSUME IInv, [Next]_vars PROVE IInv'
  OBVIOUS
<1>1. ASSUME NEW p \in Proc, Start(p) \/ Step(p) PROVE IInv'
  BY <1>1, StartIInv, OpenExistingIInv, OpenCreateIInv, OpenMissingIInv, LockIInv,
     LookReadIInv, LookRejectIInv, LookUpdateIInv, AppendInPlaceIInv,
     CreateTempIInv, FillTempIInv, PublishIInv, WriteFailsIInv,
     MoveStatIInv, MoveRenameIInv, ReplyIInv DEF Step
<1>2. CASE Crash
  BY <1>2, CrashIInv
<1>3. CASE UNCHANGED vars
  BY <1>3, StutterIInv
<1> QED
  BY <1>1, <1>2, <1>3 DEF Next, Rest

\* The inductive invariant holds in every reachable state.
THEOREM Invariance == Spec => []IInv
BY InitIInv, NextIInv, PTL DEF Spec

\* The variables keep their types.
THEOREM TypeCorrect == Spec => []TypeOK
<1>1. IInv => TypeOK
  BY DEF IInv
<1> QED
  BY <1>1, Invariance, PTL

\* No handler's view of the file it has locked goes stale before it acts: the
\* read and the rename (or the append in place) of AppendSection and Patch.
THEOREM LockedContent == Spec => []LockedContentStable
<1>1. IInv => LockedContentStable
  BY DEF IInv
<1> QED
  BY <1>1, Invariance, PTL

\* A temp file is private to its atomicWrite until the rename publishes it whole.
THEOREM PrivateTemps == Spec => []TempsPrivate
<1>1. IInv => TempsPrivate
  BY DEF IInv
<1> QED
  BY <1>1, Invariance, PTL

\* The rename of an update whose path still names the locked inode replaces the
\* content of that moment by its update, whatever the other handlers do.
THEOREM CurrentRewrite == Spec => CurrentRewriteIsAtomic
<1> DEFINE A == \A p \in Proc :
      pc[p] = "publish" /\ Publish(p) /\ fd[p] # NoIno /\ fd[p] = dir[req[p].path]
      => FileAt(req[p].path)' = Rewritten(req[p], FileAt(req[p].path))
<1>1. ASSUME IInv, NEW p \in Proc, pc[p] = "publish", Publish(p),
             fd[p] # NoIno, fd[p] = dir[req[p].path]
      PROVE  FileAt(req[p].path)' = Rewritten(req[p], FileAt(req[p].path))
  <2> USE DEF IInv
  <2>1. req[p].path \in Path
    BY <1>1, ServesRequest, RequestFields
  <2>2. FileAt(req[p].path) = buf[p]
    BY <1>1 DEF FileAt, LockedContentStable, Updating
  <2>3. tmp[p] # NoIno /\ data[tmp[p]] = Rewritten(req[p], buf[p])
    BY <1>1 DEF TempsPrivate, StepOK
  <2>4. dir'[req[p].path] = tmp[p] /\ data' = data /\ req' = req
    BY <1>1, <2>1 DEF Publish, TypeOK
  <2> QED
    BY <2>2, <2>3, <2>4 DEF FileAt
<1>2. IInv => A
  BY <1>1
<1>3. []IInv => [][A]_vars
  BY <1>2, PTL
<1> QED
  BY <1>3, Invariance DEF CurrentRewriteIsAtomic

\* An update keeps every line, but for a write and for the line a patch replaces.
LEMMA RewrittenKeeps ==
    ASSUME NEW r \in Request, NEW c \in Content, Accepts(r, c),
           r.op \in {"append", "section", "patch"}, NEW x \in LinesOf(c),
           ~(r.op = "patch" /\ r.old = x)
    PROVE  x \in LinesOf(Rewritten(r, c))
<1>1. CASE r.op = "append"
  BY <1>1, AppendedKeeps DEF Rewritten
<1>2. CASE r.op = "section"
  BY <1>2, RequestFields, InsertedKeeps DEF Rewritten, Accepts
<1>3. CASE r.op = "patch"
  <2>1. Rewritten(r, c) = Patched(c, r.old, r.text)
    BY <1>3 DEF Rewritten
  <2>2. x \in LinesOf(c) \ {r.old}
    BY <1>3
  <2> QED
    BY <2>1, <2>2, PatchedKeeps
<1> QED
  BY <1>1, <1>2, <1>3

\* A line leaves a path only by a write, by the patch of that line, by a move,
\* or by a rewrite based on an inode the path no longer names: no other step of
\* any number of handlers, no crash and no I/O error loses one.
THEOREM LinesLost == Spec => LinesLostOnlyByRequest
<1> DEFINE A == \A q \in Path : \A x \in LinesAt(q) :
                   x \notin LinesAt(q)' =>
                      \E p \in Proc : Loses(p, q, x) /\ pc'[p] = "reply"
<1>1. ASSUME IInv, [Next]_vars PROVE A
  <2> USE <1>1 DEF IInv
  <2> SUFFICES ASSUME NEW q \in Path, NEW x \in LinesAt(q), x \notin LinesAt(q)'
               PROVE  \E p \in Proc : Loses(p, q, x) /\ pc'[p] = "reply"
    OBVIOUS
  <2> DEFINE i == dir[q]
  <2>1. i \in Ino /\ i # NoIno /\ x \in LinesOf(data[i]) /\ data[i] \in Content
    BY DEF LinesAt, TypeOK
  <2>2. i \notin FreeIno /\ i \notin temps /\ i \in Linked
    BY <2>1 DEF FreeIno, Linked, TempsPrivate
  <2>3. ~(dir' = dir /\ data' = data)
    BY DEF LinesAt
  <2>4. ASSUME dir'[q] = i, data'[i] = data[i] PROVE FALSE
    BY <2>1, <2>4 DEF LinesAt
  <2>5. ASSUME NEW p \in Proc, OpenCreate(p) PROVE FALSE
    <3>1. Fresh(FreeIno) \subseteq FreeIno
      BY StoreAssumption DEF FreeIno
    <3>2. PICK j \in FreeIno : /\ dir' = [dir EXCEPT ![req[p].path] = j]
                               /\ data' = [data EXCEPT ![j] = Empty]
      BY <2>5, <3>1 DEF OpenCreate
    <3>3. dir[req[p].path] = NoIno
      BY <2>5 DEF OpenCreate
    <3>4. dir'[q] = i /\ data'[i] = data[i]
      BY <2>1, <2>2, <3>2, <3>3 DEF TypeOK
    <3> QED
      BY <2>4, <3>4
  <2>6. ASSUME NEW p \in Proc, CreateTemp(p) PROVE FALSE
    <3>1. Fresh(FreeIno) \subseteq FreeIno
      BY StoreAssumption DEF FreeIno
    <3>2. PICK j \in FreeIno : dir' = dir /\ data' = [data EXCEPT ![j] = Empty]
      BY <2>6, <3>1 DEF CreateTemp
    <3>3. dir'[q] = i /\ data'[i] = data[i]
      BY <2>1, <2>2, <3>2 DEF TypeOK
    <3> QED
      BY <2>4, <3>3
  <2>7. ASSUME NEW p \in Proc, FillTemp(p) PROVE FALSE
    <3>1. tmp[p] \in temps
      BY <2>7 DEF FillTemp, StepOK, TempsPrivate
    <3>2. dir'[q] = i /\ data'[i] = data[i]
      BY <2>1, <2>2, <2>7, <3>1 DEF FillTemp, TypeOK
    <3> QED
      BY <2>4, <3>2
  <2>8. ASSUME NEW p \in Proc, AppendInPlace(p) PROVE FALSE
    <3>1. dir' = dir
      BY <2>8 DEF AppendInPlace
    <3>2. PICK c : data' = [data EXCEPT ![fd[p]] = c] /\ LinesOf(data[fd[p]]) \subseteq LinesOf(c)
      <4>1. data[fd[p]] \in Content
        BY <2>8 DEF AppendInPlace, StepOK, TypeOK
      <4> QED
        BY <2>8, <4>1, AppendedKeeps DEF AppendInPlace
    <3>3. x \in LinesOf(data'[i])
      BY <2>1, <3>2 DEF TypeOK
    <3> QED
      BY <2>1, <3>1, <3>3 DEF LinesAt
  <2>9. ASSUME NEW p \in Proc, Publish(p)
        PROVE  Loses(p, q, x) /\ pc'[p] = "reply"
    <3>1. req[p] \in Request /\ pc[p] = "publish" /\ pc'[p] = "reply"
      BY <2>9, ServesRequest DEF Publish, Finish, Goto, TypeOK
    <3>2. req[p].path = q
      BY <2>1, <2>4, <2>9 DEF Publish, TypeOK
    <3>3. SUFFICES ASSUME req[p].op # "write", ~(req[p].op = "patch" /\ req[p].old = x),
                          fd[p] = dir[q]
                   PROVE  FALSE
      BY <3>1, <3>2 DEF Loses
    <3>4. /\ req[p].op \in {"append", "section", "patch"}
          /\ Accepts(req[p], buf[p]) /\ buf[p] = data[i]
      BY <2>1, <3>1, <3>3 DEF StepOK, LockedContentStable, Updating
    <3>5. x \in LinesOf(Rewritten(req[p], buf[p]))
      BY <2>1, <3>1, <3>3, <3>4, RewrittenKeeps
    <3>6. dir'[q] = tmp[p] /\ tmp[p] # NoIno /\ data'[tmp[p]] = Rewritten(req[p], buf[p])
      BY <2>9, <3>1, <3>2 DEF Publish, StepOK, TempsPrivate, TypeOK
    <3> QED
      BY <3>5, <3>6 DEF LinesAt
  <2>10. ASSUME NEW p \in Proc, MoveRename(p)
         PROVE  Loses(p, q, x) /\ pc'[p] = "reply"
    <3>1. req[p] \in Request /\ pc[p] = "rename" /\ pc'[p] = "reply" /\ data' = data
      BY <2>10, ServesRequest DEF MoveRename, Finish, Goto, TypeOK
    <3>2. q \in {req[p].path, req[p].to}
      BY <2>1, <2>4, <2>10, <3>1 DEF MoveRename, TypeOK
    <3> QED
      BY <3>1, <3>2 DEF Loses
  <2>11. ASSUME NEW p \in Proc,
                \/ Start(p) \/ OpenExisting(p) \/ OpenMissing(p) \/ Lock(p)
                \/ LookRead(p) \/ LookReject(p) \/ LookUpdate(p) \/ WriteFails(p)
                \/ MoveStat(p) \/ Reply(p)
         PROVE  FALSE
    BY <2>3, <2>11 DEF Start, OpenExisting, OpenMissing, Lock, LookRead, LookReject,
       LookUpdate, WriteFails, MoveStat, Reply, files
  <2> QED
    BY <1>1, <2>3, <2>5, <2>6, <2>7, <2>8, <2>9, <2>10, <2>11
       DEF Next, Step, Crash, Rest, vars, files
<1>2. IInv /\ [Next]_vars => A
  BY <1>1
<1>3. []IInv /\ [][Next]_vars => [][A]_vars
  BY <1>2, PTL
<1> QED
  BY <1>3, Invariance DEF LinesLostOnlyByRequest, Spec

\* Every path through atomicWrite renames its temp file or removes it
\* (store.go:1047-1075): only the death of the daemon leaves one behind.
THEOREM NoLitter == Spec => LitterOnlyByCrash
<1> DEFINE A == Litter' \subseteq Litter \/ Crash
<1>1. ASSUME IInv, [Next]_vars
      PROVE  A
  <2>1. temps \subseteq Ino /\ NoIno \notin Ino /\ DOMAIN tmp = Proc
    BY <1>1, StoreAssumption DEF IInv, TypeOK
  <2>2. CASE UNCHANGED <<temps, tmp>>
    BY <2>2 DEF Litter
  <2>3. ASSUME NEW p \in Proc, CreateTemp(p)
        PROVE  A
    <3>1. PICK i : temps' = temps \cup {i} /\ tmp' = [tmp EXCEPT ![p] = i]
      BY <2>3 DEF CreateTemp
    <3>2. tmp[p] = NoIno
      BY <1>1, <2>3 DEF CreateTemp, IInv, StepOK
    <3>3. ASSUME NEW x \in Litter'
          PROVE  x \in Litter
      <4>1. x \in temps' /\ \A q \in Proc : x # tmp'[q]
        BY <3>3 DEF Litter
      <4>2. x # i /\ x \in temps
        BY <2>1, <3>1, <4>1
      <4>3. \A q \in Proc : x # tmp[q]
        BY <2>1, <3>1, <3>2, <4>1, <4>2
      <4> QED
        BY <4>2, <4>3 DEF Litter
    <3> QED
      BY <3>3
  <2>4. ASSUME NEW p \in Proc, Publish(p) \/ WriteFails(p)
        PROVE  A
    <3>1. temps' = temps \ {tmp[p]} /\ tmp' = [tmp EXCEPT ![p] = NoIno]
      BY <2>4 DEF Publish, WriteFails
    <3>2. ASSUME NEW x \in Litter'
          PROVE  x \in Litter
      <4>1. x \in temps' /\ \A q \in Proc : x # tmp'[q]
        BY <3>2 DEF Litter
      <4>2. x \in temps /\ x # tmp[p] /\ \A q \in Proc \ {p} : x # tmp[q]
        BY <2>1, <3>1, <4>1
      <4> QED
        BY <4>2 DEF Litter
    <3> QED
      BY <3>2
  <2> QED
    BY <1>1, <2>2, <2>3, <2>4 DEF Next, Step, Rest, vars, files, Start, OpenExisting,
       OpenCreate, OpenMissing, Lock, LookRead, LookReject, LookUpdate, AppendInPlace,
       FillTemp, MoveStat, MoveRename, Reply
<1>2. IInv /\ [Next]_vars => A
  BY <1>1
<1>3. []IInv /\ [][Next]_vars => [][A]_vars
  BY <1>2, PTL
<1> QED
  BY <1>3, Invariance DEF LitterOnlyByCrash, Spec
================================================================================
