----------------------------- MODULE FileScan_proofs ---------------------------
(***************************************************************************)
(* For files of any length made of any lines: the two flags of             *)
(* skipActionLine mean what comments and fences mean; what the lists of    *)
(* the scanners have to do with each other follows, and so do the counts,  *)
(* the clusters and the blocks of the entity audit.                        *)
(***************************************************************************)
EXTENDS FileScan, FiniteSetTheorems, TLAPS

\* The file after one more line.
LEMMA OneMore ==
    ASSUME NEW S, file \in Seq(S), NEW l \in S, file' = Append(file, l)
    PROVE  /\ Len(file) \in Nat /\ Len(file)' = Len(file) + 1 /\ file' \in Seq(S)
           /\ file'[Len(file) + 1] = l
           /\ \A k \in 1 .. Len(file) : file'[k] = file[k]
  OBVIOUS

\* A new line does not change what is commented out before it.
LEMMA CommentBefore ==
    ASSUME NEW S, file \in Seq(S), NEW l \in S, file' = Append(file, l),
           NEW n \in Nat, n <= Len(file)
    PROVE  InComment(n)' <=> InComment(n)
<1>1. \A k \in 1 .. n : file'[k] = file[k]
  <2>1. Len(file) \in Nat /\ \A k \in 1 .. Len(file) : file'[k] = file[k]
    BY OneMore
  <2>2. \A k \in 1 .. n : k \in 1 .. Len(file)
    BY <2>1
  <2> QED
    BY <2>1, <2>2
<1>2. \A k \in 1 .. n : \A j \in k + 1 .. n : j \in 1 .. n
  OBVIOUS
<1> QED
  BY <1>1, <1>2 DEF InComment

\* It leaves a comment open when it opens one or is in one, and does not end it.
LEMMA CommentAfter ==
    ASSUME NEW S, file \in Seq(S), NEW l \in S, file' = Append(file, l)
    PROVE  InComment(Len(file))' <=>
               /\ ~l.ends
               /\ l.lead = "comment" \/ InComment(Len(file))
<1> DEFINE N == Len(file)
           open(f, k) == f[k].lead = "comment" /\ ~f[k].ends
<1>1. /\ N \in Nat /\ Len(file)' = N + 1 /\ file'[N + 1] = l
      /\ \A k \in 1 .. N : file'[k] = file[k]
  BY OneMore
<1>2. InComment(Len(file))' <=>
          \E k \in 1 .. N + 1 : /\ open(file', k)
                                /\ \A j \in k + 1 .. N + 1 : ~file'[j].ends
  BY <1>1 DEF InComment
<1>3. InComment(N) <=>
          \E k \in 1 .. N : /\ open(file', k)
                            /\ \A j \in k + 1 .. N : ~file'[j].ends
  BY <1>1 DEF InComment
<1>4. ASSUME NEW k \in 1 .. N
      PROVE  (\A j \in k + 1 .. N + 1 : ~file'[j].ends) <=>
                 ~l.ends /\ \A j \in k + 1 .. N : ~file'[j].ends
  <2>1. k + 1 .. N + 1 = (k + 1 .. N) \cup {N + 1}
    BY <1>1
  <2> QED
    BY <1>1, <2>1
<1>5. (\A j \in N + 2 .. N + 1 : ~file'[j].ends) /\ N + 2 = (N + 1) + 1
  BY <1>1
<1>6. 1 .. N + 1 = (1 .. N) \cup {N + 1}
  BY <1>1
<1> HIDE DEF open
<1>7. open(file', N + 1) <=> l.lead = "comment" /\ ~l.ends
  BY <1>1 DEF open
<1> QED
  BY <1>2, <1>3, <1>4, <1>5, <1>6, <1>7

\* The fences in the file after one more line.
LEMMA FencesAfter ==
    ASSUME NEW S, file \in Seq(S), NEW l \in S, file' = Append(file, l)
    PROVE  /\ \A n \in 0 .. Len(file) : Fences(n)' = Fences(n)
           /\ Fences(Len(file))' =
                  IF l.lead = "fence" /\ ~InComment(Len(file))
                  THEN Fences(Len(file)) \cup {Len(file) + 1} ELSE Fences(Len(file))
<1> DEFINE N == Len(file)
<1>1. /\ N \in Nat /\ Len(file)' = N + 1 /\ file'[N + 1] = l
      /\ \A k \in 1 .. N : file'[k] = file[k]
  BY OneMore
<1>2. \A k \in 1 .. N + 1 : InComment(k - 1)' <=> InComment(k - 1)
  <2> TAKE k \in 1 .. N + 1
  <2>1. k - 1 \in Nat /\ k - 1 <= N
    BY <1>1
  <2> QED
    BY <2>1, CommentBefore
<1>3. ASSUME NEW n \in 0 .. N PROVE Fences(n)' = Fences(n)
  <2>1. \A k \in 1 .. n : k \in 1 .. N + 1 /\ file'[k] = file[k]
    BY <1>1
  <2> QED
    BY <1>2, <2>1 DEF Fences
<1>4. Fences(Len(file))' = {k \in 1 .. N + 1 : file'[k].lead = "fence" /\ ~InComment(k - 1)}
  <2>1. Fences(Len(file))' = {k \in 1 .. N + 1 : file'[k].lead = "fence" /\ ~InComment(k - 1)'}
    BY <1>1 DEF Fences
  <2> QED
    BY <1>2, <2>1
<1>5. 1 .. N + 1 = (1 .. N) \cup {N + 1} /\ (N + 1) - 1 = N
  BY <1>1
<1>6. Fences(N) = {k \in 1 .. N : file'[k].lead = "fence" /\ ~InComment(k - 1)}
  BY <1>1 DEF Fences
<1>7. Fences(Len(file))' =
          IF l.lead = "fence" /\ ~InComment(N) THEN Fences(N) \cup {N + 1} ELSE Fences(N)
  BY <1>1, <1>4, <1>5, <1>6
<1> QED
  BY <1>3, <1>7

\* The parity of the fences.
LEMMA FenceAfter ==
    ASSUME NEW S, file \in Seq(S), NEW l \in S, file' = Append(file, l)
    PROVE  InFence(Len(file))' <=>
               (IF l.lead = "fence" /\ ~InComment(Len(file))
                THEN ~InFence(Len(file)) ELSE InFence(Len(file)))
<1> DEFINE N == Len(file)
           F == Fences(N)
<1>1. N \in Nat
  BY OneMore
<1>2. F \subseteq 1 .. N /\ N + 1 \notin F
  BY <1>1 DEF Fences
<1>3. IsFiniteSet(F) /\ Cardinality(F) \in Nat
  <2>1. IsFiniteSet(1 .. N)
    BY <1>1, FS_Interval
  <2>2. IsFiniteSet(F)
    BY <1>2, <2>1, FS_Subset
  <2> QED
    BY <2>2, FS_CardinalityType
<1>4. Cardinality(F \cup {N + 1}) = Cardinality(F) + 1
  BY <1>2, <1>3, FS_AddElement
<1>5. Fences(Len(file))' = IF l.lead = "fence" /\ ~InComment(N) THEN F \cup {N + 1} ELSE F
  BY FencesAfter
<1>6. \A c \in Nat : (c + 1) % 2 = 1 <=> ~(c % 2 = 1)
  OBVIOUS
<1> HIDE DEF F
<1>7. InFence(Len(file))' <=> Cardinality(Fences(Len(file))') % 2 = 1
  BY DEF InFence
<1>8. InFence(N) <=> Cardinality(F) % 2 = 1
  BY DEF InFence, F
<1> QED
  BY <1>3, <1>4, <1>5, <1>6, <1>7, <1>8

\* The flags after one more line, for any kind of file they are kept for.
LEMMA SkipStep ==
    ASSUME NEW S, file \in Seq(S), NEW l \in S, file' = Append(file, l),
           skip' = SkipAfter(skip, l),
           skip \in [comment : BOOLEAN, fence : BOOLEAN],
           skip.comment <=> InComment(Len(file)), skip.fence <=> InFence(Len(file))
    PROVE  /\ skip' \in [comment : BOOLEAN, fence : BOOLEAN]
           /\ skip'.comment <=> InComment(Len(file))'
           /\ skip'.fence <=> InFence(Len(file))'
<1>1. /\ skip' \in [comment : BOOLEAN, fence : BOOLEAN]
      /\ skip'.comment <=> ~l.ends /\ (l.lead = "comment" \/ skip.comment)
      /\ skip'.fence <=> (IF l.lead = "fence" /\ ~skip.comment THEN ~skip.fence
                         ELSE skip.fence)
  <2>1. CASE skip.comment
    BY <2>1 DEF SkipAfter
  <2>2. CASE ~skip.comment /\ l.lead = "comment"
    BY <2>2 DEF SkipAfter
  <2>3. CASE ~skip.comment /\ l.lead # "comment"
    BY <2>3 DEF SkipAfter
  <2> QED
    BY <2>1, <2>2, <2>3
<1> QED
  BY <1>1, CommentAfter, FenceAfter

\* What a scanner remembers of comments and fences is what the lines so far say.
SkipInv ==
    /\ kind \in Kind /\ file \in Seq(Lines[kind])
    /\ skip \in [comment : BOOLEAN, fence : BOOLEAN]
    /\ SkipMatchesReference

\* The flags of an empty file.
LEMMA SkipInit == Init => SkipInv
<1> SUFFICES ASSUME Init PROVE SkipInv
  OBVIOUS
<1>1. file = <<>> /\ Len(file) = 0 /\ kind \in Kind
  BY DEF Init
<1>2. ~InComment(0)
  BY DEF InComment
<1>3. Fences(0) = {}
  BY DEF Fences
<1>4. ~InFence(0)
  BY <1>3, FS_EmptySet DEF InFence
<1> QED
  BY <1>1, <1>2, <1>4 DEF Init, SkipInv, SkipMatchesReference

\* Every line keeps the flags right.
LEMMA SkipNext == SkipInv /\ [Next]_vars => SkipInv'
<1> SUFFICES ASSUME SkipInv, [Next]_vars PROVE SkipInv'
  OBVIOUS
<1>1. CASE UNCHANGED vars
  BY <1>1 DEF vars, SkipInv, SkipMatchesReference, InComment, InFence, Fences
<1>2. CASE ReadActionLine
  <2>1. PICK l \in Lines["actions"] : file' = Append(file, l) /\ skip' = SkipAfter(skip, l)
    BY <1>2 DEF ReadActionLine
  <2>2. kind = "actions" /\ kind' = kind
    BY <1>2 DEF ReadActionLine
  <2>3. file' \in Seq(Lines[kind])
    BY <2>1, <2>2, OneMore DEF SkipInv
  <2> QED
    BY <2>1, <2>2, <2>3, SkipStep DEF SkipInv, SkipMatchesReference
<1>3. CASE ReadObservationLine
  <2>1. PICK l \in Lines["observations"] :
            file' = Append(file, l) /\ skip' = SkipAfter(skip, l)
    BY <1>3 DEF ReadObservationLine
  <2>2. kind = "observations" /\ kind' = kind
    BY <1>3 DEF ReadObservationLine
  <2>3. file' \in Seq(Lines[kind])
    BY <2>1, <2>2, OneMore DEF SkipInv
  <2> QED
    BY <2>1, <2>2, <2>3, SkipStep DEF SkipInv, SkipMatchesReference
<1>4. CASE ReadEntityLine
  <2>1. PICK l \in Lines["entities"] : file' = Append(file, l)
    BY <1>4 DEF ReadEntityLine
  <2>2. kind = "entities" /\ kind' = kind /\ skip' = skip
    BY <1>4 DEF ReadEntityLine
  <2>3. file' \in Seq(Lines[kind])
    BY <2>1, <2>2, OneMore DEF SkipInv
  <2> QED
    BY <2>2, <2>3 DEF SkipInv, SkipMatchesReference
<1> QED
  BY <1>1, <1>2, <1>3, <1>4 DEF Next

\* skipActionLine skips what is commented out or fenced off, and nothing else
\* (store.go:866): for every file, whatever order comments and fences come in.
THEOREM SkipsRight == Spec => []SkipMatchesReference
<1>1. SkipInv => SkipMatchesReference
  BY DEF SkipInv
<1> QED
  BY SkipInit, SkipNext, <1>1, PTL DEF Spec
--------------------------------------------------------------------------------
\* A new line leaves alone which lines before it are visible.
LEMMA VisibleBefore ==
    ASSUME NEW S, file \in Seq(S), NEW l \in S, file' = Append(file, l),
           NEW n \in 1 .. Len(file)
    PROVE  Visible(n)' <=> Visible(n)
<1>1. Len(file) \in Nat /\ file'[n] = file[n]
  BY OneMore
<1>2. n - 1 \in Nat /\ n - 1 <= Len(file) /\ n - 1 \in 0 .. Len(file)
  BY <1>1
<1>3. InComment(n - 1)' <=> InComment(n - 1)
  BY <1>2, CommentBefore
<1>4. Fences(n - 1)' = Fences(n - 1)
  BY <1>2, FencesAfter
<1>5. InFence(n - 1)' <=> InFence(n - 1)
  BY <1>4 DEF InFence
<1> QED
  BY <1>1, <1>3, <1>5 DEF Visible

\* A scanner that skips what skipActionLine says sees the visible lines.
LEMMA VisibleNew ==
    ASSUME NEW S, file \in Seq(S), NEW l \in S, file' = Append(file, l),
           skip.comment <=> InComment(Len(file)), skip.fence <=> InFence(Len(file)),
           NEW n \in Nat, n = Len(file) + 1
    PROVE  Visible(n)' <=> Seen(l)
<1>1. Len(file) \in Nat /\ file'[n] = l /\ n - 1 = Len(file)
  BY OneMore
<1>2. n - 1 \in Nat /\ n - 1 <= Len(file) /\ n - 1 \in 0 .. Len(file)
  BY <1>1
<1>3. InComment(n - 1)' <=> InComment(n - 1)
  BY <1>2, CommentBefore
<1>4. Fences(n - 1)' = Fences(n - 1)
  BY <1>2, FencesAfter
<1>5. InFence(n - 1)' <=> InFence(n - 1)
  BY <1>4 DEF InFence
<1> QED
  BY <1>1, <1>3, <1>5 DEF Visible, Seen, Skipped

\* What the lists hold, line by line, and what the latest day has to do with them.
ListsInv ==
    /\ found \in [Lists -> SUBSET Nat]
    /\ kind = "actions" => \A n \in Nat :
        /\ n \in found["open"] <=>
               n \in 1 .. Len(file) /\ Visible(n) /\ Item(file[n])
        /\ n \in found["stale"] <=>
               n \in 1 .. Len(file) /\ Visible(n) /\ Stale(file[n])
    /\ kind = "observations" => \A n \in Nat :
        /\ n \in found["recent"] <=>
               n \in 1 .. Len(file) /\ Visible(n) /\ Entry(file[n])
               /\ file[n].date.rank >= since
        /\ n \in found["forFile"] <=>
               n \in 1 .. Len(file) /\ Entry(file[n]) /\ file[n].date.rank >= since
        /\ n \in found["clustered"] <=>
               n \in 1 .. Len(file) /\ Visible(n) /\ Entry(file[n])
               /\ file[n].date.rank >= ClusterSince

\* Lists of an empty file.
LEMMA ListsInit == Init => ListsInv
<1> SUFFICES ASSUME Init PROVE ListsInv
  OBVIOUS
<1>1. Len(file) = 0 /\ found = [s \in Lists |-> {}]
  BY DEF Init
<1> QED
  BY <1>1 DEF ListsInv, Lists

\* Every line keeps the lists right.
LEMMA ListsNext == SkipInv /\ ListsInv /\ [Next]_vars => ListsInv'
<1> SUFFICES ASSUME SkipInv, ListsInv, [Next]_vars PROVE ListsInv'
  OBVIOUS
<1>1. CASE UNCHANGED vars
  <2>1. kind' = kind /\ file' = file /\ found' = found /\ since' = since
    BY <1>1 DEF vars
  <2>2. \A n : Visible(n)' <=> Visible(n)
    BY <2>1 DEF Visible, InComment, InFence, Fences
  <2>3. /\ ClusterSince' = ClusterSince
        /\ \A n : /\ Item(file[n])' <=> Item(file[n])
                  /\ Stale(file[n])' <=> Stale(file[n])
                  /\ Entry(file[n])' <=> Entry(file[n])
    BY <2>1 DEF Item, Stale, Added, StaleSince, Entry, ClusterSince
  <2> QED
    BY <2>1, <2>2, <2>3 DEF ListsInv
<1>2. CASE ReadActionLine
  <2>1. PICK l \in Lines["actions"] :
            /\ file' = Append(file, l)
            /\ found' = [found EXCEPT
                   !["open"] = @ \cup {n \in {Here} : Seen(l) /\ Item(l)},
                   !["stale"] = @ \cup {n \in {Here} : Seen(l) /\ Stale(l)}]
    BY <1>2 DEF ReadActionLine
  <2>2. /\ kind = "actions" /\ kind' = kind /\ file \in Seq(Lines["actions"])
        /\ skip.comment <=> InComment(Len(file))
        /\ skip.fence <=> InFence(Len(file))
    <3>1. kind = "actions" /\ kind' = kind
      BY <1>2 DEF ReadActionLine
    <3> QED
      BY <3>1 DEF SkipInv, SkipMatchesReference
  <2>3. /\ Len(file) \in Nat /\ Len(file)' = Len(file) + 1 /\ file'[Len(file) + 1] = l
        /\ \A n \in 1 .. Len(file) : file'[n] = file[n] /\ (Visible(n)' <=> Visible(n))
    BY <2>1, <2>2, OneMore, VisibleBefore
  <2>4. PICK h \in Nat : h = Here
    BY <2>3 DEF Here
  <2>5. Visible(h)' <=> Seen(l)
    BY <2>1, <2>2, <2>4, VisibleNew DEF Here
  <2>6. /\ found' \in [Lists -> SUBSET Nat]
        /\ found'["open"] = found["open"] \cup {n \in {h} : Seen(l) /\ Item(l)}
        /\ found'["stale"] = found["stale"] \cup {n \in {h} : Seen(l) /\ Stale(l)}
    BY <2>1, <2>4 DEF ListsInv, Lists
  <2> QED
    <3> SUFFICES ASSUME NEW n \in Nat
                 PROVE  /\ n \in found'["open"] <=>
                               n \in 1 .. h /\ Visible(n)' /\ Item(file'[n])
                        /\ n \in found'["stale"] <=>
                               n \in 1 .. h /\ Visible(n)' /\ Stale(file'[n])
      BY <2>2, <2>3, <2>4, <2>6 DEF ListsInv, Here, Item, Stale, Added, StaleSince
    <3>1. CASE n = h
      BY <2>2, <2>3, <2>4, <2>5, <2>6, <3>1 DEF ListsInv, Here
    <3>2. CASE n # h
      <4>1. n \in 1 .. h <=> n \in 1 .. Len(file)
        BY <2>3, <2>4, <3>2 DEF Here
      <4> QED
        BY <2>2, <2>3, <2>6, <3>2, <4>1 DEF ListsInv
    <3> QED
      BY <3>1, <3>2
<1>3. CASE ReadObservationLine
  <2>1. PICK l \in Lines["observations"] :
            /\ file' = Append(file, l)
            /\ found' = [found EXCEPT
                   !["recent"] = @ \cup {n \in {Here} : ListsRecent(l)},
                   !["forFile"] = @ \cup {n \in {Here} : Entry(l) /\ l.date.rank >= since},
                   !["clustered"] = @ \cup {n \in {Here} : Clustered(l)}]
    BY <1>3 DEF ReadObservationLine
  <2>2. /\ kind = "observations" /\ kind' = kind /\ file \in Seq(Lines["observations"])
        /\ since' = since
        /\ skip.comment <=> InComment(Len(file))
        /\ skip.fence <=> InFence(Len(file))
    <3>1. kind = "observations" /\ kind' = kind /\ since' = since
      BY <1>3 DEF ReadObservationLine
    <3> QED
      BY <3>1 DEF SkipInv, SkipMatchesReference
  <2>3. /\ Len(file) \in Nat /\ Len(file)' = Len(file) + 1 /\ file'[Len(file) + 1] = l
        /\ \A n \in 1 .. Len(file) : file'[n] = file[n] /\ (Visible(n)' <=> Visible(n))
    BY <2>1, <2>2, OneMore, VisibleBefore
  <2>4. PICK h \in Nat : h = Here
    BY <2>3 DEF Here
  <2>5. Visible(h)' <=> Seen(l)
    BY <2>1, <2>2, <2>4, VisibleNew DEF Here
  <2>6. /\ found' \in [Lists -> SUBSET Nat]
        /\ found'["recent"] = found["recent"] \cup {n \in {h} : ListsRecent(l)}
        /\ found'["forFile"] =
               found["forFile"] \cup {n \in {h} : Entry(l) /\ l.date.rank >= since}
        /\ found'["clustered"] = found["clustered"] \cup {n \in {h} : Clustered(l)}
    BY <2>1, <2>4 DEF ListsInv, Lists
  <2>7. ClusterSince' = ClusterSince
    BY <2>2 DEF ClusterSince
  <2> QED
    <3> SUFFICES ASSUME NEW n \in Nat
                 PROVE  /\ n \in found'["recent"] <=>
                               n \in 1 .. h /\ Visible(n)' /\ Entry(file'[n])
                               /\ file'[n].date.rank >= since
                        /\ n \in found'["forFile"] <=>
                               n \in 1 .. h /\ Entry(file'[n])
                               /\ file'[n].date.rank >= since
                        /\ n \in found'["clustered"] <=>
                               n \in 1 .. h /\ Visible(n)' /\ Entry(file'[n])
                               /\ file'[n].date.rank >= ClusterSince
      BY <2>2, <2>3, <2>4, <2>6, <2>7 DEF ListsInv, Here, Entry
    <3>1. CASE n = h
      BY <2>2, <2>3, <2>4, <2>5, <2>6, <3>1 DEF ListsInv, Here, ListsRecent, Clustered
    <3>2. CASE n # h
      <4>1. n \in 1 .. h <=> n \in 1 .. Len(file)
        BY <2>3, <2>4, <3>2 DEF Here
      <4> QED
        BY <2>2, <2>3, <2>6, <3>2, <4>1 DEF ListsInv
    <3> QED
      BY <3>1, <3>2
<1>4. CASE ReadEntityLine
  <2>1. /\ kind = "entities" /\ kind' = kind
        /\ \E T \in SUBSET {Here} : found' = [found EXCEPT !["past"] = @ \cup T]
    BY <1>4 DEF ReadEntityLine
  <2>2. Here \in Nat
    BY OneMore DEF Here, SkipInv
  <2>3. found' \in [Lists -> SUBSET Nat]
    BY <2>1, <2>2 DEF ListsInv, Lists
  <2> QED
    BY <2>1, <2>3 DEF ListsInv
<1> QED
  BY <1>1, <1>2, <1>3, <1>4 DEF Next

\* The dates of a list of actions are numbers.
LEMMA ActionDates ==
    ASSUME file \in Seq(Lines["actions"]), NEW n \in 1 .. Len(file), Item(file[n])
    PROVE  \A d \in file[n].field \cup file[n].tagged : d.rank \in Nat
<1>1. file[n] \in ActionLine /\ file[n].lead = "todo"
  BY ScanAssumption DEF Item
<1>2. file[n].field \in SUBSET Date /\ file[n].tagged \in SUBSET Date
  BY <1>1 DEF ActionLine, Plain, Optional
<1> QED
  BY <1>2 DEF Date

\* The date of an observation is a number.
LEMMA ObservationDates ==
    ASSUME file \in Seq(Lines["observations"]), NEW n \in 1 .. Len(file),
           file[n].lead = "dated"
    PROVE  file[n].date.rank \in Nat
<1>1. file[n] \in ObservationLine
  BY ScanAssumption
<1>2. file[n].date \in Date
  BY <1>1 DEF ObservationLine, Plain
<1> QED
  BY <1>2 DEF Date

\* The stale items of housekeeping_scan are open items of open_actions whose date
\* of addition is at least StaleDays back (housekeeping.go:357, store.go:699).
THEOREM StaleOpen == Spec => []StaleAreOpen
<1>1. SkipInv /\ ListsInv => StaleAreOpen
  <2> SUFFICES ASSUME SkipInv, ListsInv, kind = "actions" PROVE StaleAreOpen
    BY DEF StaleAreOpen
  <2>1. file \in Seq(Lines["actions"]) /\ Len(file) \in Nat
    BY DEF SkipInv
  <2>2. ASSUME NEW n \in 1 .. Len(file), Item(file[n])
        PROVE  Stale(file[n]) <=>
                   \E d \in IF file[n].field = {} THEN file[n].tagged ELSE file[n].field :
                       d.real /\ Today - d.rank >= StaleDays
    <3>1. \A d \in file[n].field \cup file[n].tagged :
              d.rank \in Nat /\ (StaleSince(d) <=> Today - d.rank >= StaleDays)
      BY <2>1, <2>2, ActionDates, ScanAssumption DEF StaleSince
    <3> QED
      BY <2>2, <3>1 DEF Stale, Added
  <2>3. \A n \in Nat : n \in found["stale"] <=> n \in found["open"] /\ Stale(file[n])
    BY DEF ListsInv, Stale
  <2>4. \A n \in found["open"] : n \in 1 .. Len(file) /\ Item(file[n])
    BY DEF ListsInv, Lists
  <2>5. found["stale"] \subseteq Nat /\ found["open"] \subseteq Nat
    BY DEF ListsInv, Lists
  <2> QED
    BY <2>2, <2>3, <2>4, <2>5 DEF StaleAreOpen
<1> QED
  BY SkipInit, SkipNext, ListsInit, ListsNext, <1>1, PTL DEF Spec
--------------------------------------------------------------------------------
\* Every entry is counted for the cap, and none is later than the latest.
LogInv ==
    /\ count \in [Counters -> Nat] /\ latest \subseteq Nat
    /\ kind = "observations" =>
        /\ count["entries"] = Cardinality({n \in 1 .. Len(file) : file[n].lead = "dated"})
        /\ \A n \in 1 .. Len(file) :
               file[n].lead = "dated" /\ file[n].date.real =>
                   \E d \in latest : file[n].date.rank <= d

\* An empty log.
LEMMA LogInit == Init => LogInv
<1> SUFFICES ASSUME Init PROVE LogInv
  OBVIOUS
<1>1. /\ Len(file) = 0 /\ latest = {} /\ count = [c \in Counters |-> 0]
  BY DEF Init
<1>2. {n \in 1 .. Len(file) : file[n].lead = "dated"} = {}
  BY <1>1
<1>3. Cardinality({}) = 0
  BY FS_EmptySet
<1> QED
  BY <1>1, <1>2, <1>3 DEF LogInv, Counters

\* Counters count.
LEMMA CountsStayNumbers ==
    ASSUME count \in [Counters -> Nat], ReadActionLine
    PROVE  count' \in [Counters -> Nat]
<1>1. PICK l \in Lines["actions"] :
          count' = [count EXCEPT
              !["open"] = @ + If(Seen(l) /\ l.lead = "todo"),
              !["done"] = @ + If(Seen(l) /\ DoneSince(l)),
              !["briefOpen"] = @ + If(Seen(l) /\ BriefOpen(l)),
              !["briefHigh"] = @ + If(Seen(l) /\ Item(l) /\ l.high),
              !["doneEver"] = @ + If(Seen(l) /\ l.lead = "done"),
              !["implemented"] = @ + If(Seen(l) /\ l.lead = "done")]
  BY DEF ReadActionLine
<1> DEFINE One == {0, 1}
<1>2. /\ If(Seen(l) /\ l.lead = "todo") \in One /\ If(Seen(l) /\ DoneSince(l)) \in One
      /\ If(Seen(l) /\ BriefOpen(l)) \in One /\ If(Seen(l) /\ Item(l) /\ l.high) \in One
      /\ If(Seen(l) /\ l.lead = "done") \in One
  BY DEF If
<1> QED
  BY <1>1, <1>2 DEF Counters

\* Every line keeps the count and the latest day right.
LEMMA LogNext == SkipInv /\ LogInv /\ [Next]_vars => LogInv'
<1> SUFFICES ASSUME SkipInv, LogInv, [Next]_vars PROVE LogInv'
  OBVIOUS
<1>1. CASE UNCHANGED vars
  BY <1>1 DEF vars, LogInv
<1>2. CASE ReadActionLine
  <2>1. kind' = "actions" /\ latest' = latest
    BY <1>2 DEF ReadActionLine
  <2>2. count' \in [Counters -> Nat]
    BY <1>2, CountsStayNumbers DEF LogInv
  <2> QED
    BY <2>1, <2>2 DEF LogInv
<1>3. CASE ReadObservationLine
  <2> DEFINE D == {n \in 1 .. Len(file) : file[n].lead = "dated"}
             N == Len(file)
  <2>1. PICK l \in Lines["observations"] :
            /\ file' = Append(file, l)
            /\ count' = [count EXCEPT !["entries"] = @ + If(l.lead = "dated")]
            /\ latest' = Latest(l)
    BY <1>3 DEF ReadObservationLine
  <2>2. kind = "observations" /\ kind' = kind /\ file \in Seq(Lines["observations"])
    <3>1. kind = "observations" /\ kind' = kind
      BY <1>3 DEF ReadObservationLine
    <3> QED
      BY <3>1 DEF SkipInv
  <2>3. /\ N \in Nat /\ Len(file)' = N + 1 /\ file'[N + 1] = l
        /\ \A n \in 1 .. N : file'[n] = file[n]
        /\ file' \in Seq(Lines["observations"])
    BY <2>1, <2>2, OneMore
  <2>4. l.lead = "dated" => l.date.rank \in Nat
    <3>1. l \in ObservationLine
      BY ScanAssumption
    <3>2. l.lead = "dated" => l.date \in Date
      BY <3>1 DEF ObservationLine, Plain
    <3> QED
      BY <3>2 DEF Date
  <2>5. count' \in [Counters -> Nat]
    BY <2>1 DEF LogInv, Counters, If
  <2>6. /\ latest' \subseteq Nat
        /\ \A e \in latest : \E d \in latest' : e <= d
        /\ l.lead = "dated" /\ l.date.real => \E d \in latest' : l.date.rank <= d
    <3>1. latest \subseteq Nat
      BY DEF LogInv
    <3>2. CASE l.lead = "dated" /\ l.date.real /\ \A d \in latest : l.date.rank > d
      <4>1. latest' = {l.date.rank}
        BY <2>1, <3>2 DEF Latest
      <4> QED
        BY <2>4, <3>1, <3>2, <4>1
    <3>3. CASE ~(l.lead = "dated" /\ l.date.real /\ \A d \in latest : l.date.rank > d)
      <4>1. latest' = latest
        BY <2>1, <3>3 DEF Latest
      <4> QED
        BY <2>4, <3>1, <3>3, <4>1
    <3> QED
      BY <3>2, <3>3
  <2>7. count'["entries"] = Cardinality({n \in 1 .. Len(file)' : file'[n].lead = "dated"})
    <3>1. {n \in 1 .. Len(file)' : file'[n].lead = "dated"} =
              IF l.lead = "dated" THEN D \cup {N + 1} ELSE D
      <4>1. 1 .. N + 1 = (1 .. N) \cup {N + 1}
        BY <2>3
      <4> QED
        BY <2>3, <4>1
    <3>2. IsFiniteSet(D) /\ Cardinality(D) \in Nat /\ N + 1 \notin D
      <4>1. IsFiniteSet(1 .. N)
        BY <2>3, FS_Interval
      <4>2. IsFiniteSet(D)
        BY <4>1, FS_Subset
      <4> QED
        BY <2>3, <4>2, FS_CardinalityType
    <3>3. Cardinality(D \cup {N + 1}) = Cardinality(D) + 1
      BY <3>2, FS_AddElement
    <3>4. count["entries"] = Cardinality(D)
      BY <2>2 DEF LogInv
    <3>5. count'["entries"] = IF l.lead = "dated" THEN Cardinality(D) + 1
                             ELSE Cardinality(D)
      BY <2>1, <3>2, <3>4 DEF LogInv, Counters, If
    <3> QED
      BY <3>1, <3>3, <3>5
  <2>8. ASSUME NEW n \in 1 .. N + 1, file'[n].lead = "dated", file'[n].date.real
        PROVE  \E d \in latest' : file'[n].date.rank <= d
    <3>1. CASE n = N + 1
      BY <2>3, <2>6, <2>8, <3>1
    <3>2. CASE n # N + 1
      <4>1. n \in 1 .. N /\ file'[n] = file[n] /\ file[n].date.rank \in Nat
        BY <2>2, <2>3, <2>8, <3>2, ObservationDates
      <4>2. PICK d \in latest : file[n].date.rank <= d
        BY <2>2, <2>8, <4>1 DEF LogInv
      <4> QED
        <5>1. PICK e \in latest' : d <= e
          BY <2>6, <4>2
        <5>2. d \in Nat /\ e \in Nat
          BY <2>6, <4>2 DEF LogInv
        <5> QED
          BY <4>1, <4>2, <5>1, <5>2
    <3> QED
      BY <3>1, <3>2
  <2> QED
    BY <2>2, <2>3, <2>5, <2>6, <2>7, <2>8 DEF LogInv
<1>4. CASE ReadEntityLine
  BY <1>4 DEF ReadEntityLine, LogInv
<1> QED
  BY <1>1, <1>2, <1>3, <1>4 DEF Next

\* recent_observations lists what domain_summary counts but for what comments and
\* fences hide, and cluster_check clusters just that (observations.go:65, 202,
\* cluster.go:89).
THEOREM RecentVisible == Spec => []RecentIsVisibleOfFile
<1>1. SkipInv /\ ListsInv /\ LogInv => RecentIsVisibleOfFile
  <2> SUFFICES ASSUME SkipInv, ListsInv, LogInv, kind = "observations"
               PROVE  RecentIsVisibleOfFile
    BY DEF RecentIsVisibleOfFile
  <2>1. /\ found["recent"] \subseteq Nat /\ found["forFile"] \subseteq Nat
        /\ found["clustered"] \subseteq Nat
    BY DEF ListsInv, Lists
  <2>2. found["recent"] = {n \in found["forFile"] : Visible(n)}
    BY <2>1 DEF ListsInv
  <2>3. since # 0 => found["clustered"] = found["recent"]
    BY <2>1 DEF ListsInv, ClusterSince
  <2>4. Cardinality(found["forFile"]) <= count["entries"]
    <3> DEFINE D == {n \in 1 .. Len(file) : file[n].lead = "dated"}
    <3>1. Len(file) \in Nat
      BY DEF SkipInv
    <3>2. IsFiniteSet(1 .. Len(file))
      BY <3>1, FS_Interval
    <3>3. IsFiniteSet(D)
      BY <3>2, FS_Subset
    <3>4. found["forFile"] \subseteq D
      BY <2>1 DEF ListsInv, Entry
    <3>5. Cardinality(found["forFile"]) <= Cardinality(D)
      BY <3>3, <3>4, FS_Subset
    <3> QED
      BY <3>5 DEF LogInv
  <2> QED
    BY <2>2, <2>3, <2>4 DEF RecentIsVisibleOfFile
<1> QED
  BY SkipInit, SkipNext, ListsInit, ListsNext, LogInit, LogNext, <1>1, PTL DEF Spec

\* A domain that housekeeping_scan reports dormant has no entry in the window in
\* any other answer (housekeeping.go:315).
THEOREM DormantQuiet == Spec => []DormantMeansQuiet
<1>1. SkipInv /\ ListsInv /\ LogInv => DormantMeansQuiet
  <2> SUFFICES ASSUME SkipInv, ListsInv, LogInv, kind = "observations", Dormant,
                      NEW n \in found["recent"] \cup found["forFile"] \cup found["clustered"]
               PROVE  file[n].date.rank + DormantDays <= Today
    BY DEF DormantMeansQuiet
  <2>1. n \in Nat
    BY DEF ListsInv, Lists
  <2>2. n \in 1 .. Len(file) /\ file[n].lead = "dated" /\ file[n].date.real
    BY <2>1 DEF ListsInv, Entry
  <2>3. file[n].date.rank \in Nat
    BY <2>2, ObservationDates DEF SkipInv
  <2>4. PICK d \in latest : file[n].date.rank <= d
    BY <2>2 DEF LogInv
  <2>5. d \in Nat /\ d + DormantDays <= Today
    BY <2>4 DEF LogInv, Dormant
  <2> QED
    BY <2>3, <2>4, <2>5, ScanAssumption
<1> QED
  BY SkipInit, SkipNext, ListsInit, ListsNext, LogInit, LogNext, <1>1, PTL DEF Spec
--------------------------------------------------------------------------------
\* The types of an empty file's scanners.
LEMMA TypesInit == Init => TypeOK
<1> SUFFICES ASSUME Init PROVE TypeOK
  OBVIOUS
<1>1. file = <<>> /\ Len(file) = 0 /\ latest = {} /\ {} \in Optional(Nat)
  BY DEF Init, Optional
<1>2. byTag \in [Word -> [entries : Nat, days : SUBSET Nat]]
  BY DEF Init
<1> QED
  BY <1>1, <1>2 DEF Init, TypeOK, Lists, Counters

\* Every line keeps the types.
LEMMA TypesNext == TypeOK /\ [Next]_vars => TypeOK'
<1> SUFFICES ASSUME TypeOK, [Next]_vars PROVE TypeOK'
  OBVIOUS
<1> USE DEF TypeOK
<1>1. CASE UNCHANGED vars
  BY <1>1 DEF vars
<1>2. ASSUME NEW l \in Lines[kind], kind' = kind, file' = Append(file, l)
      PROVE  /\ file' \in Seq(Lines[kind])' /\ Here \in 1 .. Len(file)'
             /\ 1 .. Len(file) \subseteq 1 .. Len(file)'
  <2>1. Len(file) \in Nat /\ Len(file)' = Len(file) + 1 /\ file' \in Seq(Lines[kind])
    BY <1>2, OneMore
  <2> QED
    BY <1>2, <2>1 DEF Here
<1>3. ASSUME NEW l, skip' = SkipAfter(skip, l)
      PROVE  skip' \in [comment : BOOLEAN, fence : BOOLEAN]
  BY <1>3 DEF SkipAfter
<1>4. CASE ReadActionLine
  <2>1. PICK l \in Lines[kind] :
            /\ file' = Append(file, l) /\ skip' = SkipAfter(skip, l)
            /\ found' = [found EXCEPT
                   !["open"] = @ \cup {n \in {Here} : Seen(l) /\ Item(l)},
                   !["stale"] = @ \cup {n \in {Here} : Seen(l) /\ Stale(l)}]
    BY <1>4 DEF ReadActionLine
  <2>2. /\ kind' = kind /\ since' = since /\ midnight' = midnight
        /\ latest' = latest /\ byTag' = byTag
    BY <1>4 DEF ReadActionLine
  <2>3. count' \in [Counters -> Nat]
    BY <1>4, CountsStayNumbers
  <2>4. found' \in [Lists -> SUBSET (1 .. Len(file)')]
    BY <1>2, <2>1, <2>2 DEF Lists
  <2> QED
    BY <1>2, <1>3, <2>1, <2>2, <2>3, <2>4
<1>5. CASE ReadObservationLine
  <2>1. PICK l \in Lines[kind] :
            /\ file' = Append(file, l) /\ skip' = SkipAfter(skip, l)
            /\ found' = [found EXCEPT
                   !["recent"] = @ \cup {n \in {Here} : ListsRecent(l)},
                   !["forFile"] = @ \cup {n \in {Here} : Entry(l) /\ l.date.rank >= since},
                   !["clustered"] = @ \cup {n \in {Here} : Clustered(l)}]
            /\ count' = [count EXCEPT !["entries"] = @ + If(l.lead = "dated")]
            /\ latest' = Latest(l)
            /\ byTag' = IF Clustered(l) THEN [w \in Word |-> Tally(w, byTag[w], l)]
                        ELSE byTag
    BY <1>5 DEF ReadObservationLine
  <2>2. kind' = kind /\ since' = since /\ midnight' = midnight
    BY <1>5 DEF ReadObservationLine
  <2>3. l.lead = "dated" => l.date.rank \in Nat
    <3>1. kind = "observations"
      BY <1>5 DEF ReadObservationLine
    <3>2. l \in ObservationLine
      BY <3>1, ScanAssumption
    <3>3. l.lead = "dated" => l.date \in Date
      BY <3>2 DEF ObservationLine, Plain
    <3> QED
      BY <3>3 DEF Date
  <2>4. count' \in [Counters -> Nat]
    BY <2>1 DEF Counters, If
  <2>5. latest' \in Optional(Nat)
    <3>1. l.lead = "dated" => {l.date.rank} \in Optional(Nat)
      BY <2>3 DEF Optional
    <3> QED
      BY <2>1, <3>1 DEF Latest
  <2>6. byTag' \in [Word -> [entries : Nat, days : SUBSET Nat]]
    <3>1. CASE Clustered(l)
      <4>1. ASSUME NEW w \in Word
            PROVE  Tally(w, byTag[w], l) \in [entries : Nat, days : SUBSET Nat]
        <5>1. byTag[w] \in [entries : Nat, days : SUBSET Nat]
          OBVIOUS
        <5>2. l.date.rank \in Nat
          BY <2>3, <3>1 DEF Clustered, Entry
        <5> QED
          BY <5>1, <5>2 DEF Tally
      <4> QED
        BY <2>1, <3>1, <4>1
    <3> QED
      BY <2>1, <3>1
  <2>7. found' \in [Lists -> SUBSET (1 .. Len(file)')]
    BY <1>2, <2>1, <2>2 DEF Lists
  <2> QED
    BY <1>2, <1>3, <2>1, <2>2, <2>4, <2>5, <2>6, <2>7
<1>6. CASE ReadEntityLine
  <2>1. PICK l \in Lines[kind] :
            /\ file' = Append(file, l)
            /\ \E A \in SUBSET {Here} : found' = [found EXCEPT !["past"] = @ \cup A]
    BY <1>6 DEF ReadEntityLine
  <2>2. /\ kind' = kind /\ since' = since /\ midnight' = midnight
        /\ skip' = skip /\ count' = count /\ latest' = latest /\ byTag' = byTag
    BY <1>6 DEF ReadEntityLine
  <2>3. found' \in [Lists -> SUBSET (1 .. Len(file)')]
    BY <1>2, <2>1, <2>2 DEF Lists
  <2> QED
    BY <1>2, <2>1, <2>2, <2>3
<1> QED
  BY <1>1, <1>4, <1>5, <1>6 DEF Next

\* Types of the scanners' variables, for lines and files of any number.
THEOREM ScannersTyped == Spec => []TypeOK
  BY TypesInit, TypesNext, PTL DEF Spec
--------------------------------------------------------------------------------
\* Some of the lines so far, and one more.
LEMMA CountLines ==
    ASSUME NEW N \in Nat, NEW D \in SUBSET (1 .. N)
    PROVE  /\ IsFiniteSet(D) /\ Cardinality(D) \in Nat
           /\ Cardinality(D \cup {N + 1}) = Cardinality(D) + 1
<1>1. IsFiniteSet(1 .. N)
  BY FS_Interval
<1>2. IsFiniteSet(D)
  BY <1>1, FS_Subset
<1>3. N + 1 \notin D
  OBVIOUS
<1> QED
  BY <1>2, <1>3, FS_CardinalityType, FS_AddElement

\* What one more line, h, of an action list does to what is visible.
LEMMA ActionLineRead ==
    ASSUME SkipInv, kind = "actions", NEW l \in Lines["actions"], file' = Append(file, l),
           NEW h \in Nat, h = Len(file) + 1
    PROVE  /\ Len(file) \in Nat /\ Len(file)' = h /\ file'[h] = l
           /\ 1 .. h = (1 .. Len(file)) \cup {h}
           /\ \A n \in 1 .. Len(file) : file'[n] = file[n] /\ (Visible(n)' <=> Visible(n))
           /\ Visible(h)' <=> Seen(l)
<1>1. /\ file \in Seq(Lines["actions"])
      /\ skip.comment <=> InComment(Len(file))
      /\ skip.fence <=> InFence(Len(file))
  BY DEF SkipInv, SkipMatchesReference
<1>2. /\ Len(file) \in Nat /\ Len(file)' = h /\ file'[h] = l
      /\ \A n \in 1 .. Len(file) : file'[n] = file[n] /\ (Visible(n)' <=> Visible(n))
  BY <1>1, OneMore, VisibleBefore
<1>3. Visible(h)' <=> Seen(l)
  BY <1>1, VisibleNew
<1> QED
  BY <1>2, <1>3

\* The open items that are neither commented out nor fenced off, and the urgent
\* ones of those that have a text.
Todos == {n \in 1 .. Len(file) : Visible(n) /\ file[n].lead = "todo"}
Urgent == {n \in 1 .. Len(file) : Visible(n) /\ Item(file[n]) /\ file[n].high}

\* What the counters of the action scanners count.
TallyInv ==
    /\ count \in [Counters -> Nat]
    /\ kind = "actions" =>
        /\ count["open"] = Cardinality(Todos) /\ count["briefOpen"] = count["open"]
        /\ count["briefHigh"] = Cardinality(Urgent)
        /\ count["doneEver"] = count["implemented"] /\ count["done"] <= count["doneEver"]
        /\ since = 0 => count["done"] = count["doneEver"]

\* Nothing is counted in an empty list.
LEMMA TallyInit == Init => TallyInv
<1> SUFFICES ASSUME Init PROVE TallyInv
  OBVIOUS
<1>1. Len(file) = 0 /\ count = [c \in Counters |-> 0]
  BY DEF Init
<1>2. Todos = {} /\ Urgent = {}
  BY <1>1 DEF Todos, Urgent
<1>3. Cardinality({}) = 0
  BY FS_EmptySet
<1> QED
  BY <1>1, <1>2, <1>3 DEF TallyInv, Counters

\* Every line is counted by those who should.
LEMMA TallyNext == SkipInv /\ TallyInv /\ [Next]_vars => TallyInv'
<1> SUFFICES ASSUME SkipInv, TallyInv, [Next]_vars PROVE TallyInv'
  OBVIOUS
<1>1. CASE UNCHANGED vars
  <2>1. kind' = kind /\ file' = file /\ count' = count /\ since' = since
    BY <1>1 DEF vars
  <2>2. Todos' = Todos /\ Urgent' = Urgent
    BY <2>1 DEF Todos, Urgent, Visible, InComment, InFence, Fences, Item
  <2> QED
    BY <2>1, <2>2 DEF TallyInv
<1>2. CASE ReadActionLine
  <2>1. PICK l \in Lines["actions"] :
            /\ file' = Append(file, l)
            /\ count' = [count EXCEPT
                   !["open"] = @ + If(Seen(l) /\ l.lead = "todo"),
                   !["done"] = @ + If(Seen(l) /\ DoneSince(l)),
                   !["briefOpen"] = @ + If(Seen(l) /\ BriefOpen(l)),
                   !["briefHigh"] = @ + If(Seen(l) /\ Item(l) /\ l.high),
                   !["doneEver"] = @ + If(Seen(l) /\ l.lead = "done"),
                   !["implemented"] = @ + If(Seen(l) /\ l.lead = "done")]
    BY <1>2 DEF ReadActionLine
  <2>2. kind = "actions" /\ kind' = kind /\ since' = since
    BY <1>2 DEF ReadActionLine
  <2>3. Len(file) \in Nat
    BY DEF SkipInv
  <2> DEFINE N == Len(file)
  <2>4. PICK h \in Nat : h = Len(file) + 1
    BY <2>3
  <2>5. /\ Len(file)' = h /\ file'[h] = l /\ 1 .. h = (1 .. N) \cup {h}
        /\ \A n \in 1 .. N : file'[n] = file[n] /\ (Visible(n)' <=> Visible(n))
        /\ Visible(h)' <=> Seen(l)
    BY <2>1, <2>2, <2>4, ActionLineRead
  <2>6. Todos' = IF Seen(l) /\ l.lead = "todo" THEN Todos \cup {h} ELSE Todos
    <3>1. Todos' = {n \in 1 .. h : Visible(n)' /\ file'[n].lead = "todo"}
      BY <2>5 DEF Todos
    <3> QED
      BY <2>5, <3>1 DEF Todos
  <2>7. Urgent' = IF Seen(l) /\ Item(l) /\ l.high THEN Urgent \cup {h} ELSE Urgent
    <3>1. Urgent' = {n \in 1 .. h : Visible(n)' /\ Item(file'[n]) /\ file'[n].high}
      BY <2>5 DEF Urgent, Item
    <3> QED
      BY <2>5, <3>1 DEF Urgent
  <2>8. /\ Cardinality(Todos) \in Nat /\ Cardinality(Urgent) \in Nat
        /\ Cardinality(Todos \cup {h}) = Cardinality(Todos) + 1
        /\ Cardinality(Urgent \cup {h}) = Cardinality(Urgent) + 1
    <3>1. Todos \in SUBSET (1 .. N) /\ Urgent \in SUBSET (1 .. N)
      BY DEF Todos, Urgent
    <3> QED
      BY <2>3, <2>4, <3>1, CountLines
  <2>9. count' \in [Counters -> Nat]
    BY <1>2, CountsStayNumbers DEF TallyInv
  <2>10. /\ count'["open"] = count["open"] + If(Seen(l) /\ l.lead = "todo")
         /\ count'["briefOpen"] = count["briefOpen"] + If(Seen(l) /\ l.lead = "todo")
         /\ count'["briefHigh"] = count["briefHigh"] + If(Seen(l) /\ Item(l) /\ l.high)
         /\ count'["done"] = count["done"] + If(Seen(l) /\ DoneSince(l))
         /\ count'["doneEver"] = count["doneEver"] + If(Seen(l) /\ l.lead = "done")
         /\ count'["implemented"] = count["implemented"] + If(Seen(l) /\ l.lead = "done")
    BY <2>1 DEF TallyInv, Counters, BriefOpen
  <2>11. /\ If(Seen(l) /\ DoneSince(l)) <= If(Seen(l) /\ l.lead = "done")
         /\ since = 0 => If(Seen(l) /\ DoneSince(l)) = If(Seen(l) /\ l.lead = "done")
         /\ If(Seen(l) /\ DoneSince(l)) \in 0 .. 1 /\ If(Seen(l) /\ l.lead = "done") \in 0 .. 1
    BY DEF If, DoneSince
  <2>12. count["done"] \in Nat /\ count["doneEver"] \in Nat
    BY DEF TallyInv, Counters
  <2>13. /\ count["open"] = Cardinality(Todos) /\ count["briefOpen"] = count["open"]
         /\ count["briefHigh"] = Cardinality(Urgent)
         /\ count["doneEver"] = count["implemented"] /\ count["done"] <= count["doneEver"]
         /\ since = 0 => count["done"] = count["doneEver"]
    BY <2>2 DEF TallyInv
  <2>14. /\ count'["open"] = Cardinality(Todos') /\ count'["briefOpen"] = count'["open"]
         /\ count'["briefHigh"] = Cardinality(Urgent')
    BY <2>6, <2>7, <2>8, <2>10, <2>13 DEF If
  <2>15. /\ count'["doneEver"] = count'["implemented"] /\ count'["done"] <= count'["doneEver"]
         /\ since' = 0 => count'["done"] = count'["doneEver"]
    BY <2>2, <2>10, <2>11, <2>12, <2>13
  <2> QED
    BY <2>9, <2>14, <2>15 DEF TallyInv
<1>3. CASE ReadObservationLine
  <2>1. kind' = "observations" /\ count' \in [Counters -> Nat]
    BY <1>3 DEF ReadObservationLine, TallyInv, Counters, If
  <2> QED
    BY <2>1 DEF TallyInv
<1>4. CASE ReadEntityLine
  BY <1>4 DEF ReadEntityLine, TallyInv
<1> QED
  BY <1>1, <1>2, <1>3, <1>4 DEF Next

\* session_brief, domain_summary and open_actions count the same open items but for
\* those without text, and a since date only removes completed ones (store.go:699,
\* 817, session_brief.go:170, housekeeping.go:357).
THEOREM CountersAgree == Spec => []CountsAgree
<1>1. SkipInv /\ ListsInv /\ TallyInv => CountsAgree
  <2> SUFFICES ASSUME SkipInv, ListsInv, TallyInv, kind = "actions" PROVE CountsAgree
    BY DEF CountsAgree
  <2> DEFINE N == Len(file)
             Open == found["open"]
             Bare == Marked(LAMBDA l : l.lead = "todo" /\ ~l.named)
  <2>1. N \in Nat
    BY DEF SkipInv
  <2>2. Open = {n \in 1 .. N : Visible(n) /\ file[n].lead = "todo" /\ file[n].named}
    <3>1. Open \subseteq Nat
      BY DEF ListsInv, Lists
    <3>2. \A n \in Nat : n \in Open <=> n \in 1 .. N /\ Visible(n) /\ Item(file[n])
      BY DEF ListsInv
    <3> QED
      BY <2>1, <3>1, <3>2 DEF Item
  <2>3. Bare = {n \in 1 .. N : Visible(n) /\ file[n].lead = "todo" /\ ~file[n].named}
    BY DEF Marked
  <2> HIDE DEF Bare, Open
  <2>4. Todos = Open \cup Bare /\ Open \cap Bare = {} /\ Urgent \subseteq Open
    BY <2>2, <2>3 DEF Todos, Urgent, Item
  <2>5. /\ IsFiniteSet(Open) /\ Cardinality(Open) \in Nat
        /\ IsFiniteSet(Bare) /\ Cardinality(Bare) \in Nat
    <3>1. Open \in SUBSET (1 .. N) /\ Bare \in SUBSET (1 .. N)
      BY <2>2, <2>3
    <3> QED
      BY <2>1, <3>1, CountLines
  <2>6. Cardinality(Open \cup Bare) = Cardinality(Open) + Cardinality(Bare)
    <3>1. Cardinality(Open \cap Bare) = 0
      BY <2>4, FS_EmptySet
    <3>2. Cardinality(Open \cup Bare)
              = Cardinality(Open) + Cardinality(Bare) - Cardinality(Open \cap Bare)
      BY <2>5, FS_Union
    <3> QED
      BY <2>5, <3>1, <3>2
  <2>7. Cardinality(Urgent) <= Cardinality(Open)
    BY <2>4, <2>5, FS_Subset
  <2> QED
    BY <2>4, <2>6, <2>7 DEF CountsAgree, TallyInv, Open, Bare
<1> QED
  BY SkipInit, SkipNext, ListsInit, ListsNext, TallyInit, TallyNext, <1>1, PTL DEF Spec
--------------------------------------------------------------------------------
\* The entries in the window that mention a word.
Mentioning(w) == {n \in found["clustered"] : Mentions(file[n], w)}

\* What cluster_check has collected for each word.
ClusterInv ==
    kind = "observations" => \A w \in Word :
        /\ byTag[w].entries = Cardinality(Mentioning(w))
        /\ byTag[w].days = {file[n].date.rank : n \in Mentioning(w)}

\* Nothing is collected from an empty log.
LEMMA ClusterInit == Init => ClusterInv
<1> SUFFICES ASSUME Init PROVE ClusterInv
  OBVIOUS
<1>1. found["clustered"] = {} /\ byTag = [w \in Word |-> [entries |-> 0, days |-> {}]]
  BY DEF Init, Lists
<1>2. \A w : Mentioning(w) = {}
  BY <1>1 DEF Mentioning
<1>3. Cardinality({}) = 0
  BY FS_EmptySet
<1>4. \A w \in Word : byTag[w].entries = 0 /\ byTag[w].days = {}
  BY <1>1
<1> QED
  BY <1>2, <1>3, <1>4 DEF ClusterInv

\* Every line adds one entry, and its day, to each word that it mentions.
LEMMA ClusterNext == TypeOK /\ ClusterInv /\ [Next]_vars => ClusterInv'
<1> SUFFICES ASSUME TypeOK, ClusterInv, [Next]_vars PROVE ClusterInv'
  OBVIOUS
<1>1. CASE UNCHANGED vars
  BY <1>1 DEF vars, ClusterInv, Mentioning, Mentions
<1>2. CASE ReadActionLine
  BY <1>2 DEF ReadActionLine, ClusterInv
<1>3. CASE ReadObservationLine
  <2> DEFINE N == Len(file)
  <2>1. PICK l \in Lines["observations"] :
            /\ file' = Append(file, l)
            /\ found' = [found EXCEPT
                   !["recent"] = @ \cup {n \in {Here} : ListsRecent(l)},
                   !["forFile"] = @ \cup {n \in {Here} : Entry(l) /\ l.date.rank >= since},
                   !["clustered"] = @ \cup {n \in {Here} : Clustered(l)}]
            /\ byTag' = IF Clustered(l) THEN [w \in Word |-> Tally(w, byTag[w], l)] ELSE byTag
    BY <1>3 DEF ReadObservationLine
  <2>2. kind = "observations" /\ kind' = kind
    BY <1>3 DEF ReadObservationLine
  <2>3. /\ N \in Nat /\ Len(file)' = N + 1 /\ file'[N + 1] = l
        /\ \A n \in 1 .. N : file'[n] = file[n]
    BY <2>1, <2>2, OneMore DEF TypeOK
  <2>4. found'["clustered"] = found["clustered"] \cup {n \in {N + 1} : Clustered(l)}
    BY <2>1 DEF TypeOK, Lists, Here
  <2>5. found["clustered"] \subseteq 1 .. N
    BY DEF TypeOK, Lists
  <2> SUFFICES ASSUME NEW w \in Word
               PROVE  /\ byTag'[w].entries = Cardinality(Mentioning(w)')
                      /\ byTag'[w].days = {file'[n].date.rank : n \in Mentioning(w)'}
    BY DEF ClusterInv
  <2>6. /\ byTag[w].entries = Cardinality(Mentioning(w))
        /\ byTag[w].days = {file[n].date.rank : n \in Mentioning(w)}
    BY <2>2 DEF ClusterInv
  <2>7. Mentioning(w) \subseteq 1 .. N
    BY <2>5 DEF Mentioning
  <2>8. Mentioning(w)' = IF Clustered(l) /\ Mentions(l, w)
                         THEN Mentioning(w) \cup {N + 1} ELSE Mentioning(w)
    <3>1. Mentioning(w)' = {n \in found'["clustered"] : Mentions(file'[n], w)}
      BY DEF Mentioning, Mentions
    <3> QED
      BY <2>3, <2>4, <2>5, <3>1 DEF Mentioning
  <2>9. byTag'[w] = IF Clustered(l) THEN Tally(w, byTag[w], l) ELSE byTag[w]
    BY <2>1
  <2>10. CASE Clustered(l) /\ Mentions(l, w)
    <3>1. byTag'[w] = [entries |-> byTag[w].entries + 1,
                       days |-> byTag[w].days \cup {l.date.rank}]
      BY <2>9, <2>10 DEF Tally
    <3>2. Cardinality(Mentioning(w) \cup {N + 1}) = Cardinality(Mentioning(w)) + 1
      BY <2>3, <2>7, CountLines
    <3>3. {file'[n].date.rank : n \in Mentioning(w) \cup {N + 1}}
              = {file[n].date.rank : n \in Mentioning(w)} \cup {l.date.rank}
      BY <2>3, <2>7
    <3>4. Mentioning(w)' = Mentioning(w) \cup {N + 1}
      BY <2>8, <2>10
    <3>5. {file'[n].date.rank : n \in Mentioning(w)'}
              = {file[n].date.rank : n \in Mentioning(w)} \cup {l.date.rank}
      BY <3>3, <3>4
    <3> QED
      BY <2>6, <3>1, <3>2, <3>4, <3>5
  <2>11. CASE ~(Clustered(l) /\ Mentions(l, w))
    <3>1. byTag'[w] = byTag[w] /\ Mentioning(w)' = Mentioning(w)
      BY <2>8, <2>9, <2>11 DEF Tally
    <3>2. {file'[n].date.rank : n \in Mentioning(w)} = {file[n].date.rank : n \in Mentioning(w)}
      BY <2>3, <2>7
    <3> QED
      BY <2>6, <3>1, <3>2
  <2> QED
    BY <2>10, <2>11
<1>4. CASE ReadEntityLine
  BY <1>4 DEF ReadEntityLine, ClusterInv
<1> QED
  BY <1>1, <1>2, <1>3, <1>4 DEF Next

\* A tag of cluster_check is a cluster when enough entries of its window mention it,
\* and a thread when two of them are far enough apart (cluster.go:89, 253, 319).
THEOREM ClustersOfEntries == Spec => []ClustersCountEntries
<1>1. TypeOK /\ ListsInv /\ ClusterInv => ClustersCountEntries
  <2> SUFFICES ASSUME TypeOK, ListsInv, ClusterInv, kind = "observations"
               PROVE  ClustersCountEntries
    BY DEF ClustersCountEntries
  <2>1. ASSUME NEW w \in Word
        PROVE  /\ byTag[w].entries = Cardinality(Mentioning(w))
               /\ byTag[w].days = {file[n].date.rank : n \in Mentioning(w)}
    BY DEF ClusterInv
  <2>2. ASSUME NEW w \in Word
        PROVE  (\E d, e \in byTag[w].days : (e - d) + 1 >= SpanDays) <=>
                   \E m, n \in Mentioning(w) :
                       file[m].date.rank >= file[n].date.rank + (SpanDays - 1)
    <3>1. \A n \in Mentioning(w) : file[n].date.rank \in Nat
      <4> TAKE n \in Mentioning(w)
      <4>1. n \in 1 .. Len(file) /\ file[n].lead = "dated"
        BY DEF Mentioning, ListsInv, Lists, Entry
      <4> QED
        BY <4>1, ObservationDates DEF TypeOK
    <3>2. (\E d, e \in byTag[w].days : (e - d) + 1 >= SpanDays) <=>
              \E m, n \in Mentioning(w) :
                  (file[m].date.rank - file[n].date.rank) + 1 >= SpanDays
      BY <2>1
    <3> QED
      BY <3>1, <3>2, ScanAssumption
  <2>3. TagClusters = {w \in Word : Cardinality(Mentioning(w)) >= MinClusterSize}
    BY <2>1 DEF TagClusters
  <2>4. Threads = {w \in TagClusters : \E m, n \in Mentioning(w) :
                      file[m].date.rank >= file[n].date.rank + (SpanDays - 1)}
    BY <2>2 DEF Threads, TagClusters
  <2> QED
    BY <2>3, <2>4 DEF ClustersCountEntries, Mentioning
<1> QED
  BY SkipInit, SkipNext, ListsInit, ListsNext, TypesInit, TypesNext, ClusterInit,
     ClusterNext, <1>1, PTL DEF Spec
--------------------------------------------------------------------------------
\* The entities of the lines so far, and what a field of one of them says.
Headings == {n \in 1 .. Len(file) : file[n].lead = "heading"}
Telling(x, f) == {n \in FactsOf(x) : /\ file[n][f] # {}
                                     /\ \A k \in FactsOf(x) : k > n => file[k][f] = {}}
Value(x, f) == UNION {file[n][f] : n \in Telling(x, f)}

\* A fact of an entity list has both fields.
LEMMA FactFields ==
    ASSUME NEW l \in Lines["entities"], l.lead = "fact"
    PROVE  l.status \in Optional({"active", "inactive"}) /\ l.last \in Optional(Date)
<1>1. l \in EntityLine
  BY ScanAssumption
<1> QED
  BY <1>1 DEF EntityLine

\* What one more line, h, does to the facts of the entities so far: a fact is one of
\* the last entity.
LEMMA FactsRead ==
    ASSUME NEW S, file \in Seq(S), NEW l \in S, file' = Append(file, l),
           NEW h \in Nat, h = Len(file) + 1
    PROVE  /\ \A x \in 1 .. Len(file) :
                  FactsOf(x)' = IF l.lead = "fact"
                                   /\ \A m \in x + 1 .. Len(file) : file[m].lead # "heading"
                                THEN FactsOf(x) \cup {h} ELSE FactsOf(x)
           /\ FactsOf(h)' = {}
<1> DEFINE N == Len(file)
<1>1. /\ N \in Nat /\ Len(file)' = h /\ file'[h] = l
      /\ \A k \in 1 .. N : file'[k] = file[k]
  BY OneMore
<1>2. ASSUME NEW x \in 1 .. N
      PROVE  FactsOf(x)' = IF l.lead = "fact"
                              /\ \A m \in x + 1 .. N : file[m].lead # "heading"
                           THEN FactsOf(x) \cup {h} ELSE FactsOf(x)
  <2>1. FactsOf(x)' = {n \in x + 1 .. h : /\ file'[n].lead = "fact"
                                          /\ \A m \in x + 1 .. n : file'[m].lead # "heading"}
    BY <1>1 DEF FactsOf, BodyOf
  <2>2. x + 1 .. h = (x + 1 .. N) \cup {h}
    BY <1>1
  <2>3. ASSUME NEW n \in x + 1 .. N
        PROVE  (n \in FactsOf(x)') <=> n \in FactsOf(x)
    <3>1. \A m \in x + 1 .. n : file'[m] = file[m]
      BY <1>1
    <3> QED
      BY <1>1, <2>1, <2>2, <3>1 DEF FactsOf, BodyOf
  <2>4. h \in FactsOf(x)' <=>
            l.lead = "fact" /\ \A m \in x + 1 .. N : file[m].lead # "heading"
    <3>1. \A m \in x + 1 .. N : file'[m] = file[m]
      BY <1>1
    <3> QED
      BY <1>1, <2>1, <2>2, <3>1
  <2>5. FactsOf(x) \subseteq x + 1 .. N /\ FactsOf(x)' \subseteq (x + 1 .. N) \cup {h}
    BY <2>1, <2>2 DEF FactsOf, BodyOf
  <2> DEFINE new == l.lead = "fact" /\ \A m \in x + 1 .. N : file[m].lead # "heading"
  <2>6. CASE new
    <3>1. h \in FactsOf(x)'
      BY <2>4, <2>6
    <3> QED
      BY <2>3, <2>5, <2>6, <3>1
  <2>7. CASE ~new
    <3>1. h \notin FactsOf(x)'
      BY <2>4, <2>7
    <3>2. FactsOf(x)' = FactsOf(x)
      BY <2>3, <2>5, <3>1
    <3> QED
      BY <2>7, <3>2
  <2> QED
    BY <2>6, <2>7
<1>3. FactsOf(h)' = {}
  <2>1. FactsOf(h)' = {n \in h + 1 .. h : /\ file'[n].lead = "fact"
                                          /\ \A m \in h + 1 .. n : file'[m].lead # "heading"}
    BY <1>1 DEF FactsOf, BodyOf
  <2> QED
    BY <2>1
<1> QED
  BY <1>2, <1>3

\* A field keeps its value unless a new fact of the entity has one.
LEMMA ValueRead ==
    ASSUME NEW S, file \in Seq(S), NEW l \in S, file' = Append(file, l),
           NEW h \in Nat, h = Len(file) + 1, NEW x \in 1 .. Len(file), NEW f
    PROVE  /\ FactsOf(x)' = FactsOf(x) => Value(x, f)' = Value(x, f)
           /\ FactsOf(x)' = FactsOf(x) \cup {h} =>
                  Value(x, f)' = IF l[f] = {} THEN Value(x, f) ELSE l[f]
<1> DEFINE N == Len(file)
<1>1. N \in Nat /\ file'[h] = l /\ \A k \in 1 .. N : file'[k] = file[k]
  BY OneMore
<1>2. FactsOf(x) \subseteq 1 .. N
  BY <1>1 DEF FactsOf, BodyOf
<1>3. /\ Telling(x, f)' = {n \in FactsOf(x)' : /\ file'[n][f] # {}
                                 /\ \A k \in FactsOf(x)' : k > n => file'[k][f] = {}}
      /\ Value(x, f)' = UNION {file'[n][f] : n \in Telling(x, f)'}
  BY DEF Telling, Value
<1>4. \A n \in FactsOf(x) : file'[n] = file[n] /\ n < h /\ n # h
  BY <1>1, <1>2
<1>5. Telling(x, f) \subseteq FactsOf(x)
  BY DEF Telling
<1>6. {file'[n][f] : n \in Telling(x, f)} = {file[n][f] : n \in Telling(x, f)}
  BY <1>4, <1>5
<1>7. ASSUME FactsOf(x)' = FactsOf(x) PROVE Value(x, f)' = Value(x, f)
  <2>1. Telling(x, f)' = Telling(x, f)
    BY <1>3, <1>4, <1>7 DEF Telling
  <2> QED
    BY <1>3, <1>6, <2>1 DEF Value
<1>8. ASSUME FactsOf(x)' = FactsOf(x) \cup {h}
      PROVE  Value(x, f)' = IF l[f] = {} THEN Value(x, f) ELSE l[f]
  <2>1. \A n \in FactsOf(x) : n \in Nat /\ ~(h > n => FALSE) /\ ~(n > h)
    BY <1>1, <1>2, <1>4
  <2>2. CASE l[f] = {}
    <3>1. Telling(x, f)' = Telling(x, f)
      BY <1>1, <1>3, <1>4, <1>8, <2>1, <2>2 DEF Telling
    <3> QED
      BY <1>3, <1>6, <2>2, <3>1 DEF Value
  <2>3. CASE l[f] # {}
    <3>1. Telling(x, f)' = {h}
      BY <1>1, <1>3, <1>4, <1>8, <2>1, <2>3
    <3>2. Value(x, f)' = UNION {file'[n][f] : n \in {h}}
      BY <1>3, <3>1
    <3> QED
      BY <1>1, <2>3, <3>2
  <2> QED
    BY <2>2, <2>3
<1> QED
  BY <1>7, <1>8

\* A block of entity_audit holds what its entity says, and each entity has a block.
Block == [start : Nat, lines : Nat, status : Optional({"active", "inactive"}),
          last : Optional(Date)]

BlocksInv ==
    /\ blocks \in Seq(Block)
    /\ kind = "entities" =>
        /\ \A i \in 1 .. Len(blocks) :
               /\ blocks[i].start \in Headings
               /\ blocks[i].lines = 1 + Cardinality(FactsOf(blocks[i].start))
               /\ blocks[i].status = Value(blocks[i].start, "status")
               /\ blocks[i].last = Value(blocks[i].start, "last")
        /\ \A i, j \in 1 .. Len(blocks) : i < j => blocks[i].start < blocks[j].start
        /\ \A n \in Headings : \E i \in 1 .. Len(blocks) : blocks[i].start = n
        /\ \A n \in found["past"] : n \in 1 .. Len(file)
        /\ \A n \in 1 .. Len(file) :
               n \in found["past"] <=>
                   file[n].past /\ \E i \in 1 .. Len(blocks) : n \in FactsOf(blocks[i].start)

\* The facts of an entity after a line that is none of them.
LEMMA BlockKept ==
    ASSUME NEW S, file \in Seq(S), NEW l \in S, file' = Append(file, l),
           NEW x \in Headings, FactsOf(x)' = FactsOf(x)
    PROVE  /\ x \in Headings' /\ Value(x, "status")' = Value(x, "status")
           /\ Value(x, "last")' = Value(x, "last")
<1>1. Len(file) \in Nat /\ Len(file)' = Len(file) + 1 /\ x \in 1 .. Len(file)
  BY OneMore DEF Headings
<1>2. file'[x] = file[x]
  BY <1>1, OneMore
<1>3. PICK h \in Nat : h = Len(file) + 1
  BY <1>1
<1> QED
  BY <1>1, <1>2, <1>3, ValueRead DEF Headings

\* No block in an empty file.
LEMMA BlocksInit == Init => BlocksInv
<1> SUFFICES ASSUME Init PROVE BlocksInv
  OBVIOUS
<1>1. blocks = <<>> /\ Len(blocks) = 0 /\ file = <<>> /\ Len(file) = 0
  BY DEF Init
<1>2. found["past"] = {} /\ Headings = {} /\ blocks \in Seq(Block)
  BY <1>1 DEF Init, Lists, Headings
<1> QED
  BY <1>1, <1>2 DEF BlocksInv

\* A heading opens an entity without facts.
LEMMA HeadingRead ==
    ASSUME SkipInv, BlocksInv, kind = "entities", NEW l \in Lines["entities"],
           l.lead = "heading", file' = Append(file, l), kind' = kind,
           blocks' = Append(blocks, NewBlock(Here)), found'["past"] = found["past"]
    PROVE  BlocksInv'
<1> DEFINE N == Len(file)
           K == Len(blocks)
<1>1. file \in Seq(Lines["entities"]) /\ N \in Nat /\ blocks \in Seq(Block) /\ K \in Nat
  BY DEF SkipInv, BlocksInv
<1>2. PICK h \in Nat : h = Len(file) + 1
  BY <1>1
<1>3. Len(file)' = h /\ file'[h] = l /\ \A n \in 1 .. N : file'[n] = file[n]
  BY <1>1, <1>2, OneMore
<1>4. /\ \A x \in 1 .. N : FactsOf(x)' = FactsOf(x)
      /\ FactsOf(h)' = {}
  BY <1>1, <1>2, FactsRead
<1>5. Headings' = Headings \cup {h} /\ Headings \subseteq 1 .. N
  <2>1. Headings' = {n \in 1 .. h : file'[n].lead = "heading"} /\ 1 .. h = (1 .. N) \cup {h}
    BY <1>1, <1>2, <1>3 DEF Headings
  <2> QED
    BY <1>3, <2>1 DEF Headings
<1>6. /\ Len(blocks)' = K + 1 /\ \A i \in 1 .. K : blocks'[i] = blocks[i]
      /\ blocks'[K + 1] = [start |-> h, lines |-> 1, status |-> {}, last |-> {}]
      /\ 1 .. K + 1 = (1 .. K) \cup {K + 1}
  BY <1>1, <1>2 DEF NewBlock, Here
<1>7. blocks' \in Seq(Block)
  <2>1. NewBlock(Here) \in Block
    BY <1>2 DEF NewBlock, Here, Block, Optional
  <2> QED
    BY <1>1, <2>1
<1>8. /\ \A i \in 1 .. K :
             /\ blocks[i].start \in Headings
             /\ blocks[i].lines = 1 + Cardinality(FactsOf(blocks[i].start))
             /\ blocks[i].status = Value(blocks[i].start, "status")
             /\ blocks[i].last = Value(blocks[i].start, "last")
      /\ \A i, j \in 1 .. K : i < j => blocks[i].start < blocks[j].start
      /\ \A n \in Headings : \E i \in 1 .. K : blocks[i].start = n
      /\ \A n \in found["past"] : n \in 1 .. N
      /\ \A n \in 1 .. N :
             n \in found["past"] <=>
                 file[n].past /\ \E i \in 1 .. K : n \in FactsOf(blocks[i].start)
  BY DEF BlocksInv
<1>9. ASSUME NEW i \in 1 .. K + 1
      PROVE  /\ blocks'[i].start \in Headings'
             /\ blocks'[i].lines = 1 + Cardinality(FactsOf(blocks[i].start)')
             /\ blocks'[i].status = Value(blocks[i].start, "status")'
             /\ blocks'[i].last = Value(blocks[i].start, "last")'
  <2>1. CASE i \in 1 .. K
    <3>1. PICK x \in Headings : x = blocks[i].start
      BY <1>8, <2>1
    <3>2. FactsOf(x)' = FactsOf(x)
      BY <1>4, <1>5
    <3>3. /\ x \in Headings' /\ Value(x, "status")' = Value(x, "status")
          /\ Value(x, "last")' = Value(x, "last")
      BY <1>1, <3>2, BlockKept
    <3>4. blocks'[i] = blocks[i] /\ x = blocks'[i].start
      BY <1>6, <2>1, <3>1
    <3>5. /\ FactsOf(blocks[i].start)' = FactsOf(x)'
          /\ Value(blocks[i].start, "status")' = Value(x, "status")'
          /\ Value(blocks[i].start, "last")' = Value(x, "last")'
      BY <3>4 DEF Value, Telling, FactsOf, BodyOf
    <3> QED
      BY <1>8, <2>1, <3>1, <3>2, <3>3, <3>4, <3>5
  <2>2. CASE i = K + 1
    <3>1. blocks'[i].start = h /\ FactsOf(blocks[i].start)' = FactsOf(h)'
      BY <1>6, <2>2 DEF FactsOf, BodyOf
    <3>2. FactsOf(blocks[i].start)' = {}
      BY <1>4, <3>1
    <3>3. /\ Value(blocks[i].start, "status")' = {} /\ Value(blocks[i].start, "last")' = {}
      BY <3>2 DEF Value, Telling
    <3>4. /\ blocks'[i].start = h /\ blocks'[i].lines = 1
          /\ blocks'[i].status = {} /\ blocks'[i].last = {}
      BY <1>6, <2>2
    <3>5. Cardinality(FactsOf(blocks[i].start)') = 0
      BY <3>2, FS_EmptySet
    <3> QED
      BY <1>5, <3>3, <3>4, <3>5
  <2> QED
    BY <1>6, <2>1, <2>2
<1>10. ASSUME NEW i \in 1 .. K + 1, NEW j \in 1 .. K + 1, i < j
       PROVE  blocks'[i].start < blocks'[j].start
  <2>1. i \in 1 .. K
    BY <1>1, <1>10
  <2>2. CASE j = K + 1
    <3>1. blocks'[j].start = h /\ blocks'[i].start = blocks[i].start
      BY <1>6, <2>1, <2>2
    <3>2. blocks[i].start \in 1 .. N
      BY <1>5, <1>8, <2>1
    <3> QED
      BY <1>1, <1>2, <3>1, <3>2
  <2>3. CASE j # K + 1
    <3>1. j \in 1 .. K
      BY <1>1, <2>3
    <3> QED
      BY <1>6, <1>8, <1>10, <2>1, <3>1
  <2> QED
    BY <2>2, <2>3
<1>11. \A n \in Headings' : \E i \in 1 .. K + 1 : blocks'[i].start = n
  BY <1>5, <1>6, <1>8
<1>12. \A n \in found'["past"] : n \in 1 .. h
  BY <1>1, <1>2, <1>8
<1>13. ASSUME NEW n \in 1 .. h
       PROVE  n \in found'["past"] <=>
                  file'[n].past /\ \E i \in 1 .. K + 1 : n \in FactsOf(blocks[i].start)'
  <2>1. ASSUME NEW i \in 1 .. K + 1
        PROVE  FactsOf(blocks[i].start)' =
                   IF i = K + 1 THEN {} ELSE FactsOf(blocks[i].start)
    <3>1. PICK x \in (1 .. N) \cup {h} : x = blocks'[i].start /\ (i = K + 1 => x = h)
                                         /\ (i # K + 1 => x \in 1 .. N /\ x = blocks[i].start)
      <4>1. CASE i = K + 1
        BY <1>6, <4>1
      <4>2. CASE i # K + 1
        <5>1. i \in 1 .. K
          BY <1>6, <4>2
        <5> QED
          BY <1>5, <1>6, <1>8, <4>2, <5>1
      <4> QED
        BY <4>1, <4>2
    <3>2. FactsOf(blocks[i].start)' = FactsOf(x)'
      BY <3>1 DEF FactsOf, BodyOf
    <3> QED
      BY <1>4, <3>1, <3>2
  <2>2. (\E i \in 1 .. K + 1 : n \in FactsOf(blocks[i].start)') <=>
            \E i \in 1 .. K : n \in FactsOf(blocks[i].start)
    <3>1. ASSUME NEW i \in 1 .. K + 1, n \in FactsOf(blocks[i].start)'
          PROVE  \E j \in 1 .. K : n \in FactsOf(blocks[j].start)
      <4>1. i # K + 1
        BY <2>1, <3>1
      <4>2. i \in 1 .. K
        BY <1>6, <4>1
      <4> QED
        BY <2>1, <3>1, <4>1, <4>2
    <3>2. ASSUME NEW j \in 1 .. K, n \in FactsOf(blocks[j].start)
          PROVE  \E i \in 1 .. K + 1 : n \in FactsOf(blocks[i].start)'
      <4>1. j \in 1 .. K + 1 /\ j # K + 1
        BY <1>1
      <4>2. n \in FactsOf(blocks[j].start)'
        BY <2>1, <3>2, <4>1
      <4> QED
        BY <4>1, <4>2
    <3> QED
      BY <3>1, <3>2
  <2>3. CASE n = h
    <3>1. h \notin 1 .. N /\ \A x \in 1 .. N : h \notin FactsOf(x)
      BY <1>1, <1>2 DEF FactsOf, BodyOf
    <3> QED
      BY <1>5, <1>8, <2>2, <2>3, <3>1
  <2>4. CASE n # h
    <3>1. n \in 1 .. N
      BY <1>1, <1>2, <2>4
    <3> QED
      BY <1>3, <1>8, <2>2, <3>1
  <2> QED
    BY <2>3, <2>4
<1> QED
  BY <1>3, <1>6, <1>7, <1>9, <1>10, <1>11, <1>12, <1>13 DEF BlocksInv

\* A block that absorbs a fact.
LEMMA Absorbed ==
    ASSUME NEW b \in Block, NEW l \in Lines["entities"], l.lead = "fact"
    PROVE  /\ Absorb(b, l) \in Block /\ Absorb(b, l).start = b.start
           /\ Absorb(b, l).lines = b.lines + 1
           /\ Absorb(b, l).status = IF l.status = {} THEN b.status ELSE l.status
           /\ Absorb(b, l).last = IF l.last = {} THEN b.last ELSE l.last
<1>1. PICK s : s = IF l.status = {} THEN b.status ELSE l.status
  OBVIOUS
<1>2. PICK t : t = IF l.last = {} THEN b.last ELSE l.last
  OBVIOUS
<1>3. PICK n : n = b.lines + 1
  OBVIOUS
<1>4. n \in Nat /\ s \in Optional({"active", "inactive"}) /\ t \in Optional(Date)
  BY <1>1, <1>2, <1>3, FactFields DEF Block
<1>5. Absorb(b, l) = [b EXCEPT !.lines = n, !.status = s, !.last = t]
  BY <1>1, <1>2, <1>3 DEF Absorb, Block
<1>6. [b EXCEPT !.lines = n, !.status = s, !.last = t] \in Block
  BY <1>4 DEF Block
<1> QED
  BY <1>1, <1>2, <1>3, <1>5, <1>6 DEF Block

\* A fact is absorbed by the last entity, and by no other.
LEMMA FactRead ==
    ASSUME SkipInv, BlocksInv, kind = "entities", NEW l \in Lines["entities"],
           l.lead = "fact", file' = Append(file, l), kind' = kind, blocks # <<>>,
           blocks' = [blocks EXCEPT ![Len(blocks)] = Absorb(@, l)],
           found'["past"] = found["past"] \cup {n \in {Here} : l.past}
    PROVE  BlocksInv'
<1> DEFINE N == Len(file)
           K == Len(blocks)
<1>1. file \in Seq(Lines["entities"]) /\ N \in Nat /\ blocks \in Seq(Block) /\ K \in Nat
  BY DEF SkipInv, BlocksInv
<1>2. PICK h \in Nat : h = Len(file) + 1
  BY <1>1
<1>3. /\ Len(file)' = h /\ file'[h] = l /\ \A n \in 1 .. N : file'[n] = file[n]
      /\ 1 .. h = (1 .. N) \cup {h} /\ h \notin 1 .. N
  BY <1>1, <1>2, OneMore
<1>4. Headings' = Headings /\ Headings \subseteq 1 .. N
  <2>1. Headings' = {n \in 1 .. h : file'[n].lead = "heading"}
    BY <1>3 DEF Headings
  <2> QED
    BY <1>3, <2>1 DEF Headings
<1>5. /\ K \in 1 .. K /\ Len(blocks)' = K /\ blocks'[K] = Absorb(blocks[K], l)
      /\ \A i \in 1 .. K : i # K => blocks'[i] = blocks[i]
  BY <1>1
<1>6. blocks[K] \in Block
  <2>1. \A i \in 1 .. K : blocks[i] \in Block
    BY <1>1
  <2> QED
    BY <1>5, <2>1
<1>7. PICK b \in Block : b = blocks[K]
  BY <1>6
<1>8. /\ Absorb(b, l) \in Block /\ Absorb(b, l).start = b.start
      /\ Absorb(b, l).lines = b.lines + 1
      /\ Absorb(b, l).status = IF l.status = {} THEN b.status ELSE l.status
      /\ Absorb(b, l).last = IF l.last = {} THEN b.last ELSE l.last
  BY Absorbed
<1>9. blocks' \in Seq(Block)
  <2>1. Absorb(blocks[K], l) \in Block
    BY <1>7, <1>8
  <2>2. blocks' = [blocks EXCEPT ![K] = Absorb(blocks[K], l)]
    OBVIOUS
  <2> QED
    BY <1>1, <2>1, <2>2
<1>10. /\ \A i \in 1 .. K :
             /\ blocks[i].start \in Headings
             /\ blocks[i].lines = 1 + Cardinality(FactsOf(blocks[i].start))
             /\ blocks[i].status = Value(blocks[i].start, "status")
             /\ blocks[i].last = Value(blocks[i].start, "last")
       /\ \A i, j \in 1 .. K : i < j => blocks[i].start < blocks[j].start
       /\ \A n \in Headings : \E i \in 1 .. K : blocks[i].start = n
       /\ \A n \in found["past"] : n \in 1 .. N
       /\ \A n \in 1 .. N :
             n \in found["past"] <=>
                 file[n].past /\ \E i \in 1 .. K : n \in FactsOf(blocks[i].start)
  BY DEF BlocksInv
<1>11. /\ \A i \in 1 .. K : i # K => FactsOf(blocks[i].start)' = FactsOf(blocks[i].start)
       /\ FactsOf(blocks[K].start)' = FactsOf(blocks[K].start) \cup {h}
  <2>1. ASSUME NEW i \in 1 .. K
        PROVE  /\ blocks'[i].start = blocks[i].start
               /\ FactsOf(blocks[i].start)' =
                      IF i = K THEN FactsOf(blocks[i].start) \cup {h}
                      ELSE FactsOf(blocks[i].start)
    <3>1. PICK x \in Headings : x = blocks[i].start
      BY <1>10
    <3>2. x = blocks'[i].start
      BY <1>5, <1>7, <1>8, <3>1
    <3>3. FactsOf(blocks[i].start)' = FactsOf(x)'
      BY <3>2 DEF FactsOf, BodyOf
    <3>4. FactsOf(x)' = IF \A m \in x + 1 .. N : file[m].lead # "heading"
                        THEN FactsOf(x) \cup {h} ELSE FactsOf(x)
      BY <1>1, <1>2, <1>4, FactsRead
    <3>5. CASE i = K
      <4>1. \A n \in Headings : n <= x
        <5> TAKE n \in Headings
        <5>1. PICK j \in 1 .. K : blocks[j].start = n
          BY <1>10
        <5>2. j = K \/ j < K
          BY <1>1
        <5> QED
          BY <1>4, <1>10, <3>1, <3>5, <5>1, <5>2
      <4>2. \A m \in x + 1 .. N : file[m].lead # "heading"
        BY <1>1, <1>4, <4>1 DEF Headings
      <4> QED
        BY <3>1, <3>2, <3>3, <3>4, <3>5, <4>2
    <3>6. CASE i # K
      <4>1. PICK z \in Headings : z = blocks[K].start
        BY <1>5, <1>10
      <4>2. x < z
        <5>1. i < K
          BY <1>1, <3>6
        <5> QED
          BY <1>5, <1>10, <3>1, <4>1, <5>1
      <4>3. z \in x + 1 .. N /\ file[z].lead = "heading"
        BY <1>1, <1>4, <4>2 DEF Headings
      <4> QED
        BY <3>1, <3>2, <3>3, <3>4, <3>6, <4>3
    <3> QED
      BY <3>5, <3>6
  <2> QED
    BY <1>5, <2>1
<1>12. ASSUME NEW i \in 1 .. K
      PROVE  /\ blocks'[i].start \in Headings' /\ blocks'[i].start = blocks[i].start
             /\ blocks'[i].lines = 1 + Cardinality(FactsOf(blocks[i].start)')
             /\ blocks'[i].status = Value(blocks[i].start, "status")'
             /\ blocks'[i].last = Value(blocks[i].start, "last")'
  <2>1. PICK x \in Headings : x = blocks[i].start
    BY <1>10
  <2>2. x = blocks'[i].start
    BY <1>5, <1>7, <1>8, <2>1
  <2>3. /\ FactsOf(blocks[i].start)' = FactsOf(x)'
        /\ Value(blocks[i].start, "status")' = Value(x, "status")'
        /\ Value(blocks[i].start, "last")' = Value(x, "last")'
    BY <2>2 DEF Value, Telling, FactsOf, BodyOf
  <2>4. CASE i # K
    <3>1. FactsOf(x)' = FactsOf(x)
      BY <1>11, <2>1, <2>3, <2>4
    <3>2. /\ Value(x, "status")' = Value(x, "status")
          /\ Value(x, "last")' = Value(x, "last")
      BY <1>1, <3>1, BlockKept
    <3>3. blocks'[i] = blocks[i]
      BY <1>5, <2>4
    <3> QED
      BY <1>4, <1>10, <2>1, <2>3, <3>1, <3>2, <3>3
  <2>5. CASE i = K
    <3>1. FactsOf(x)' = FactsOf(x) \cup {h}
      BY <1>11, <2>1, <2>3, <2>5
    <3>2. /\ Value(x, "status")' = IF l["status"] = {} THEN Value(x, "status")
                                   ELSE l["status"]
          /\ Value(x, "last")' = IF l["last"] = {} THEN Value(x, "last") ELSE l["last"]
      <4>1. ASSUME NEW f
            PROVE  Value(x, f)' = IF l[f] = {} THEN Value(x, f) ELSE l[f]
        <5>1. x \in 1 .. Len(file)
          BY <1>4
        <5>2. FactsOf(x)' = FactsOf(x) \cup {h} =>
                  Value(x, f)' = IF l[f] = {} THEN Value(x, f) ELSE l[f]
          <6>1. PICK S : S = Lines["entities"]
            OBVIOUS
          <6>2. file \in Seq(S) /\ l \in S
            BY <1>1, <6>1
          <6> QED
            BY <1>2, <5>1, <6>2, ValueRead
        <5> QED
          BY <3>1, <5>2
      <4> QED
        BY <4>1
    <3>3. FactsOf(x) \in SUBSET (1 .. N)
      BY <1>1, <1>4 DEF FactsOf, BodyOf
    <3>4. /\ Cardinality(FactsOf(x)) \in Nat
          /\ Cardinality(FactsOf(x) \cup {h}) = Cardinality(FactsOf(x)) + 1
      BY <1>1, <1>2, <3>3, CountLines
    <3>5. blocks'[i] = Absorb(b, l) /\ blocks[i] = b
      BY <1>5, <1>7, <2>5
    <3>6. /\ blocks'[i].lines = blocks[i].lines + 1
          /\ blocks'[i].status = IF l.status = {} THEN blocks[i].status ELSE l.status
          /\ blocks'[i].last = IF l.last = {} THEN blocks[i].last ELSE l.last
      BY <1>8, <3>5
    <3>7. /\ blocks[i].lines = 1 + Cardinality(FactsOf(x))
          /\ blocks[i].status = Value(x, "status") /\ blocks[i].last = Value(x, "last")
      BY <1>10, <2>1
    <3>8. blocks'[i].lines = 1 + Cardinality(FactsOf(x)')
      BY <3>1, <3>4, <3>6, <3>7
    <3>9. /\ blocks'[i].status = Value(x, "status")' /\ blocks'[i].last = Value(x, "last")'
      BY <3>2, <3>6, <3>7
    <3> QED
      BY <1>4, <2>1, <2>2, <2>3, <3>8, <3>9
  <2> QED
    BY <2>4, <2>5
<1>13. \A i, j \in 1 .. K : i < j => blocks'[i].start < blocks'[j].start
  BY <1>10, <1>12
<1>14. \A n \in Headings' : \E i \in 1 .. K : blocks'[i].start = n
  BY <1>4, <1>10, <1>12
<1>15. found'["past"] = found["past"] \cup {n \in {h} : l.past}
  BY <1>2 DEF Here
<1>16. \A n \in found'["past"] : n \in 1 .. h
  BY <1>3, <1>10, <1>15
<1>17. ASSUME NEW n \in 1 .. h
       PROVE  n \in found'["past"] <=>
                  file'[n].past /\ \E i \in 1 .. K : n \in FactsOf(blocks[i].start)'
  <2>1. CASE n = h
    <3>1. n \in found'["past"] <=> l.past
      BY <1>3, <1>10, <1>15, <2>1
    <3>2. n \in FactsOf(blocks[K].start)'
      BY <1>11, <2>1
    <3> QED
      BY <1>3, <1>5, <2>1, <3>1, <3>2
  <2>2. CASE n # h
    <3>1. n \in 1 .. N /\ file'[n] = file[n]
      BY <1>3, <2>2
    <3>2. \A i \in 1 .. K : n \in FactsOf(blocks[i].start)' <=> n \in FactsOf(blocks[i].start)
      <4> TAKE i \in 1 .. K
      <4>1. CASE i = K
        BY <1>11, <2>2, <4>1
      <4>2. CASE i # K
        BY <1>11, <4>2
      <4> QED
        BY <4>1, <4>2
    <3>3. n \in found'["past"] <=> n \in found["past"]
      BY <1>15, <2>2
    <3> QED
      BY <1>10, <3>1, <3>2, <3>3
  <2> QED
    BY <2>1, <2>2
<1> QED
  BY <1>3, <1>5, <1>9, <1>12, <1>13, <1>14, <1>16, <1>17 DEF BlocksInv

\* A blank line, a comment, or a fact before the first entity belongs to none.
LEMMA OtherRead ==
    ASSUME SkipInv, BlocksInv, kind = "entities", NEW l \in Lines["entities"],
           l.lead # "heading", l.lead # "fact" \/ blocks = <<>>,
           file' = Append(file, l), kind' = kind, blocks' = blocks,
           found'["past"] = found["past"]
    PROVE  BlocksInv'
<1> DEFINE N == Len(file)
           K == Len(blocks)
<1>1. file \in Seq(Lines["entities"]) /\ N \in Nat /\ blocks \in Seq(Block) /\ K \in Nat
  BY DEF SkipInv, BlocksInv
<1>2. PICK h \in Nat : h = Len(file) + 1
  BY <1>1
<1>3. /\ Len(file)' = h /\ file'[h] = l /\ \A n \in 1 .. N : file'[n] = file[n]
      /\ 1 .. h = (1 .. N) \cup {h} /\ h \notin 1 .. N
  BY <1>1, <1>2, OneMore
<1>4. Headings' = Headings /\ Headings \subseteq 1 .. N
  <2>1. Headings' = {n \in 1 .. h : file'[n].lead = "heading"}
    BY <1>3 DEF Headings
  <2> QED
    BY <1>3, <2>1 DEF Headings
<1>5. /\ \A i \in 1 .. K : blocks[i].start \in Headings
      /\ \A n \in found["past"] : n \in 1 .. N
      /\ \A n \in 1 .. N :
             n \in found["past"] <=>
                 file[n].past /\ \E i \in 1 .. K : n \in FactsOf(blocks[i].start)
  BY DEF BlocksInv
<1>6. ASSUME NEW i \in 1 .. K
      PROVE  /\ FactsOf(blocks[i].start)' = FactsOf(blocks[i].start)
             /\ Value(blocks[i].start, "status")' = Value(blocks[i].start, "status")
             /\ Value(blocks[i].start, "last")' = Value(blocks[i].start, "last")
             /\ h \notin FactsOf(blocks[i].start)
  <2>1. PICK x \in Headings : x = blocks[i].start
    BY <1>5
  <2>2. l.lead # "fact"
    BY <1>1
  <2>3. FactsOf(x)' = FactsOf(x)
    BY <1>1, <1>2, <1>4, <2>2, FactsRead
  <2>4. /\ Value(x, "status")' = Value(x, "status")
        /\ Value(x, "last")' = Value(x, "last")
    BY <1>1, <2>3, BlockKept
  <2>5. /\ FactsOf(blocks[i].start)' = FactsOf(x)'
        /\ Value(blocks[i].start, "status")' = Value(x, "status")'
        /\ Value(blocks[i].start, "last")' = Value(x, "last")'
    BY <2>1 DEF Value, Telling, FactsOf, BodyOf
  <2>6. h \notin FactsOf(x)
    BY <1>2, <1>3, <1>4 DEF FactsOf, BodyOf
  <2> QED
    BY <2>1, <2>3, <2>4, <2>5, <2>6
<1>7. ASSUME NEW n \in 1 .. h
      PROVE  n \in found'["past"] <=>
                 file'[n].past /\ \E i \in 1 .. K : n \in FactsOf(blocks[i].start)'
  <2>1. CASE n = h
    BY <1>3, <1>5, <1>6, <2>1
  <2>2. CASE n # h
    <3>1. n \in 1 .. N /\ file'[n] = file[n]
      BY <1>3, <2>2
    <3> QED
      BY <1>5, <1>6, <3>1
  <2> QED
    BY <2>1, <2>2
<1>8. /\ \A i \in 1 .. K :
             /\ blocks'[i].start \in Headings'
             /\ blocks'[i].lines = 1 + Cardinality(FactsOf(blocks[i].start)')
             /\ blocks'[i].status = Value(blocks[i].start, "status")'
             /\ blocks'[i].last = Value(blocks[i].start, "last")'
      /\ \A i, j \in 1 .. K : i < j => blocks'[i].start < blocks'[j].start
      /\ \A n \in Headings' : \E i \in 1 .. K : blocks'[i].start = n
  BY <1>4, <1>6 DEF BlocksInv
<1>9. \A n \in found'["past"] : n \in 1 .. h
  BY <1>3, <1>5
<1> QED
  BY <1>1, <1>3, <1>7, <1>8, <1>9 DEF BlocksInv

\* Every line keeps the blocks right.
LEMMA BlocksNext == TypeOK /\ SkipInv /\ BlocksInv /\ [Next]_vars => BlocksInv'
<1> SUFFICES ASSUME TypeOK, SkipInv, BlocksInv, [Next]_vars PROVE BlocksInv'
  OBVIOUS
<1>1. CASE UNCHANGED vars
  <2>1. kind' = kind /\ file' = file /\ blocks' = blocks /\ found' = found
    BY <1>1 DEF vars
  <2>2. Headings' = Headings
    BY <2>1 DEF Headings
  <2>3. \A i : /\ FactsOf(blocks[i].start)' = FactsOf(blocks[i].start)
              /\ Value(blocks[i].start, "status")' = Value(blocks[i].start, "status")
              /\ Value(blocks[i].start, "last")' = Value(blocks[i].start, "last")
    BY <2>1 DEF Value, Telling, FactsOf, BodyOf
  <2> QED
    BY <2>1, <2>2, <2>3 DEF BlocksInv
<1>2. CASE ReadActionLine
  BY <1>2 DEF ReadActionLine, BlocksInv
<1>3. CASE ReadObservationLine
  BY <1>3 DEF ReadObservationLine, BlocksInv
<1>4. CASE ReadEntityLine
  <2>1. PICK l \in Lines["entities"] :
            /\ file' = Append(file, l)
            /\ blocks' = CASE l.lead = "heading" -> Append(blocks, NewBlock(Here))
                           [] l.lead = "fact" /\ blocks # <<>> ->
                                  [blocks EXCEPT ![Len(blocks)] = Absorb(@, l)]
                           [] OTHER -> blocks
            /\ found' = [found EXCEPT
                   !["past"] = @ \cup {n \in {Here} : l.lead = "fact" /\ blocks # <<>>
                                                     /\ l.past}]
    BY <1>4 DEF ReadEntityLine
  <2>2. kind = "entities" /\ kind' = kind
    BY <1>4 DEF ReadEntityLine
  <2>3. found'["past"] = found["past"] \cup {n \in {Here} : l.lead = "fact" /\ blocks # <<>>
                                                           /\ l.past}
    BY <2>1 DEF TypeOK, Lists
  <2>4. CASE l.lead = "heading"
    BY <2>1, <2>2, <2>3, <2>4, HeadingRead
  <2>5. CASE l.lead = "fact" /\ blocks # <<>>
    BY <2>1, <2>2, <2>3, <2>5, FactRead
  <2>6. CASE l.lead # "heading" /\ ~(l.lead = "fact" /\ blocks # <<>>)
    BY <2>1, <2>2, <2>3, <2>6, OtherRead
  <2> QED
    BY <2>4, <2>5, <2>6
<1> QED
  BY <1>1, <1>2, <1>3, <1>4 DEF Next

\* The lines an entity is charged for are those the docs name and those inside a
\* comment of several lines.
LEMMA ChargedLines ==
    ASSUME TypeOK, kind = "entities", NEW x \in Headings
    PROVE  /\ Cardinality(FactsOf(x)) \in Nat
           /\ Cardinality(Documented(x)) + Cardinality(Commented(x))
                  = Cardinality(FactsOf(x))
<1> DEFINE D == Documented(x)
           C == Commented(x)
<1>1. file \in Seq(EntityLine) /\ Len(file) \in Nat /\ x \in 1 .. Len(file)
  <2>1. file \in Seq(Lines["entities"]) /\ Lines["entities"] \subseteq EntityLine
    BY ScanAssumption DEF TypeOK
  <2> QED
    BY <2>1 DEF Headings
<1>2. BodyOf(x) \subseteq 1 .. Len(file)
  BY <1>1 DEF BodyOf
<1>3. ASSUME NEW n \in BodyOf(x)
      PROVE  file[n].lead = "fact" <=> file[n].lead \notin {"blank", "comment"}
  <2>1. file[n].lead # "heading"
    BY <1>1 DEF BodyOf
  <2>2. file[n].lead \in {"heading", "comment", "blank", "fact"}
    <3>1. file[n] \in EntityLine
      BY <1>1, <1>2
    <3> QED
      BY <3>1 DEF EntityLine
  <2> QED
    BY <2>1, <2>2
<1>4. FactsOf(x) = D \cup C /\ D \cap C = {}
  BY <1>3 DEF FactsOf, Documented, Commented
<1>5. D \in SUBSET (1 .. Len(file)) /\ C \in SUBSET (1 .. Len(file))
  BY <1>2 DEF Documented, Commented
<1>6. /\ IsFiniteSet(D) /\ Cardinality(D) \in Nat
      /\ IsFiniteSet(C) /\ Cardinality(C) \in Nat
  BY <1>1, <1>5, CountLines
<1> HIDE DEF D, C
<1>7. Cardinality(D \cup C) = Cardinality(D) + Cardinality(C) - Cardinality(D \cap C)
  BY <1>6, FS_Union
<1>8. Cardinality(D \cap C) = 0
  BY <1>4, FS_EmptySet
<1> QED
  BY <1>4, <1>6, <1>7, <1>8 DEF D, C

\* entity_audit judges every entity by its own lines: none leaks into another one's
\* block, none is lost, whatever is between; it charges an entity for the lines the docs
\* name (RPC.md:567) and for those inside a comment of several lines (store.go:1319), and
\* for nothing else.
THEOREM AuditRight == Spec => []AuditMatchesBlocks
<1>1. TypeOK /\ BlocksInv => AuditMatchesBlocks
  <2> SUFFICES ASSUME TypeOK, BlocksInv, kind = "entities" PROVE AuditMatchesBlocks
    BY DEF AuditMatchesBlocks
  <2> DEFINE K == Len(blocks)
             Status(l) == l.status
             Last(l) == l.last
  <2>1. /\ \A i \in 1 .. K :
               /\ blocks[i].start \in Headings
               /\ blocks[i].lines = 1 + Cardinality(FactsOf(blocks[i].start))
               /\ blocks[i].status = Value(blocks[i].start, "status")
               /\ blocks[i].last = Value(blocks[i].start, "last")
        /\ \A n \in Headings : \E i \in 1 .. K : blocks[i].start = n
        /\ \A n \in found["past"] : n \in 1 .. Len(file)
        /\ \A n \in 1 .. Len(file) :
               n \in found["past"] <=>
                   file[n].past /\ \E i \in 1 .. K : n \in FactsOf(blocks[i].start)
    BY DEF BlocksInv
  <2>2. \A x : ValueOf(x, Status) = Value(x, "status") /\ ValueOf(x, Last) = Value(x, "last")
    BY DEF ValueOf, Value, Telling
  <2>3. {blocks[i].start : i \in 1 .. K} = Headings
    BY <2>1
  <2>4. found["past"] = {n \in UNION {FactsOf(x) : x \in Headings} : file[n].past}
    <3>1. \A n : (\E i \in 1 .. K : n \in FactsOf(blocks[i].start)) <=>
                     n \in UNION {FactsOf(x) : x \in Headings}
      BY <2>1
    <3>2. \A n \in UNION {FactsOf(x) : x \in Headings} : n \in 1 .. Len(file)
      BY DEF FactsOf, BodyOf, Headings
    <3> QED
      BY <2>1, <3>1, <3>2
  <2>5. Audited(TooLong) = {x \in Headings :
            Cardinality(Documented(x)) + Cardinality(Commented(x)) >= 3}
    <3>1. \A x \in Headings :
              /\ Cardinality(FactsOf(x)) \in Nat
              /\ Cardinality(Documented(x)) + Cardinality(Commented(x))
                     = Cardinality(FactsOf(x))
      BY ChargedLines
    <3>2. \A i \in 1 .. K :
              LET x == blocks[i].start
              IN TooLong(blocks[i]) <=>
                     Cardinality(Documented(x)) + Cardinality(Commented(x)) >= 3
      BY <2>1, <3>1 DEF TooLong
    <3> QED
      BY <2>1, <3>2 DEF Audited
  <2>6. Audited(Incomplete) = {x \in Headings : \/ Value(x, "status") = {}
                                                \/ Value(x, "last") = {}}
    <3>1. \A i \in 1 .. K : Incomplete(blocks[i]) <=>
                                \/ Value(blocks[i].start, "status") = {}
                                \/ Value(blocks[i].start, "last") = {}
      BY <2>1 DEF Incomplete
    <3> QED
      BY <2>1, <3>1 DEF Audited
  <2>7. Audited(Retired) = {x \in Headings :
            \/ Value(x, "status") = {"inactive"}
            \/ \E d \in Value(x, "last") : d.real /\ Today - d.rank > GlacierDays}
    <3>1. ASSUME NEW i \in 1 .. K
          PROVE  Retired(blocks[i]) <=>
                     \/ Value(blocks[i].start, "status") = {"inactive"}
                     \/ \E d \in Value(blocks[i].start, "last") :
                            d.real /\ Today - d.rank > GlacierDays
      <4>1. blocks[i].last \in Optional(Date)
        <5>1. \A j \in 1 .. K : blocks[j] \in Block
          BY DEF BlocksInv
        <5> QED
          BY <5>1 DEF Block
      <4>2. \A d \in blocks[i].last : d.rank \in Nat
        BY <4>1 DEF Optional, Date
      <4>3. \A d \in blocks[i].last : Old(d) <=> d.real /\ Today - d.rank > GlacierDays
        BY <4>2, ScanAssumption DEF Old
      <4>4. /\ blocks[i].status = Value(blocks[i].start, "status")
            /\ blocks[i].last = Value(blocks[i].start, "last")
        BY <2>1
      <4> QED
        BY <4>3, <4>4 DEF Retired
    <3> DEFINE bad(x) == \/ Value(x, "status") = {"inactive"}
                         \/ \E d \in Value(x, "last") : d.real /\ Today - d.rank > GlacierDays
    <3>2. \A i \in 1 .. K : Retired(blocks[i]) <=> bad(blocks[i].start)
      BY <3>1
    <3>3. /\ \A i \in 1 .. K : blocks[i].start \in Headings
          /\ \A x \in Headings : \E i \in 1 .. K : blocks[i].start = x
      BY <2>1
    <3> HIDE DEF bad
    <3>4. Audited(Retired) = {x \in Headings : bad(x)}
      BY <3>2, <3>3 DEF Audited
    <3> QED
      BY <3>4 DEF bad
  <2> QED
    BY <2>2, <2>3, <2>4, <2>5, <2>6, <2>7 DEF AuditMatchesBlocks, Headings
<1> QED
  BY SkipInit, SkipNext, TypesInit, TypesNext, BlocksInit, BlocksNext, <1>1, PTL DEF Spec
================================================================================
