-------------------------------- MODULE FileScan -------------------------------
(***************************************************************************)
(* The line scanners of store/: what every tool that reads one action      *)
(* list, one observation log or one entity list makes of it.  Each tool    *)
(* opens the file by itself and scans it line by line; here all scanners   *)
(* of a kind of file read the same lines in lock step, so that their       *)
(* answers about one file can be compared.  A file is read from one inode  *)
(* under a shared lock: it does not change during a scan.                  *)
(*                                                                         *)
(* A line is what the prefixes and regular expressions of the scanners     *)
(* tell apart.  Days are numbers; a date is its rank in the lexical order  *)
(* of YYYY-MM-DD and whether the calendar has it.  An optional value is a  *)
(* set of at most one.                                                     *)
(***************************************************************************)
EXTENDS Integers, Sequences, FiniteSets

CONSTANTS Lines,      \* Lines[k]: the lines that files of kind k are made of
          MaxLines,   \* bound on the length of a file
          Since,      \* the since dates clients ask for, 0 for none
          Today,
          StaleDays, DormantDays, GlacierDays,  \* ages the scanners report
          ClusterDays,                          \* default window of Cluster
          Word, MinClusterSize, SpanDays        \* tags, and when they cluster

Date == [rank : Nat, real : BOOLEAN]
Optional(S) == {T \in SUBSET S : \A x, y \in T : x = y}

\* What a line starts with, and whether it contains "-->".
Lead == {"comment", "fence", "todo", "done", "dated", "heading", "text"}
Plain == [lead : {"comment", "fence", "heading", "text"}, ends : BOOLEAN]

\* "- [ ] text |pri:high |added:date", "- [x] text added:date": the value of the
\* last added field, and the first match of addedDateRE anywhere in the line.
ActionLine ==
    Plain \cup
    [lead : {"todo"}, ends : BOOLEAN, named : BOOLEAN, high : BOOLEAN,
     field : Optional(Date), tagged : Optional(Date)] \cup
    [lead : {"done"}, ends : BOOLEAN, tagged : Optional(Date)]

\* "- date [tags]: text"; tags holds the words of each comma-separated tag.
ObservationLine ==
    Plain \cup
    [lead : {"dated"}, ends : BOOLEAN, date : Date, tags : Seq(SUBSET Word),
     said : BOOLEAN]

\* "### name" and the lines of facts below it: status, last, and whether a line
\* has an "(until YYYY-MM)" of a past month that is not struck through.
EntityLine ==
    [lead : {"heading", "comment"}, ends : BOOLEAN] \cup
    [lead : {"blank"}, ends : {FALSE}] \cup
    [lead : {"fact"}, ends : BOOLEAN, status : Optional({"active", "inactive"}),
     last : Optional(Date), past : BOOLEAN]

Kind == {"actions", "observations", "entities"}

ASSUME ScanAssumption ==
    /\ Lines \in [Kind -> SUBSET (ActionLine \cup ObservationLine \cup EntityLine)]
    /\ Lines["actions"] \subseteq ActionLine
    /\ Lines["observations"] \subseteq ObservationLine
    /\ Lines["entities"] \subseteq EntityLine
    /\ 0 \in Since /\ Since \subseteq Nat /\ Today \in Nat
    /\ StaleDays \in Nat \ {0} /\ DormantDays \in Nat \ {0}
    /\ GlacierDays \in Nat /\ SpanDays \in Nat

VARIABLES kind,     \* what the file is
          since,    \* the date the client asks for
          midnight, \* the clock shows exactly 0:00
          file,     \* the lines read so far
          skip,     \* skipActionLine's inComment and inFence
          found,    \* the line numbers each scanner has listed
          count,    \* the counters of the counting scanners
          latest,   \* scanDormancy: the latest day of an observation
          byTag,    \* buildTagClusters: entries and days of each tag
          blocks    \* auditOneEntitiesFile: the entities so far

vars == <<kind, since, midnight, file, skip, found, count, latest, byTag, blocks>>

Lists == {"open", "stale", "recent", "forFile", "clustered", "past"}
Counters == {"open", "done", "briefOpen", "briefHigh", "doneEver", "implemented",
             "entries"}

Init ==
    /\ kind \in Kind /\ since \in Since /\ midnight \in BOOLEAN
    /\ kind = "entities" => since = 0          \* entity_audit takes no date
    /\ kind # "observations" => ~midnight      \* only dormancy looks that close
    /\ file = <<>>
    /\ skip = [comment |-> FALSE, fence |-> FALSE]
    /\ found = [s \in Lists |-> {}]
    /\ count = [c \in Counters |-> 0]
    /\ latest = {}
    /\ byTag = [w \in Word |-> [entries |-> 0, days |-> {}]]
    /\ blocks = <<>>

\* Variant: lines are numbered from 0.
HereFromZero == Len(file)

\* The number of the line that is read next.
Here == Len(file) + 1
--------------------------------------------------------------------------------
\* Variant: a fence is looked for inside a comment as well.
SkipFenceFirst(sk, l) ==
    IF l.lead = "fence" THEN [sk EXCEPT !.fence = ~sk.fence]
    ELSE IF sk.comment THEN [sk EXCEPT !.comment = ~l.ends]
    ELSE [sk EXCEPT !.comment = l.lead = "comment" /\ ~l.ends]

\* skipActionLine: the state after line l.
SkipAfter(sk, l) ==
    IF sk.comment THEN [sk EXCEPT !.comment = ~l.ends]
    ELSE IF l.lead = "comment" THEN [sk EXCEPT !.comment = ~l.ends]
    ELSE [sk EXCEPT !.fence = (l.lead = "fence") # sk.fence]

\* skipActionLine: does it tell the scanner to skip line l?
Skipped(sk, l) == sk.comment \/ sk.fence \/ l.lead \in {"comment", "fence"}

Seen(l) == ~Skipped(skip, l)
--------------------------------------------------------------------------------
\* parseOpenActionItem: an item without text is none.
Item(l) == l.lead = "todo" /\ l.named

\* scanActionItems: the added field, else the first match of addedDateRE.
Added(l) == IF l.field # {} THEN l.field ELSE l.tagged

\* Variant: the window is open.
StaleAfter(d) == d.rank + StaleDays < Today

\* scanActionItems: int(now.Sub(t) / 24h) >= staleDays.
StaleSince(d) == d.rank + StaleDays <= Today

Stale(l) == Item(l) /\ \E d \in Added(l) : d.real /\ StaleSince(d)

\* CountActions: with a since date only completed items of that date or later,
\* compared as text.
DoneSince(l) == l.lead = "done" /\ (since = 0 \/ \E d \in l.tagged : d.rank >= since)

If(b) == IF b THEN 1 ELSE 0

\* Variant: the brief counts what open_actions lists.
BriefOpenItem(l) == Item(l)
\* countOpenActions counts before it parses.
BriefOpen(l) == l.lead = "todo"

\* OpenActions, CountActions, countOpenActions, scanActionItems, scanImprovements
\* on the next line of an action list.
ReadActionLine ==
    /\ kind = "actions" /\ Len(file) < MaxLines
    /\ \E l \in Lines["actions"] :
        /\ file' = Append(file, l)
        /\ skip' = SkipAfter(skip, l)
        /\ found' = [found EXCEPT
               !["open"] = @ \cup {n \in {Here} : Seen(l) /\ Item(l)},
               !["stale"] = @ \cup {n \in {Here} : Seen(l) /\ Stale(l)}]
        /\ count' = [count EXCEPT
               !["open"] = @ + If(Seen(l) /\ l.lead = "todo"),
               !["done"] = @ + If(Seen(l) /\ DoneSince(l)),
               !["briefOpen"] = @ + If(Seen(l) /\ BriefOpen(l)),
               !["briefHigh"] = @ + If(Seen(l) /\ Item(l) /\ l.high),
               !["doneEver"] = @ + If(Seen(l) /\ l.lead = "done"),
               !["implemented"] = @ + If(Seen(l) /\ l.lead = "done")]
    /\ UNCHANGED <<kind, since, midnight, latest, byTag, blocks>>
--------------------------------------------------------------------------------
\* parseObservationLine, parseClusterObs: a date of the calendar and a text.
Entry(l) == l.lead = "dated" /\ l.said /\ l.date.real

\* Cluster: Since is zero when the client gives none.
ClusterSince == IF since = 0 THEN Today - ClusterDays ELSE since

Clustered(l) == Seen(l) /\ Entry(l) /\ l.date.rank >= ClusterSince

Mentions(l, w) == \E i \in 1 .. Len(l.tags) : w \in l.tags[i]

\* Variant: a tag that a line repeats counts twice.
TallyTwice(w, t, l) ==
    [entries |-> t.entries + Cardinality({i \in 1 .. Len(l.tags) : w \in l.tags[i]}),
     days |-> IF Mentions(l, w) THEN t.days \cup {l.date.rank} ELSE t.days]

\* parseClusterObs: the words of a line, each once, are its tags.
Tally(w, t, l) ==
    IF Mentions(l, w)
    THEN [entries |-> t.entries + 1, days |-> t.days \cup {l.date.rank}]
    ELSE t

\* Variant: the log is taken to be newest first.
LatestFirst(l) == IF l.lead = "dated" /\ l.date.real /\ latest = {}
                  THEN {l.date.rank} ELSE latest

\* scanDormancy: neither comments nor fences nor a missing text matter.
Latest(l) == IF l.lead = "dated" /\ l.date.real /\ \A d \in latest : l.date.rank > d
             THEN {l.date.rank} ELSE latest

\* Variant: commented examples are listed.
ListsRecentAll(l) == Entry(l) /\ l.date.rank >= since
\* RecentObservations lists the entry on line l.
ListsRecent(l) == Seen(l) /\ Entry(l) /\ l.date.rank >= since

\* RecentObservations, RecentObservationsForFile, Cluster, scanObservations and
\* scanDormancy on the next line of an observation log.
ReadObservationLine ==
    /\ kind = "observations" /\ Len(file) < MaxLines
    /\ \E l \in Lines["observations"] :
        /\ file' = Append(file, l)
        /\ skip' = SkipAfter(skip, l)
        /\ found' = [found EXCEPT
               !["recent"] = @ \cup {n \in {Here} : ListsRecent(l)},
               !["forFile"] = @ \cup {n \in {Here} : Entry(l) /\ l.date.rank >= since},
               !["clustered"] = @ \cup {n \in {Here} : Clustered(l)}]
        /\ count' = [count EXCEPT !["entries"] = @ + If(l.lead = "dated")]
        /\ latest' = Latest(l)
        /\ byTag' = IF Clustered(l) THEN [w \in Word |-> Tally(w, byTag[w], l)] ELSE byTag
    /\ UNCHANGED <<kind, since, midnight, blocks>>

\* scanDormancy: no observation in the window that ends now.
Dormant == \A d \in latest : /\ d + DormantDays <= Today
                             /\ d + DormantDays = Today => ~midnight

\* buildTagClusters, buildThreadCandidates: tags of enough entries, and those of
\* them whose entries span enough days, both ends counted.
TagClusters == {w \in Word : byTag[w].entries >= MinClusterSize}
Threads == {w \in TagClusters : \E d, e \in byTag[w].days : (e - d) + 1 >= SpanDays}
--------------------------------------------------------------------------------
NewBlock(n) == [start |-> n, lines |-> 1, status |-> {}, last |-> {}]

\* Variant: the first status of a block stays.
AbsorbFirst(b, l) ==
    [b EXCEPT !.lines = @ + 1,
              !.status = IF @ = {} THEN l.status ELSE @,
              !.last = IF l.last = {} THEN @ ELSE l.last]

\* One line of facts of an entity: the last status and the last date count.
Absorb(b, l) ==
    [b EXCEPT !.lines = @ + 1,
              !.status = IF l.status = {} THEN @ ELSE l.status,
              !.last = IF l.last = {} THEN @ ELSE l.last]

\* auditOneEntitiesFile on the next line: a heading ends a block and opens one,
\* in a comment or a fence as well; lines before the first heading are dropped.
ReadEntityLine ==
    /\ kind = "entities" /\ Len(file) < MaxLines
    /\ \E l \in Lines["entities"] :
        /\ file' = Append(file, l)
        /\ blocks' = CASE l.lead = "heading" -> Append(blocks, NewBlock(Here))
                       [] l.lead = "fact" /\ blocks # <<>> ->
                              [blocks EXCEPT ![Len(blocks)] = Absorb(@, l)]
                       [] OTHER -> blocks
        /\ found' = [found EXCEPT
               !["past"] = @ \cup {n \in {Here} : l.lead = "fact" /\ blocks # <<>>
                                                 /\ l.past}]
    /\ UNCHANGED <<kind, since, midnight, skip, count, latest, byTag>>

\* The buckets of the audit, as line numbers of headings.
Audited(Bad(_)) == {blocks[i].start : i \in {j \in 1 .. Len(blocks) : Bad(blocks[j])}}

TooLong(b) == b.lines > 3
Incomplete(b) == b.status = {} \/ b.last = {}
Old(d) == d.real /\ d.rank + GlacierDays < Today
Retired(b) == b.status = {"inactive"} \/ \E d \in b.last : Old(d)

Next == ReadActionLine \/ ReadObservationLine \/ ReadEntityLine

Spec == Init /\ [][Next]_vars
--------------------------------------------------------------------------------
\* Types of the scanners' variables.
TypeOK ==
    /\ kind \in Kind /\ since \in Since /\ midnight \in BOOLEAN
    /\ file \in Seq(Lines[kind])
    /\ skip \in [comment : BOOLEAN, fence : BOOLEAN]
    /\ found \in [Lists -> SUBSET (1 .. Len(file))]
    /\ count \in [Counters -> Nat]
    /\ latest \in Optional(Nat)
    /\ byTag \in [Word -> [entries : Nat, days : SUBSET Nat]]

\* Line k opens a comment that no later line up to n closes.
InComment(n) ==
    \E k \in 1 .. n : /\ file[k].lead = "comment" /\ ~file[k].ends
                      /\ \A j \in k + 1 .. n : ~file[j].ends

\* The fence lines up to n that are not commented out.
Fences(n) == {k \in 1 .. n : file[k].lead = "fence" /\ ~InComment(k - 1)}

InFence(n) == Cardinality(Fences(n)) % 2 = 1

\* Line n is neither in a comment nor in a fence.
Visible(n) == /\ file[n].lead \notin {"comment", "fence"}
              /\ ~InComment(n - 1) /\ ~InFence(n - 1)

Marked(P(_)) == {n \in 1 .. Len(file) : Visible(n) /\ P(file[n])}

\* The two flags of skipActionLine mean what an author expects, whatever order
\* comments and fences open and close in: a comment lasts from its opening line
\* to the next line with "-->" and hides the fences in it, a fence lasts to the
\* next fence line outside a comment (store.go, skipActionLine).
SkipMatchesReference ==
    kind # "entities" =>
        /\ skip.comment <=> InComment(Len(file))
        /\ skip.fence <=> InFence(Len(file))

\* session_brief, domain_summary and open_actions count the same open items but
\* for those without text, housekeeping and improvements the same completed
\* ones, and a since date only removes some of them.
CountsAgree ==
    kind = "actions" =>
        /\ count["briefOpen"] = count["open"]
        /\ count["open"] = Cardinality(found["open"])
                           + Cardinality(Marked(LAMBDA l : l.lead = "todo" /\ ~l.named))
        /\ count["briefHigh"] <= Cardinality(found["open"])
        /\ count["doneEver"] = count["implemented"]
        /\ count["done"] <= count["doneEver"]
        /\ since = 0 => count["done"] = count["doneEver"]

\* A stale item of housekeeping_scan is an open item of open_actions, and it is
\* stale exactly when the date it was added on (its field when it has one) is a
\* day of the calendar at least StaleDays back.
StaleAreOpen ==
    kind = "actions" =>
        found["stale"] = {n \in found["open"] :
            \E d \in IF file[n].field = {} THEN file[n].tagged ELSE file[n].field :
                d.real /\ Today - d.rank >= StaleDays}

\* recent_observations lists what domain_summary counts but for what comments
\* and fences hide, cluster_check clusters exactly that for the same date, and
\* each of these is an entry for the cap of housekeeping_scan.
RecentIsVisibleOfFile ==
    kind = "observations" =>
        /\ found["recent"] = {n \in found["forFile"] : Visible(n)}
        /\ since # 0 => found["clustered"] = found["recent"]
        /\ Cardinality(found["forFile"]) <= count["entries"]

\* cluster_check counts entries, not words: a tag is a cluster when enough entries
\* in its window mention it, and a thread when two of them are far enough apart.
ClustersCountEntries ==
    kind = "observations" =>
        LET Of(w) == {n \in found["clustered"] : Mentions(file[n], w)}
        IN /\ TagClusters = {w \in Word : Cardinality(Of(w)) >= MinClusterSize}
           /\ Threads = {w \in TagClusters : \E m, n \in Of(w) :
                            file[m].date.rank >= file[n].date.rank + (SpanDays - 1)}

\* A domain that housekeeping_scan calls dormant has no entry of the last
\* DormantDays - 1 days in any other answer about the file.
DormantMeansQuiet ==
    kind = "observations" /\ Dormant =>
        \A n \in found["recent"] \cup found["forFile"] \cup found["clustered"] :
            file[n].date.rank + DormantDays <= Today

\* The lines between a heading and the next one, and the facts among them.
BodyOf(h) == {n \in h + 1 .. Len(file) : \A m \in h + 1 .. n : file[m].lead # "heading"}
FactsOf(h) == {n \in BodyOf(h) : file[n].lead = "fact"}

\* What the docs charge an entity for, its "non-blank non-comment body lines"
\* (RPC.md:567, store.go:91), and what is inside a comment that began before.
Documented(h) == {n \in BodyOf(h) : /\ file[n].lead \notin {"blank", "comment"}
                                    /\ ~InComment(n - 1)}
Commented(h) == {n \in BodyOf(h) : /\ file[n].lead \notin {"blank", "comment"}
                                   /\ InComment(n - 1)}

\* The value of a field in an entity: the one of its last line that has one.
ValueOf(h, Field(_)) ==
    UNION {Field(file[n]) : n \in {m \in FactsOf(h) :
        Field(file[m]) # {} /\ \A k \in FactsOf(h) : k > m => Field(file[k]) = {}}}

\* entity_audit judges every entity by its own lines: none leaks into the block
\* of another one, none is lost, whatever blank lines and comments are between.
\* It charges an entity for the lines the docs name and, beyond them, for those
\* inside a comment of several lines and for nothing else: an entity that is too
\* long is never missed, and the lines of a comment are all that may be charged
\* too much.  Headings and fields inside such a comment count as well.
AuditMatchesBlocks ==
    kind = "entities" =>
        LET Headings == {n \in 1 .. Len(file) : file[n].lead = "heading"}
            Status(l) == l.status
            Last(l) == l.last
        IN /\ {blocks[i].start : i \in 1 .. Len(blocks)} = Headings
           /\ found["past"] = {n \in UNION {FactsOf(h) : h \in Headings} : file[n].past}
           /\ Audited(TooLong) = {h \in Headings :
                  Cardinality(Documented(h)) + Cardinality(Commented(h)) >= 3}
           /\ Audited(Incomplete) = {h \in Headings : \/ ValueOf(h, Status) = {}
                                                      \/ ValueOf(h, Last) = {}}
           /\ Audited(Retired) = {h \in Headings :
                  \/ ValueOf(h, Status) = {"inactive"}
                  \/ \E d \in ValueOf(h, Last) : d.real /\ Today - d.rank > GlacierDays}
================================================================================
