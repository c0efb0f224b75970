------------------------------ MODULE FileContent ------------------------------
(***************************************************************************)
(* What store/store.go computes from the bytes of one memory file.  A file *)
(* is the sequence of its non-blank lines together with one bit, whether   *)
(* its last byte is a newline; what the lines say is abstracted to         *)
(* identities, because the updates only look for a heading, for one        *)
(* occurrence of a text, or at the last byte.                              *)
(***************************************************************************)
EXTENDS Naturals, Sequences, FiniteSets
SeqExt == INSTANCE SequencesExt

CONSTANTS Text,      \* the texts clients send, one identity per request
          LeadText,  \* those that begin with a newline of their own
          Heading,   \* markdown headings, all of one level
          Torn       \* a proper prefix of a text, left by a short write

ASSUME TextAssumption == /\ LeadText \subseteq Text
                         /\ Text \cap Heading = {}
                         /\ Torn \notin Text \cup Heading

Line == Text \cup Heading \cup {Torn}

Content == [lines : Seq(Line), nl : BOOLEAN]

Empty == [lines |-> <<>>, nl |-> FALSE]

LinesOf(c) == {c.lines[i] : i \in DOMAIN c.lines}

\* The payload of a write request: one text, with or without final newline.
Written(t, nl) == [lines |-> <<t>>, nl |-> nl]

\* An unsectioned append never merges its text into the last line: it adds a
\* separator newline when the file needs one, and always a trailing newline.
Appended(c, t) == [lines |-> Append(c.lines, t), nl |-> TRUE]

\* A write of t cut short by an error.
AppendedShort(c) == [lines |-> Append(c.lines, Torn), nl |-> FALSE]

\* Variant: every append rewrites the file.
InPlaceNever(c, t) == FALSE

\* AppendSection appends in place iff the file has bytes and needs no
\* separator; otherwise it rewrites the file through atomicWrite.
InPlace(c, t) == c.lines # <<>> /\ (c.nl \/ t \in LeadText)

Occurrences(c, x) == {i \in DOMAIN c.lines : c.lines[i] = x}

\* Patch accepts oldText only when it occurs exactly once.
OccursOnce(c, x) == \E i \in DOMAIN c.lines : Occurrences(c, x) = {i}

Patched(c, old, t) ==
    [c EXCEPT !.lines = [i \in DOMAIN c.lines |->
                            IF c.lines[i] = old THEN t ELSE c.lines[i]]]

\* Where appendUnderSection inserts: in front of the first heading after the
\* first heading h, or at the end of the file.
InsertionPoint(c, h, i) ==
    \E s \in Occurrences(c, h) :
        /\ \A r \in Occurrences(c, h) : s <= r
        /\ i \in s+1 .. Len(c.lines)+1
        /\ i = Len(c.lines)+1 \/ c.lines[i] \in Heading
        /\ \A r \in s+1 .. i-1 : c.lines[r] \notin Heading

HasHeading(c, h) == Occurrences(c, h) # {}

Inserted(c, h, t) ==
    [lines |-> SeqExt!InsertAt(c.lines, CHOOSE i \in 1 .. Len(c.lines)+1 :
                                    InsertionPoint(c, h, i), t),
     nl |-> TRUE]
================================================================================
