------------------------------ MODULE MCFileStore ------------------------------
(***************************************************************************)
(* Small instances of FileStore for TLC.                                   *)
(***************************************************************************)
EXTENDS FileStore, TLC

CONSTANTS p1, p2, p3, a, b, c, d, t1, t2, t3, h1, h2

\* Files on disk at start: none, one that ends in a newline, one whose last
\* line is not terminated.
Terminated == [lines |-> <<h1, h2>>, nl |-> TRUE]
Unterminated == [lines |-> <<h1>>, nl |-> FALSE]

AnyInit == [q \in Path |-> {Missing, Terminated, Unterminated}]
ShortInit == [q \in Path |-> {[lines |-> <<h1>>, nl |-> TRUE]}]
OneInit == [q \in Path |-> {Missing, [lines |-> <<h1>>, nl |-> TRUE]}]
MixedInit == [q \in Path |-> CASE q = a -> {Unterminated}
                               [] q = b -> {Missing}
                               [] OTHER -> {[lines |-> <<h1>>, nl |-> TRUE]}]

\* Which operations the clients use on which path.
EveryOp == [q \in Path |-> OpName]
LockedOps == [q \in Path |-> {"read", "append", "patch"}]
AppendOps == [q \in Path |-> {"append"}]
MoveOps == [q \in Path |-> {"write", "move"}]
MixedOps == [q \in Path |-> IF q = c THEN {"read", "append"}
                            ELSE IF q = d THEN {"read", "outline", "write"}
                            ELSE OpName]

\* Every client may name every path, or only p1 may name a and b, where appends
\* may be cut short.
WholeScope == [p \in Proc |-> Path]
MixedScope == [p \in Proc |-> IF p = p1 THEN Path ELSE {c, d}]

\* Inodes are numbers; a path starts at its own, the kernel picks the lowest.
HomeInode == [q \in Path |-> CASE q = a -> 1 [] q = b -> 2 [] q = c -> 3 [] q = d -> 4]
Lowest(S) == {i \in S : \A j \in S : i <= j}

\* The handlers that own no path are interchangeable, and so are the texts that do
\* not begin with a newline (only safety is checked under symmetry).
Interchangeable == Permutations({p2, p3}) \cup Permutations({t1, t2, t3})

\* An inode nothing refers to is filled anew before it is read again.
Live == <<dir, [i \in Ino |-> IF i \in FreeIno THEN Empty ELSE data[i]],
          temps, pc, req, fd, buf, tmp, out, used>>
================================================================================
