------------------------------ MODULE StoreRequest -----------------------------
(***************************************************************************)
(* The requests the store's read and update methods serve, and what each   *)
(* asks for, as a function of the content it finds: rpc/methods.go hands   *)
(* the decoded parameters to store/store.go.                               *)
(***************************************************************************)
EXTENDS FileContent

CONSTANTS Path,    \* memory paths, all in one directory
          Missing  \* what a path that names no file holds

ASSUME MissingAssumption == Missing \notin Content

OpName == {"read", "outline", "write", "append", "section", "patch", "move"}

Readers == {"read", "outline"}

Request ==
    [op : Readers, path : Path, text : Text] \cup
    [op : {"write"}, path : Path, text : Text, nl : BOOLEAN] \cup
    [op : {"append"}, path : Path, text : Text] \cup
    [op : {"section"}, path : Path, text : Text, head : Heading] \cup
    [op : {"patch"}, path : Path, text : Text, old : Text \cup Heading] \cup
    [op : {"move"}, path : Path, text : Text, to : Path]

NoReq == [op |-> "none"]

\* A response: success or error, with the content for a reader.
Outcome == [ok : BOOLEAN, content : Content]

NoOutcome == [ok |-> FALSE, content |-> Empty]

\* Whether request r can be served on a file that holds c.
Accepts(r, c) == CASE r.op = "section" -> HasHeading(c, r.head)
                   [] r.op = "patch" -> OccursOnce(c, r.old)
                   [] OTHER -> TRUE

\* The content that update r makes of a file that holds c.
Rewritten(r, c) == CASE r.op = "write" -> Written(r.text, r.nl)
                     [] r.op = "append" -> Appended(c, r.text)
                     [] r.op = "section" -> Inserted(c, r.head, r.text)
                     [] OTHER -> Patched(c, r.old, r.text)
================================================================================
