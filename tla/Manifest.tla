-------------------------------- MODULE Manifest -------------------------------
(***************************************************************************)
(* domains.yml as the controller understands it: the operators of          *)
(* domain/domain.go that answer from one registry.  A path is the tuple of *)
(* its names, without the ".md" of a file; the root is <<>>.  A manifest   *)
(* is the sequence of its domains in the order of walk, each one before    *)
(* its subdomains: top is the path of the top-level domain it is part of,  *)
(* wellFormed whether its fields pass the checks of validate.              *)
(***************************************************************************)
EXTENDS Sequences, Naturals, FiniteSets

Parent(q) == SubSeq(q, 1, Len(q) - 1)
Base(q) == q[Len(q)]

\* Path q is dir or lies below it.
Within(q, dir) == Len(dir) <= Len(q) /\ SubSeq(q, 1, Len(dir)) = dir

\* The members of s at the positions in I, in their order (a SelectSeq without
\* recursion: the k-th of them has k positions up to its own).
Picked(s, I) ==
    LET rank == [i \in I |-> Cardinality({j \in I : j <= i})]
    IN [k \in 1 .. Cardinality(I) |-> s[CHOOSE i \in I : rank[i] = k]]

\* validate: ids are unique, subdomains included, and fields well formed.
Valid(m) ==
    /\ \A i, j \in DOMAIN m : m[i].id = m[j].id => i = j
    /\ \A i \in DOMAIN m : m[i].wellFormed

Domains(m) == {m[i] : i \in DOMAIN m}

\* flatten, Get: is there a domain with this id, and which?
Known(m, id) == \E d \in Domains(m) : d.id = id
Get(m, id) == CHOOSE d \in Domains(m) : d.id = id

\* declaresFile, joinPosix: the target of a file that domain d declares.
Declares(d, file) == \E i \in DOMAIN d.files : d.files[i] = file
Target(d, file) == [id |-> d.id, path |-> Append(d.path, file), ver |-> 0]

\* ActionItems, Observations, Entities: the targets of every domain, here in the
\* order of the manifest.
Targets(m, file) ==
    LET ds == Picked(m, {i \in DOMAIN m : Declares(m[i], file)})
    IN [i \in DOMAIN ds |-> Target(ds[i], file)]

\* DomainForPath: only direct children are files of a domain, so the domains that
\* match have one path; the first one wins.
Owners(m, q) == {i \in DOMAIN m : m[i].path = Parent(q)}
DomainForPath(m, q) == {m[i].id : i \in {k \in Owners(m, q) : \A j \in Owners(m, q) : k <= j}}

\* checkIDAsPath: the first segment is the id of a domain that lives elsewhere.
\* The segment of a file at the root ends in ".md" and is no id.
IDAsPath(m, q) ==
    /\ Len(q) > 1 /\ Known(m, q[1])
    /\ ~Within(Get(m, q[1]).path, <<q[1]>>)

\* What ValidateWrite rejects when both of its calls see registry m.
Misplaced(m, q) == DomainForPath(m, q) = {} /\ IDAsPath(m, q)
================================================================================
