---------------------------- MODULE DomainController ---------------------------
(***************************************************************************)
(* The hot reload of domain/domain.go.  Every query (List, Get,            *)
(* ActionItems, Observations, Entities, DomainForPath) first runs          *)
(* maybeReload, which stats domains.yml and, when its mtime differs from   *)
(* the cached one, re-reads and validates it; then it answers from the     *)
(* registry in memory.  Controller.mu guards the fields but is not held    *)
(* over the file accesses, so the queries of several connections and the   *)
(* edits of the manifest interleave between any two of these steps.        *)
(***************************************************************************)
EXTENDS Naturals

CONSTANTS Proc,     \* handler goroutines that query the controller
          MaxEdits, \* bound on the edits of domains.yml
          Faults    \* subset of {"io"}

ASSUME ControllerAssumption == MaxEdits \in Nat

\* Manifests: "good" ones declare domains, a "void" one is valid and declares
\* none, a "bad" one does not parse or validate, "none" is no file.  The number
\* tells the versions apart and is the mtime: each edit gets a later one.
Kind == {"good", "void", "bad", "none"}
Valid == {"good", "void"}
Manifest == [kind : Kind, ver : 0 .. MaxEdits + 1]

\* What a read of the manifest may find: the manifest, or an error of the file system
\* (the number is that of the manifest it was to read).
Finding == [kind : Kind \cup {"io"}, ver : 0 .. MaxEdits + 1]

\* The registry of a daemon that knows no domain; the zero time.
NoDomains == [kind |-> "none", ver |-> 0]
ZeroTime == 0

NoError == [kind |-> "none", ver |-> 0]

VARIABLES disk,    \* the manifest on disk
          reg,     \* Controller.domains and flat
          modTime, \* Controller.modTime
          lastErr, \* Controller.lastErr: the finding it complains about
          pc,      \* pc[p]: where query p is
          seen,    \* seen[p]: the mtime maybeReload saw, ZeroTime for no file
          read,    \* read[p]: what reload read from disk
          stamp,   \* stamp[p]: the mtime reload saw, ZeroTime when stat failed
          fresh,   \* fresh[p]: no edit and no I/O error since query p started
          alone    \* alone[p]: and no reload has stored what it read before
                   \* the last edit

vars == <<disk, reg, modTime, lastErr, pc, seen, read, stamp, fresh, alone>>
cache == <<reg, modTime, lastErr>>

Goto(p, label) == pc' = [pc EXCEPT ![p] = label]

\* New has loaded a good manifest, or found none.
Init ==
    /\ disk \in {[kind |-> "good", ver |-> 1], [kind |-> "none", ver |-> 1]}
    /\ reg = IF disk.kind = "good" THEN disk ELSE NoDomains
    /\ modTime = IF disk.kind = "good" THEN 1 ELSE ZeroTime
    /\ lastErr = NoError
    /\ pc = [p \in Proc |-> "idle"]
    /\ seen = [p \in Proc |-> ZeroTime]
    /\ read = [p \in Proc |-> NoDomains]
    /\ stamp = [p \in Proc |-> ZeroTime]
    /\ fresh = [p \in Proc |-> FALSE] /\ alone = fresh

\* History: query p starts, an edit or an I/O error disturbs the queries in P, or query
\* p stores what it has read, which may be older than the last edit.
Begins(p) == fresh' = [fresh EXCEPT ![p] = TRUE] /\ alone' = [alone EXCEPT ![p] = TRUE]
Disturbs(P) == /\ fresh' = [q \in Proc |-> fresh[q] /\ q \notin P]
               /\ alone' = [q \in Proc |-> alone[q] /\ q \notin P]
Stores(p) == /\ alone' = [q \in Proc |-> alone[q] /\ read[p].ver = disk.ver]
             /\ UNCHANGED fresh
Undisturbed == UNCHANGED <<fresh, alone>>

\* Someone edits, breaks, deletes or restores domains.yml.
Edit ==
    /\ disk.ver <= MaxEdits
    /\ \E k \in Kind : disk' = [kind |-> k, ver |-> disk.ver + 1]
    /\ UNCHANGED <<cache, pc, seen, read, stamp>> /\ Disturbs(Proc)

Query(p) ==
    /\ pc[p] = "idle"
    /\ Goto(p, "stat")
    /\ UNCHANGED <<disk, cache, seen, read, stamp>> /\ Begins(p)

\* maybeReload: os.Stat of the manifest.
Stat(p) ==
    /\ pc[p] = "stat"
    /\ seen' = [seen EXCEPT ![p] = IF disk.kind = "none" THEN ZeroTime ELSE disk.ver]
    /\ Goto(p, IF disk.kind = "none" THEN "absent" ELSE "compare")
    /\ UNCHANGED <<disk, cache, read, stamp>> /\ Undisturbed

\* maybeReload: a stat error other than "not exist" skips the check.
StatFails(p) ==
    /\ pc[p] = "stat" /\ "io" \in Faults
    /\ Goto(p, "serve")
    /\ UNCHANGED <<disk, cache, seen, read, stamp>> /\ Disturbs({p})

\* Variant: only the cached mtime is looked at.
CheckEmptyByTime(p) ==
    /\ pc[p] = "absent"
    /\ Goto(p, IF modTime = ZeroTime THEN "serve" ELSE "read")
    /\ UNCHANGED <<disk, cache, seen, read, stamp>> /\ Undisturbed

\* maybeReload: no manifest, and the registry is empty already?
CheckEmpty(p) ==
    /\ pc[p] = "absent"
    /\ Goto(p, IF reg.kind # "good" /\ modTime = ZeroTime THEN "serve" ELSE "read")
    /\ UNCHANGED <<disk, cache, seen, read, stamp>> /\ Undisturbed

\* maybeReload: is the mtime it saw the cached one?
Compare(p) ==
    /\ pc[p] = "compare"
    /\ Goto(p, IF seen[p] = modTime THEN "serve" ELSE "read")
    /\ UNCHANGED <<disk, cache, seen, read, stamp>> /\ Undisturbed

\* Variant: the manifest is installed without validation.
ReadFileUnvalidated(p) ==
    /\ pc[p] = "read"
    /\ read' = [read EXCEPT ![p] = disk]
    /\ Goto(p, IF disk.kind = "none" THEN "clear" ELSE "restat")
    /\ UNCHANGED <<disk, cache, seen, stamp>> /\ Undisturbed

\* Variant: a reload begins by forgetting the last error.
ReadFileForgets(p) ==
    /\ pc[p] = "read"
    /\ read' = [read EXCEPT ![p] = disk]
    /\ lastErr' = NoError
    /\ Goto(p, CASE disk.kind = "none" -> "clear"
                 [] disk.kind = "bad" -> "fail"
                 [] OTHER -> "restat")
    /\ UNCHANGED <<disk, reg, modTime, seen, stamp>> /\ Undisturbed

\* reload: os.ReadFile, yaml.Unmarshal, validate.
ReadFile(p) ==
    /\ pc[p] = "read"
    /\ read' = [read EXCEPT ![p] = disk]
    /\ Goto(p, CASE disk.kind = "none" -> "clear"
                 [] disk.kind = "bad" -> "fail"
                 [] OTHER -> "restat")
    /\ UNCHANGED <<disk, cache, seen, stamp>> /\ Undisturbed

ReadFails(p) ==
    /\ pc[p] = "read" /\ "io" \in Faults
    /\ read' = [read EXCEPT ![p] = [kind |-> "io", ver |-> disk.ver]]
    /\ Goto(p, "fail")
    /\ UNCHANGED <<disk, cache, seen, stamp>> /\ Disturbs({p})

\* reload: os.Stat after the read, for the mtime to cache.
Restat(p) ==
    /\ pc[p] = "restat"
    /\ stamp' = [stamp EXCEPT ![p] = IF disk.kind = "none" THEN ZeroTime ELSE disk.ver]
    /\ Goto(p, "install")
    /\ UNCHANGED <<disk, cache, seen, read>> /\ Undisturbed

RestatFails(p) ==
    /\ pc[p] = "restat" /\ "io" \in Faults
    /\ stamp' = [stamp EXCEPT ![p] = ZeroTime]
    /\ Goto(p, "install")
    /\ UNCHANGED <<disk, cache, seen, read>> /\ Undisturbed

\* reload: the new registry, its mtime (unless the stat failed), no error.
Install(p) ==
    /\ pc[p] = "install"
    /\ reg' = read[p]
    /\ modTime' = IF stamp[p] = ZeroTime THEN modTime ELSE stamp[p]
    /\ lastErr' = NoError
    /\ Goto(p, "serve")
    /\ UNCHANGED <<disk, seen, read, stamp>> /\ Stores(p)

\* reload: the manifest is gone, the registry is emptied.
Clear(p) ==
    /\ pc[p] = "clear"
    /\ reg' = NoDomains /\ modTime' = ZeroTime /\ lastErr' = NoError
    /\ Goto(p, "serve")
    /\ UNCHANGED <<disk, seen, read, stamp>> /\ Stores(p)

\* maybeReload: record the error of the reload, keep the last good registry.
Fail(p) ==
    /\ pc[p] = "fail"
    /\ lastErr' = read[p]
    /\ Goto(p, "serve")
    /\ UNCHANGED <<disk, reg, modTime, seen, read, stamp>> /\ Stores(p)

\* The query answers from the registry; what it read and saw is dropped.
Serve(p) ==
    /\ pc[p] = "serve"
    /\ Goto(p, "idle")
    /\ seen' = [seen EXCEPT ![p] = ZeroTime]
    /\ read' = [read EXCEPT ![p] = NoDomains]
    /\ stamp' = [stamp EXCEPT ![p] = ZeroTime]
    /\ UNCHANGED <<disk, cache>> /\ Disturbs({p})

Step(p) == \/ Stat(p) \/ StatFails(p) \/ CheckEmpty(p) \/ Compare(p)
           \/ ReadFile(p) \/ ReadFails(p) \/ Restat(p) \/ RestatFails(p)
           \/ Install(p) \/ Clear(p) \/ Fail(p) \/ Serve(p)

Next == Edit \/ \E p \in Proc : Query(p) \/ Step(p)

Spec == Init /\ [][Next]_vars
--------------------------------------------------------------------------------
\* Types of the controller's fields and of the queries' local variables.
TypeOK ==
    /\ disk \in Manifest
    /\ reg \in Manifest
    /\ modTime \in Nat
    /\ lastErr \in Finding
    /\ pc \in [Proc -> {"idle", "stat", "absent", "compare", "read", "restat",
                        "install", "clear", "fail", "serve"}]
    /\ seen \in [Proc -> Nat]
    /\ read \in [Proc -> Finding]
    /\ stamp \in [Proc -> Nat]
    /\ fresh \in [Proc -> BOOLEAN]
    /\ alone \in [Proc -> BOOLEAN]

\* The registry is the manifest on disk, which is valid or missing.
Current == IF disk.kind = "none" THEN reg.kind # "good" ELSE reg = disk

\* A query that starts after the last edit of a valid manifest, or after its
\* deletion, answers from it (Controller: "external edits to domains.yml take
\* effect without a daemon restart").
ServesCurrent ==
    \A p \in Proc : pc[p] = "serve" /\ fresh[p] /\ disk.kind # "bad" => Current

\* The registry goes by the mtime of a later manifest than it is.
Mislabelled == modTime > reg.ver

\* Whatever edits fell inside earlier reloads, and whichever of them stored last: the
\* next query puts the registry right, unless it goes by the mtime of a later manifest
\* (maybeReload, "checks the manifest mtime and re-reads if it changed").
NextQueryServesCurrent ==
    \A p \in Proc : pc[p] = "serve" /\ alone[p] /\ disk.kind # "bad" =>
        Current \/ Mislabelled

\* And when a reload of an earlier manifest has cleared the error of a broken one, the
\* next query reports it again (lastErr: "errors during reload are cached").
NextQueryReportsError ==
    \A p \in Proc : pc[p] = "serve" /\ alone[p] /\ disk.kind = "bad" =>
        lastErr.kind \in {"bad", "io"} \/ Mislabelled

\* Between queries lastErr is nil when the live manifest is valid and loaded
\* (LastError: "nil when the live manifest validates clean").
NoStaleError ==
    /\ \A p \in Proc : pc[p] = "idle"
    /\ disk.kind \in Valid /\ reg = disk /\ modTime = disk.ver
    => lastErr = NoError

\* Where a query stands relative to the manifest on disk.
QueryOK(p) ==
    /\ alone[p] => fresh[p]
    /\ pc[p] = "absent" /\ fresh[p] => disk.kind = "none"
    /\ pc[p] = "compare" /\ fresh[p] => disk.kind # "none" /\ seen[p] = disk.ver
    /\ pc[p] \in {"restat", "install"} => read[p].kind \in Valid
    /\ pc[p] = "clear" => read[p].kind = "none"
    /\ pc[p] = "fail" => read[p].kind \in {"bad", "io"}
    /\ pc[p] \in {"restat", "install", "clear", "fail"} =>
           /\ read[p].ver <= disk.ver
           /\ fresh[p] \/ read[p].ver = disk.ver => read[p] = disk \/ read[p].kind = "io"
           /\ fresh[p] => read[p] = disk
    /\ stamp[p] <= disk.ver

\* The inductive invariant: what has the number of the manifest on disk is that
\* manifest, in the registry and in the hands of a reload.
ReloadInv ==
    /\ TypeOK
    /\ disk.ver >= 1 /\ modTime <= disk.ver
    /\ reg.ver <= disk.ver /\ (reg.ver = disk.ver => reg = disk /\ disk.kind \in Valid)
    /\ \A p \in Proc : QueryOK(p)
    /\ NextQueryServesCurrent
    /\ NextQueryReportsError
================================================================================
