--------------------------------- MODULE Methods -------------------------------
(***************************************************************************)
(* The JSON-RPC methods of rpc/: what each handler does, in which order.   *)
(* A handler is the sequence of its steps: checks of parameters, RBAC      *)
(* gates, calls of the controller and calls of the store.  A step either   *)
(* goes on or ends the request with an error code.  Module Handlers says   *)
(* what each step does and runs them.                                      *)
(***************************************************************************)
EXTENDS Manifest

CONSTANTS Rules   \* Rules[role]: the rules of a role, in order

\* rbac.Engine.Check: the first rule whose pattern matches decides; a role without
\* rules and a subject that no rule matches are denied.  on is the set of paths,
\* directories and literal subjects that the pattern of a rule matches.
Check(role, subject, op) ==
    /\ role \in DOMAIN Rules
    /\ \E i \in DOMAIN Rules[role] :
           /\ subject \in Rules[role][i].on
           /\ \A j \in 1 .. i - 1 : subject \notin Rules[role][j].on
           /\ op \in Rules[role][i].allows

Root == <<>>
Everything == <<"**">>
HotMemory == <<"hot-memory">>
Patterns == <<"cog-meta", "patterns">>
Improvements == <<"cog-meta", "improvements">>
Marker == <<"cog-meta", ".housekeeping-marker">>
Scenarios == <<"cog-meta", "scenarios">>
Glacier == <<"glacier">>
Wiki == <<"wiki">>

\* Paths that Read answers with a walk.
Special == {<<"L0_INDEX">>, <<"LIST">>}
--------------------------------------------------------------------------------
\* A step: what to do, and with what.
Do(what, with) == [do |-> what, with |-> with]

\* decodeParams and the checks of single parameters: a request that lacks one of
\* these, or has an invalid one, ends with CodeInvalidParams.
Need(params) == Do("need", params)
GateRead(subject) == Do("gateRead", subject)
GateWrite(subject) == Do("gateWrite", subject)

\* WalkDir below dir; visit says what is done with the files.
Walk(dir, visit) == <<Do("enter", dir), Do("walk", visit)>>

\* scanFiles, and a read of every file it found.
ScanFiles == Walk(Root, "collect")
ReadAll == ScanFiles \o <<Do("scan", "found")>>

\* The targets of one declared file: of the domain the client names, or of all.
TargetsOf(r, file) ==
    IF r.domain = "" THEN <<Do("targets", file)>>
    ELSE <<Do("get", "invalid"), Do("resolve", file)>>

HandleRead(r) ==
    <<Need({"params", "path"})>> \o
    (IF r.path = <<"L0_INDEX">> THEN ReadAll
     ELSE IF r.path = <<"LIST">> THEN ScanFiles \o <<Do("report", "found")>>
     ELSE <<GateRead(r.path), Do("open", r.path)>>)

\* Variant: the path is not checked against the manifest.
HandleWriteUnchecked(r) ==
    <<Need({"params", "path"}), GateWrite(r.path), Do("save", r.path)>>

\* Variant: the gate comes after the write.
HandleWriteUngated(r) ==
    <<Need({"params", "path"}), Do("owner", r.path), Do("misplaced", r.path),
      Do("save", r.path), GateWrite(r.path)>>

\* handleWrite and handleAppend, with checkWritePath.
HandleWrite(r) ==
    <<Need({"params", "path"}), GateWrite(r.path),
      Do("owner", r.path), Do("misplaced", r.path), Do("save", r.path)>>

HandlePatch(r) == <<Need({"params", "path"}), GateWrite(r.path), Do("save", r.path)>>

\* handleMove asks for the right to write the destination only.
HandleMove(r) ==
    <<Need({"params", "path", "to"}), GateWrite(r.to), Do("rename", r.to)>>

HandleOutline(r) == <<Need({"params", "path"}), GateRead(r.path), Do("open", r.path)>>

HandleSearch(r) == <<Need({"params", "query"}), Do("gateSearch", Everything)>> \o ReadAll

\* Files outside the prefix are dropped before they are read.
HandleStats(r) ==
    <<Need({"params"})>> \o ScanFiles \o <<Do("below", "found"), Do("scan", "found")>>

\* Files outside the domain's directory are dropped afterwards.
HandleL0Index(r) == <<Need({"params"})>> \o ReadAll \o <<Do("below", "items")>>

HandleList(r) == <<Need({"params"})>> \o ScanFiles \o <<Do("report", "found")>>

HandleOpenActions(r) ==
    <<Need({"params", "role"})>> \o TargetsOf(r, "action-items") \o
    <<Do("count", "targets"), Do("hide", "items")>>

HandleRecentObservations(r) ==
    <<Need({"params", "role", "alias", "since"})>> \o TargetsOf(r, "observations") \o
    <<Do("permit", "targets"), Do("count", "targets")>>

HandleClusterCheck(r) ==
    <<Need({"params", "role"})>> \o TargetsOf(r, "observations") \o
    <<Do("permit", "targets"), Need({"since"}), Do("count", "targets")>>

HandleEntityAudit(r) ==
    <<Need({"params", "role"})>> \o TargetsOf(r, "entities") \o
    <<Do("permit", "targets"), Do("count", "targets")>>

HandleScenarioCheck(r) ==
    <<Need({"params", "role"})>> \o Walk(Scenarios, "read") \o <<Do("hide", "items")>>

HandleGlacierIndex(r) ==
    <<Need({"params", "role"})>> \o Walk(Glacier, "list") \o <<Do("hide", "items")>>

HandleWikiIndex(r) ==
    <<Need({"params", "role"})>> \o Walk(Wiki, "list") \o <<Do("hide", "items")>>

\* Only top-level domains are filtered; their subdomains come with them.
HandleDomainsList(r) == <<Need({"params"}), Do("domains", "top")>>

HandleDomainsGet(r) ==
    <<Need({"params", "domain"}), Do("get", "store"), Do("gateDomain", "read")>>

\* One round per declared file: its path, does it exist, what is in it.
HandleDomainSummary(r) ==
    <<Need({"params", "role", "domain"}), Do("get", "invalid"),
      Do("gateDomain", "read"), Need({"since"}),
      Do("nextFile", "read"), Do("exists", "read"), Do("content", "read")>>

HandleSessionBrief(r) ==
    <<Need({"params", "role"}), Do("domains", "each"), Do("targets", "action-items"),
      Do("open", HotMemory), Do("open", Patterns), Do("countEach", "targets"),
      Do("hide", "counts")>>

\* The targets of each domain are resolved one by one.
HandleHousekeepingScan(r) ==
    <<Need({"params", "role"}), Do("domains", "all"), Do("resolveEach", "read"),
      Do("roots", "read"), Do("permit", "targets"), Do("marker", Marker)>> \o
    ScanFiles \o <<Do("scan", "targets"), Do("changed", "found")>>

HandleLinkIndex(r) ==
    <<Need({"params", "role"})>> \o ScanFiles \o
    <<Do("scanNotes", "found"), Do("hide", "items")>>

\* The files the role may read are scanned for entities, then all of them for
\* mentions, unless there is no entity.
HandleLinkAudit(r) ==
    <<Need({"params", "role"})>> \o ScanFiles \o
    <<Do("permit", "found"), Do("entities", "found"), Do("scanNotes", "found")>>

\* Variant: git add -u stages tracked files only.
HandleGitTracked(r) ==
    IF r.domain # "commit" THEN <<Need({"params", "op"})>>
    ELSE <<Need({"params", "op"}), GateWrite(Everything), Do("message", "commit"),
           Do("stage", "tracked"), Do("add", "tracked"), Do("commit", "index")>>

\* status, diff and log read the repository, commit stages all files first.
HandleGit(r) ==
    IF r.domain # "commit" THEN <<Need({"params", "op"})>>
    ELSE <<Need({"params", "op"}), GateWrite(Everything), Do("message", "commit"),
           Do("stage", "all"), Do("add", "all"), Do("commit", "index")>>

\* Server.dispatch; health has nothing to do.
Program(r) ==
    CASE r.method = "read" -> HandleRead(r)
      [] r.method \in {"write", "append"} -> HandleWrite(r)
      [] r.method = "patch" -> HandlePatch(r)
      [] r.method = "outline" -> HandleOutline(r)
      [] r.method = "move" -> HandleMove(r)
      [] r.method = "search" -> HandleSearch(r)
      [] r.method = "stats" -> HandleStats(r)
      [] r.method = "l0index" -> HandleL0Index(r)
      [] r.method = "list" -> HandleList(r)
      [] r.method = "open_actions" -> HandleOpenActions(r)
      [] r.method = "session_brief" -> HandleSessionBrief(r)
      [] r.method = "housekeeping_scan" -> HandleHousekeepingScan(r)
      [] r.method = "recent_observations" -> HandleRecentObservations(r)
      [] r.method = "cluster_check" -> HandleClusterCheck(r)
      [] r.method = "scenario_check" -> HandleScenarioCheck(r)
      [] r.method = "domains.list" -> HandleDomainsList(r)
      [] r.method = "domains.get" -> HandleDomainsGet(r)
      [] r.method = "glacier_index_compute" -> HandleGlacierIndex(r)
      [] r.method = "wiki_index_compute" -> HandleWikiIndex(r)
      [] r.method = "domain_summary" -> HandleDomainSummary(r)
      [] r.method = "entity_audit" -> HandleEntityAudit(r)
      [] r.method = "link_index_compute" -> HandleLinkIndex(r)
      [] r.method = "link_audit" -> HandleLinkAudit(r)
      [] r.method = "git" -> HandleGit(r)
      [] OTHER -> <<>>

\* What the handlers promise to show only to roles that may read it.
Filtered == {"open_actions", "recent_observations", "cluster_check", "scenario_check",
             "glacier_index_compute", "wiki_index_compute", "domain_summary",
             "entity_audit", "link_index_compute", "link_audit", "housekeeping_scan"}
================================================================================
