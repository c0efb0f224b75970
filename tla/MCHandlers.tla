------------------------------- MODULE MCHandlers ------------------------------
(***************************************************************************)
(* A small memory for Handlers: a handler that serves every query, and one *)
(* that serves the methods that change files and the repository.           *)
(***************************************************************************)
EXTENDS Handlers, TLC

Actions == <<"work", "action-items">>
Log == <<"work", "observations">>
Old == <<"glacier", "old">>
Page == <<"wiki", "page">>
Plan == <<"cog-meta", "scenarios", "plan">>
Stray == <<"job", "notes">>
People == <<"home", "entities">>

SmallPath == {Actions, Log, Old, Page, Plan, Stray, People, HotMemory, Marker}
Meta == <<"cog-meta">>
SmallDir == {Root, Meta, Scenarios, Glacier, <<"home">>, <<"job">>, Wiki, <<"work">>}

SmallOrder == <<Meta, Marker, Scenarios, Plan, Glacier, Old, <<"home">>, People, HotMemory,
                <<"job">>, Stray, Wiki, Page, <<"work">>, Actions, Log>>

SmallTree == [q \in SmallPath |->
                 IF q \in {Old, Stray} THEN 0 ELSE IF q \in {Log, Page} THEN 2 ELSE 1]

Domain(id, path, fs, top) ==
    [id |-> id, path |-> path, files |-> fs, top |-> top, wellFormed |-> TRUE]

Job == Domain("job", <<"work">>, <<"action-items", "observations">>, <<"work">>)
Home == Domain("home", <<"home">>, <<"entities">>, <<"work">>)
JobAtHome == Domain("job", <<"home">>, <<"entities", "observations">>, <<"home">>)
JobInPlace == Domain("x", <<"job">>, <<"notes">>, <<"job">>)

SmallManifests == {<<Job, Home>>, <<JobInPlace, JobAtHome>>, <<Job, Job>>}

Allow(on, allows) == [on |-> on, allows |-> allows]

\* An owner; a reader who must not see the log and the glacier.
SmallRules ==
    "owner" :> <<Allow(SmallPath \cup SmallDir \cup {Everything}, {"read", "write"})>> @@
    "reader" :> <<Allow({Log, Glacier, Old}, {}),
                  Allow(SmallPath \cup SmallDir, {"read"}),
                  Allow({Log}, {"read"})>>

Ask(method, role, path, to, domain, lacks) ==
    [method |-> method, role |-> role, path |-> path, to |-> to, domain |-> domain,
     lacks |-> lacks]

AsReader(method, domain) == Ask(method, "reader", Root, Root, domain, "")

Queries ==
    {Ask("read", "reader", q, Root, "", "") : q \in {<<"L0_INDEX">>, <<"LIST">>, Log}} \cup
    {Ask("outline", "owner", Log, Root, "", ""), Ask("health", "", Root, Root, "", ""),
     Ask("stats", "", <<"work">>, Root, "", ""), Ask("l0index", "", Wiki, Root, "", ""),
     Ask("cluster_check", "reader", Root, Root, "", "since"),
     Ask("git", "reader", Root, Root, "status", "")} \cup
    {AsReader(m, "") : m \in {"search", "list", "open_actions", "recent_observations",
        "cluster_check", "scenario_check", "domains.list", "glacier_index_compute",
        "wiki_index_compute", "entity_audit", "link_index_compute", "link_audit",
        "session_brief", "housekeeping_scan"}} \cup
    {AsReader(m, "job") : m \in {"open_actions", "recent_observations", "domain_summary",
        "domains.get"}}

Write == Ask("write", "owner", Stray, Root, "", "")
Patch == Ask("patch", "owner", Log, Root, "", "")
Move == Ask("move", "owner", Actions, Old, "", "")
CommitAs(lacks) == Ask("git", "owner", Root, Root, "commit", lacks)

\* Every query against a move, and the longest against a change of content; two
\* clients that change and commit; a write where the manifest decides; two clients
\* whose calls of the controller overtake each other.
SmallSessions ==
    {"a" :> <<q>> @@ "b" :> <<Move>> : q \in Queries} \cup
    {"a" :> <<AsReader("housekeeping_scan", "")>> @@ "b" :> <<Patch>>,
     "a" :> <<CommitAs("")>> @@ "b" :> <<Patch, CommitAs("")>>,
     "a" :> <<Write, Patch>> @@ "b" :> <<CommitAs("")>>,
     "a" :> <<AsReader("domain_summary", "job")>> @@ "b" :> <<AsReader("open_actions", "")>>,
     "a" :> <<Write>> @@ "b" :> <<AsReader("domains.list", "")>>,
     "a" :> <<CommitAs("message")>> @@ "b" :> <<Ask("append", "reader", Log, Root, "", "")>>}
================================================================================
