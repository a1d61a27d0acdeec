----------------------------- MODULE MCConsole -----------------------------
(***************************************************************************)
(* The console for TLC: what the servers hold and the users do, and the    *)
(* bounds that let the cases of every page happen.                         *)
(***************************************************************************)
EXTENDS ConsoleViews, TLC

CONSTANTS comp1, comp2, file1, file2, item1, item2, batch1, batch2, pipe1, pipe2,
          job1, job2, ver1, ver2, ver3, id1, id2

MCClicks == [kubernetes |-> 3, servers |-> 5, deployment |-> 5, sql |-> 3, builds |-> 5]

MCWorkloads == <<"api", "web">>

\* The rows of "web" come apart, and only some of them have a code or a path.
VersionRow(dep, app, code, path) ==
    [dep |-> dep, app |-> app, code |-> code, role |-> None, path |-> path]

MCVersionLists ==
    {<<>>, <<VersionRow("web", "shop", "shop", None), VersionRow("api", "api", None, None),
             VersionRow("web", "web", None, None), VersionRow("web", "x", None, "adm")>>}

MCAppRank == ("shop" :> 2) @@ ("adm" :> 1) @@ ("x" :> 3)
MCPaths == {<<>>, <<"a">>, <<"b">>, <<"a", "c">>}
MCPipelinesOf == (comp1 :> <<"p", "q">>) @@ (comp2 :> <<"r">>)

\* An archive of two files, and one that is too large beside a plain file.
File(name, size) == [name |-> name, size |-> size]
Zip(entries) == [zip |-> TRUE, entries |-> entries]

MCUploads == {<<Zip(<<File(file1, 1), File(file2, 1)>>)>>,
            <<Zip(<<File(file1, 2), File(file2, 1)>>), [zip |-> FALSE, entries |-> <<File(file2, 1)>>]>>}

MCRisks == (file1 :> {"WARN", "BLOCKED"}) @@ (file2 :> {"BLOCKED"})
MCRecordsOf == (batch1 :> <<pipe1, None, pipe2, pipe1>>) @@ (batch2 :> <<pipe2>>)

\* An application of its own, the host of the web applications, one of those,
\* and one that is hosted elsewhere.
Item(file, app, vue, dep) == [file |-> file, app |-> app, vue |-> vue, deployment |-> dep]

MCListings ==
    {{Item("f1", "his", FALSE, None), Item("f2", "web-main", TRUE, None),
      Item("f3", "x", TRUE, "his"), Item("f4", "web-opm", TRUE, None)},
     {Item("f1", "x", TRUE, None)}}

MCNameRank ==
    ("his" :> 1) @@ ("web-main" :> 3) @@ ("web-opm" :> 4)
    @@ ("f1" :> 9) @@ ("f2" :> 8) @@ ("f3" :> 7) @@ ("f4" :> 6)

MCDirOf == (ver1 :> "d1") @@ (ver2 :> "d2") @@ (ver3 :> None)
MCFilesOf == (ver1 :> {"a"}) @@ (ver2 :> {"a", "b"}) @@ (ver3 :> {"c"})

MCParts == {{"tabs"}, {"bell"}, {"account"}}

\* Names of a namespace, servers, column changes, tasks.
Symmetry == Permutations({item1, item2})
=============================================================================
