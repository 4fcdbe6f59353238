---------------------------- MODULE MCManagedPath ----------------------------
(***************************************************************************)
(* Small subjects and candidates for ManagedPath: a native program with    *)
(* debug information beside it and a library, and an interpreted one with  *)
(* two modules of the same bytes, a source map, launch data and a runtime  *)
(* outside of its root; and a root with a link in it, and one with a PDB.  *)
(* Two failures of the native program are captured.                        *)
(***************************************************************************)
EXTENDS ManagedPath

Path(dir, stem, ext, rank) == [dir |-> dir, stem |-> stem, ext |-> ext, rank |-> rank]
App == Path("dir", "app", "none", 1)
AppDebug == Path("dir", "app", "debug", 2)
Lib == Path("usr", "libc", "so", 2)
Copy == Path("root", "copy", "js", 1)
Main == Path("root", "main", "js", 2)
MainMap == Path("root", "main", "map", 3)
Lock == Path("root", "package", "lock", 4)
Link == Path("root", "link", "js", 5)
Pdb == Path("root", "main", "pdb", 6)
Runtime == Path("usr", "node", "none", 1)

File(blocks) == [type |-> "file", content |-> Content(blocks), time |-> 0]

NativeDisk ==
    [p \in {App, AppDebug, Lib} |->
       CASE p = App      -> File(<<"ELF", "a">>)
         [] p = AppDebug -> File(<<"d">>)
         [] p = Lib      -> File(<<"ELF", "DWARF">>)]
TreeDisk ==
    [p \in {Main, MainMap, Copy, Lock, Runtime} |->
       CASE p = Runtime -> File(<<"ELF">>)
         [] p = MainMap -> File(<<"m">>)
         [] p = Lock    -> File(<<>>)
         [] OTHER       -> File(<<"a", "b">>)]
LinkDisk ==
    [p \in {Copy, Link} |->
       IF p = Copy THEN File(<<"a">>) ELSE [File(<<>>) EXCEPT !.type = "symlink"]]
PdbDisk ==
    [p \in {Copy, Pdb} |-> IF p = Pdb THEN File(<<"BSJB">>) ELSE File(<<"a">>)]

MCDisks == {NativeDisk, TreeDisk, LinkDisk, PdbDisk}

Request(family, entrypoint, loaded, files) ==
    [family |-> family, entrypoint |-> entrypoint, loaded |-> loaded,
     limits |-> [file |-> 2, files |-> files, total |-> 6]]
MCRequests ==
    {Request("rust", App, {Lib}, 3), Request("node", Runtime, {}, 5), Request("node", Copy, {}, 3),
     Request("dotnet", Copy, {}, 2)}
MCWritten == {App, Main, Pdb}

--------------------------------------------------------------------------------

Bytes(name) == [kind |-> "bytes", name |-> name, size |-> 1]
MCRebuilt == Bytes("rebuilt")
MCALL == <<"clock">>

MCIdentity == [category |-> "panic", code |-> NoCode, causes |-> 0, frames |-> 1,
               relative |-> TRUE, kind |-> "stream", operation |-> "op", type |-> "type"]
MCReference == [category |-> "panic", identity |-> MCIdentity,
                matcher |-> "exception-exact-v1", object |-> <<"minted", 1>>]
MCFailure == [kind |-> "failure", size |-> 1, identity |-> MCIdentity, reference |-> MCReference]
MCScope == [project |-> 1, service |-> 1]
MCWorld(c) ==
    [kind |-> "world", created |-> 1, size |-> 1,
     points |-> <<[provider |-> "files", published |-> 1, until |-> 2,
                   artifacts |-> <<[media |-> "file", digest |-> Bytes(c), size |-> 1]>>,
                   claim |-> [objects |-> 1, pinned |-> 1]]>>]
MCRecords ==
    LET bodies ==
          <<[kind |-> "begin", body |-> [campaign |-> NoContext, parents |-> {}, adapter |-> "http",
                                         operationKind |-> "stream", name |-> "op"]],
            [kind |-> "failure", body |-> MCFailure],
            [kind |-> "terminal", body |-> [complete |-> TRUE, count |-> 2]]>>
    IN [i \in DOMAIN bodies |-> [kind |-> bodies[i].kind, body |-> bodies[i].body,
                                 sequence |-> i - 1]]

MCCandidateOf(manifest, c) ==
    [operation |-> "operation", mode |-> "managed", capture |-> c, kind |-> "candidate",
     size |-> 1, failure |-> MCReference, context |-> NoContext, source |-> "production",
     world |-> MCWorld(c), records |-> MCRecords,
     deployment |-> [mode |-> "managed", project |-> 1, scope |-> MCScope, revision |-> "revision",
                     subject |-> [launch |-> manifest.launch, artifact |-> manifest],
                     capabilities |-> {"sdk.rust"}, processor |-> {}, signer |-> WorkloadKey]]

MCObjectsOf(candidate) ==
    LET subject == candidate.deployment.subject.artifact IN
    {LogicalObject(<<"candidate">>, "candidate", "candidate", candidate),
     LogicalObject(<<"failure">>, "failure", "failure", MCFailure),
     LogicalObject(<<"subject">>, "subject", "subject-closure", subject),
     LogicalObject(<<"trigger">>, "trigger", "trigger", Bytes("trigger")),
     LogicalObject(<<"world">>, "world-manifest", "world", candidate.world),
     LogicalObject(<<"state">>, "world-state", "file", Bytes(candidate.capture))} \cup
    {LogicalObject(<<"member", o.digest>>, "subject", o.media, o.digest) : o \in subject.objects}

MCSymmetry == Permutations(Workers)

MCHost == [c \in HostCategory |-> "host"]
MCRequired ==
    {<<c, "host">> : c \in HostCategory} \cup
    {<<"debugger", "gdb">>, <<"processor.feature", "avx">>, <<"processor.requirement", "digest">>}
MCCapabilities ==
    [e \in Executors |->
       LET all == {c \in MCRequired : c[1] # "processor.requirement"} IN
       IF e = "e1" THEN all ELSE {c \in all : c[1] # "processor.feature"}]

================================================================================
