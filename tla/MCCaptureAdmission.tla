-------------------------- MODULE MCCaptureAdmission --------------------------
(***************************************************************************)
(* Small captures for CaptureAdmission: two different exchanges of one     *)
(* adapter, two that are the same, none, two adapters, and two artifacts   *)
(* of the same bytes.                                                      *)
(***************************************************************************)
EXTENDS CaptureAdmission

Bytes(name, size) == [kind |-> "bytes", name |-> name, size |-> size]

MCRebuilt == Bytes("rebuilt", 1)
MCALL == <<"clock">>
MCRules == <<[boundary |-> 1, class |-> "network-ipc-signal",
              allowed |-> <<"exact-transcript", "blocked">>],
             [boundary |-> 2, class |-> "state-service", allowed |-> <<"immutable-object">>]>>
Bundle(name, rules) == [name |-> name, policy |-> rules]
MCSupport == [rules |-> MCRules, capabilities |-> {"world.file"},
              bundle |-> Bundle("bundle", MCRules)]
MCOther == Bundle("other", MCRules)

\* Another bundle, another policy, and a bundle that is not for its policy.
MCSupports ==
    {[MCSupport EXCEPT !.bundle = MCOther],
     [MCSupport EXCEPT !.rules = Tail(MCRules), !.bundle = Bundle("tail", Tail(MCRules))],
     [MCSupport EXCEPT !.rules = Tail(MCRules)]}
MCEvidences ==
    {[executor |-> "other", isolation |-> "isolation"],
     [executor |-> "executor", isolation |-> "other"]}

MCIdentity == [category |-> "panic", code |-> NoCode, causes |-> 0, frames |-> 1,
               relative |-> TRUE, kind |-> "stream", operation |-> "op", type |-> "type"]
MCReference == [category |-> "panic", identity |-> MCIdentity,
                matcher |-> "exception-exact-v1", object |-> <<"minted", 1>>]

Binary == Bytes("binary", 2)
Debug == Bytes("debug", 0)
Launch == [launch |-> [executable |-> "bin"]]
MCSubject == [launch |-> Launch.launch,
              artifact |-> SingleFileClosure(Launch, Binary, Debug, {"sdk.rust"})]
MCDeployment == [mode |-> "private", project |-> 1, subject |-> MCSubject,
                 capabilities |-> {"sdk.rust"}, processor |-> {"avx", "requirement"}]

Cursor(name, adapter) == [cursor |-> name, adapter |-> adapter, parent |-> NoParent]
Exchange(name, adapter, body) ==
    [cursor |-> Cursor(name, adapter), request |-> Bytes(body, 1), response |-> Bytes("ok", 1)]

World(artifacts) ==
    [kind |-> "world", created |-> 1, size |-> 1,
     points |-> <<[provider |-> "files", published |-> 1, until |-> 2, artifacts |-> artifacts,
                   claim |-> [objects |-> 2, pinned |-> 2]]>>]
Artifact(content) == [media |-> "file", digest |-> content, size |-> content.size]

\* The records of a candidate, numbered.
Records(exchanges) ==
    LET bodies ==
          <<[kind |-> "begin", body |-> [campaign |-> NoContext, parents |-> {}, adapter |-> "http",
                                         operationKind |-> "stream", name |-> "op"]],
            [kind |-> "input", body |-> [index |-> 0, intact |-> TRUE, channel |-> "input",
                                         media |-> "text", content |-> Bytes("input", 1)]]>> \o
          [i \in DOMAIN exchanges |-> [kind |-> "dependency", body |-> exchanges[i].cursor]] \o
          <<[kind |-> "failure", body |-> [kind |-> "failure", size |-> 1,
                identity |-> MCIdentity, reference |-> MCReference]],
            [kind |-> "terminal", body |-> [complete |-> TRUE, count |-> 3 + Len(exchanges)]]>>
    IN [i \in DOMAIN bodies |-> [kind |-> bodies[i].kind, body |-> bodies[i].body,
                                 sequence |-> i - 1]]

Capture(exchanges, artifacts) ==
    LET world == World([i \in DOMAIN artifacts |-> Artifact(artifacts[i])]) IN
    [candidate |-> [operation |-> "operation", mode |-> "private", deployment |-> MCDeployment,
                    failure |-> MCReference, context |-> NoContext, source |-> "production",
                    world |-> world, records |-> Records(exchanges)],
     binary |-> Binary, debug |-> Debug, exchanges |-> exchanges, support |-> MCSupport,
     evidence |-> [executor |-> "executor", isolation |-> "isolation"],
     world |-> world, artifacts |-> artifacts]

\* The capture that is admitted and encrypted: one exchange and one artifact.
MCJobs == {Capture(<<Exchange("a", "db", "get")>>, <<Bytes("file1", 1)>>)}

MCCaptures ==
    LET a == Exchange("a", "db", "get")
        b == Exchange("b", "db", "get")
        c == Exchange("c", "other", "put")
        files == <<Bytes("file1", 1), Bytes("file2", 1)>>
    IN {Capture(<<a, [b EXCEPT !.request = Bytes("put", 1)]>>, files),
        Capture(<<a, b>>, <<files[1]>>), Capture(<<>>, files), Capture(<<a, c>>, files),
        Capture(<<a>>, <<files[1], files[1]>>)} \cup MCJobs

\* The capture that is admitted is sealed once, every other one twice.
MCSealBound == [c \in MCCaptures |-> IF c \in MCJobs THEN 1 ELSE 2]
MCSealOnce == [c \in MCJobs |-> 1]

MCIds == [capsule |-> <<"sealing", 1>>, manifest |-> <<"sealing", 5>>,
          proofs |-> <<<<"sealing", 2>>, <<"sealing", 3>>, <<"sealing", 4>>>>]
MCMetadata == [scope |-> [capture |-> 1, project |-> 1], campaign |-> NoContext,
               operation |-> NoOperation, parents |-> {}, source |-> "production"]
MCSymmetry == Permutations(Executors)
MCRequirements == {{"requirement"}}

================================================================================
