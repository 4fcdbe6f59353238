---------------------------- MODULE SubjectPackages ----------------------------
(***************************************************************************)
(* What freeze_running_subject finds and records                           *)
(* (crates/reproit-backend/src/subject.rs): which files belong to a        *)
(* deployed program, what each is, and the subject closure manifest that   *)
(* lists the frozen ones.                                                  *)
(*                                                                         *)
(* A content is a sequence of blocks, the unit of one read.  A path has    *)
(* the directory it is in, its stem, its extension and its rank in the     *)
(* order of names; the extension "lock" stands for the names of launch     *)
(* data, and a native executable has none.  The application root holds     *)
(* files only.  A disk maps a path to its type, content and modification   *)
(* time.                                                                   *)
(***************************************************************************)
EXTENDS SubjectClosures, Sequences, Functions

Content(blocks) == [blocks |-> blocks, size |-> Len(blocks)]

IsFile(disk, path) == path \in DOMAIN disk /\ disk[path].type = "file"

--------------------------------------------------------------------------------
(* discover_subject_files *)

Native == {"rust", "go"}

ModuleExtensions ==
    [dotnet |-> {"dll", "exe"}, node |-> {"cjs", "js", "mjs", "node"},
     python |-> {"py", "pyc", "so"}]

InterpretedSource == {"cjs", "js", "mjs", "py"}

\* classify_pdb, from the first bytes of the file.
ClassifyPdb(content) ==
    CASE content.size > 0 /\ content.blocks[1] = "BSJB" -> "portable-pdb"
      [] content.size > 0 /\ content.blocks[1] = "MSF"  -> "native-pdb"
      [] OTHER -> "refused"

\* debug_artifact_kind.
DebugArtifactKind(disk, path) ==
    CASE path.ext = "pdb"             -> ClassifyPdb(disk[path].content)
      [] path.ext = "map"             -> "source-map"
      [] path.ext \in {"debug", "dwp"} -> "dwarf"
      [] OTHER -> "none"

\* classify_application_file.
Classify(family, path, debug) ==
    CASE debug # "none"    -> [kind |-> "debug-artifact", module |-> FALSE]
      [] path.ext = "lock" -> [kind |-> "launch-data", module |-> FALSE]
      [] OTHER -> [kind |-> "application", module |-> path.ext \in ModuleExtensions[family]]

MediaType(path, kind, debug) ==
    CASE kind = "debug-artifact" -> debug
      [] kind \in {"launch-data", "native-dependency", "runtime"} -> kind
      [] OTHER -> IF path.ext \in InterpretedSource THEN "text" ELSE "subject-file"

\* DiscoveredFile, as push_file makes it; a target is a section and a name.
DiscoveredFile(disk, path, section, class) ==
    LET debug == DebugArtifactKind(disk, path) IN
    [source |-> path, target |-> <<section, path>>, kind |-> class.kind, module |-> class.module,
     debug |-> debug, media |-> MediaType(path, class.kind, debug)]

\* discover_native_debug_artifacts: the files beside a native executable.
Adjacent(disk, path) ==
    {p \in DOMAIN disk \ {path} : /\ p.dir = path.dir /\ p.stem = path.stem
                                  /\ p.ext \in {"debug", "dwp", "pdb"}}

\* collect_tree: the entries below the application root.
Tree(disk) == {p \in DOMAIN disk : p.dir = "root"}

\* The native files, or the tree and an executable outside of it.
OwnFiles(disk, request) ==
    LET class(kind, module) == [kind |-> kind, module |-> module]
        executable(kind) ==
            DiscoveredFile(disk, request.entrypoint, "bin", class(kind, TRUE))
    IN
    IF request.family \in Native
    THEN {executable("application")} \cup
         {DiscoveredFile(disk, p, "debug", class("debug-artifact", FALSE)) :
            p \in Adjacent(disk, request.entrypoint)}
    ELSE {DiscoveredFile(disk, p, "app", Classify(request.family, p, DebugArtifactKind(disk, p))) :
            p \in Tree(disk)} \cup
         (IF request.entrypoint \in Tree(disk) THEN {} ELSE {executable("runtime")})

\* loaded_native_dependencies, of a program that packages itself.
LoadedFiles(disk, request) ==
    LET own == {f.source : f \in OwnFiles(disk, request)} IN
    {DiscoveredFile(disk, p, "lib", [kind |-> "native-dependency", module |-> TRUE]) :
       p \in request.loaded \ own}

SubjectFiles(disk, request) == OwnFiles(disk, request) \cup LoadedFiles(disk, request)

\* A link or another kind of entry is refused, as is a PDB of no known format.
Discoverable(disk, request) ==
    LET entries == (IF request.family \in Native THEN Adjacent(disk, request.entrypoint)
                                                 ELSE Tree(disk))
                   \cup {request.entrypoint} \cup request.loaded
    IN
    /\ \A p \in entries : IsFile(disk, p)
    /\ \A f \in SubjectFiles(disk, request) : f.debug # "refused"
    /\ Cardinality(SubjectFiles(disk, request)) \in 1..request.limits.files
    /\ UniqueBy("target", SubjectFiles(disk, request))

Section == <<"app", "bin", "debug", "lib">>

\* The order of the targets.
Before(f, g) ==
    LET place(section) == CHOOSE i \in DOMAIN Section : Section[i] = section IN
    \/ place(f.target[1]) < place(g.target[1])
    \/ f.target[1] = g.target[1] /\ f.source.rank < g.source.rank

IsNext(f, files) == \A g \in files \ {f} : Before(f, g)

--------------------------------------------------------------------------------
(* FrozenFileSet *)

EmptySet == [objects |-> {}, files |-> {}, modules |-> {}, debug |-> {}, stems |-> {}, total |-> 0]

\* contains_embedded_dwarf.
EmbeddedDwarf(content) ==
    content.size > 0 /\ content.blocks[1] = "ELF" /\ "DWARF" \in Range(content.blocks)

\* record and record_module: what a frozen file adds to the set.
Recorded(set, request, file, content) ==
    LET object == SubjectObject(content, file.kind, file.media)
        binding(kind) == DebugBinding(file.target, content, kind, content)
        interpreted == /\ request.family \in {"node", "python"}
                       /\ file.source.ext \in InterpretedSource
    IN
    [objects |-> set.objects \cup {object},
     total |-> set.total + (IF object \in set.objects THEN 0 ELSE content.size),
     files |-> set.files \cup
         {SubjectFile(file.target, content, file.source = request.entrypoint)},
     modules |-> set.modules \cup
         (IF file.module THEN {SubjectModule(file.target, content)} ELSE {}),
     stems |-> set.stems \cup (IF file.module THEN {<<file.source.stem, content>>} ELSE {}),
     debug |-> set.debug \cup
         (IF file.module /\ interpreted THEN {binding("interpreted-source")} ELSE {}) \cup
         (IF file.module /\ EmbeddedDwarf(content) THEN {binding("dwarf")} ELSE {})]

\* One record for a digest, one module for a stem, and the total in bounds.
RecordAccepted(set, request, file, content) ==
    LET next == Recorded(set, request, file, content) IN
    /\ UniqueBy("digest", next.objects)
    /\ next.total <= request.limits.total
    /\ \A s, t \in next.stems : s[1] = t[1] => s[2] = t[2]

\* bind_debug_artifacts: the modules a debug artifact may belong to.
ModuleOf(set, file) ==
    LET named == {s \in set.stems : s[1] = file.source.stem} IN
    IF named # {} THEN named ELSE IF Cardinality(set.stems) = 1 THEN set.stems ELSE {}

Bindable(set, files) == \A f \in files : f.debug # "none" => ModuleOf(set, f) # {}

Bound(set, files) ==
    LET module(f) == CHOOSE m \in ModuleOf(set, f) : TRUE
        frozenAs(f) == {s \in set.files : s.path = f.target}
    IN UNION {{DebugBinding(f.target, s.digest, f.debug, module(f)[2]) : s \in frozenAs(f)} :
              f \in {f \in files : f.debug # "none"}}

\* The manifest that freeze_files makes of the set.
FrozenManifest(request, set, files) ==
    [kind |-> "subject-closure", family |-> request.family,
     launch |-> [executable |-> (CHOOSE f \in set.files : f.executable).path],
     objects |-> set.objects, files |-> set.files, modules |-> set.modules,
     debug |-> set.debug \cup Bound(set, files), total |-> set.total, size |-> 1]

================================================================================
