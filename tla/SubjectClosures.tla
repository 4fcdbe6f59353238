---------------------------- MODULE SubjectClosures ----------------------------
(***************************************************************************)
(* The manifest of a subject closure and its validation                    *)
(* (crates/reproit-core/src/model/subject.rs), and the manifest of a       *)
(* private single-file subject (crates/reproit-backend/src/subject.rs).    *)
(* Each list of a manifest is kept in strict order of its digests or       *)
(* paths: here it is a set.  A path is that of a file below the subject's  *)
(* root.                                                                   *)
(***************************************************************************)
EXTENDS Integers, FiniteSets, FiniteSetsExt

CONSTANTS
    MaxSubjectEntries,  \* MAX_OBJECTS, MAX_FILES, MAX_MODULES, MAX_DEBUG_ARTIFACTS
    MaxSubjectBytes     \* MAX_SUBJECT_BYTES

SubjectObject(content, kind, media) ==
    [digest |-> content, kind |-> kind, media |-> media, size |-> content.size]

SubjectFile(path, content, executable) ==
    [path |-> path, digest |-> content, executable |-> executable]

SubjectModule(path, content) == [path |-> path, digest |-> content]

DebugBinding(path, content, kind, module) ==
    [path |-> path, digest |-> content, kind |-> kind, module |-> module]

UniqueBy(field, entries) == Cardinality({e[field] : e \in entries}) = Cardinality(entries)

\* validate_debug_artifacts: the kind of the object that a binding points at.
DebugKindAllowed(manifest, binding) ==
    LET kinds == {o.kind : o \in {o \in manifest.objects : o.digest = binding.digest}} IN
    IF \/ binding.kind = "interpreted-source"
       \/ binding.kind = "dwarf" /\ binding.digest = binding.module
    THEN kinds # {}
    ELSE kinds = {"debug-artifact"}

\* SubjectClosureManifest::validate.
ValidSubjectClosure(manifest) ==
    LET digests == {o.digest : o \in manifest.objects}
        at(entry) == \E f \in manifest.files : f.path = entry.path /\ f.digest = entry.digest
    IN
    /\ \A entries \in {Cardinality(manifest.objects), Cardinality(manifest.files),
                       Cardinality(manifest.modules), Cardinality(manifest.debug)} :
         entries \in 1..MaxSubjectEntries
    /\ UniqueBy("digest", manifest.objects)
    /\ manifest.total = MapThenSumSet(LAMBDA o : o.size, manifest.objects)
    /\ manifest.total <= MaxSubjectBytes
    /\ UniqueBy("path", manifest.files)
    /\ \A f \in manifest.files : f.digest \in digests
    /\ UniqueBy("path", manifest.modules)
    /\ \A m \in manifest.modules : at(m)
    /\ UniqueBy("path", manifest.debug)
    /\ \A b \in manifest.debug :
         /\ at(b) /\ DebugKindAllowed(manifest, b)
         /\ \E m \in manifest.modules : m.digest = b.module
    /\ \E f \in manifest.files : f.path = manifest.launch.executable /\ f.executable

\* single_file_subject_closure.
SingleFileClosure(subject, binary, debug, family) ==
    [kind |-> "subject-closure", family |-> family, launch |-> subject.launch,
     objects |-> {SubjectObject(binary, "application", "subject-file"),
                  SubjectObject(debug, "debug-artifact", "dwarf")},
     files |-> {SubjectFile("bin", binary, TRUE), SubjectFile("debug", debug, FALSE)},
     modules |-> {SubjectModule("bin", binary)},
     debug |-> {DebugBinding("debug", debug, "dwarf", binary)},
     total |-> binary.size + debug.size, size |-> 1]

\* verify_single_file_subject.
SingleFileVerified(subject, binary, debug, family) ==
    LET manifest == SingleFileClosure(subject, binary, debug, family) IN
    /\ ValidSubjectClosure(manifest)
    /\ manifest = subject.artifact

================================================================================
