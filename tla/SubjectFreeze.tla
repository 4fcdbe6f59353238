----------------------------- MODULE SubjectFreeze -----------------------------
(***************************************************************************)
(* freeze_running_subject (crates/reproit-backend/src/subject.rs) step by  *)
(* step: the files of a deployed program are copied into a staging         *)
(* directory while others may write them.                                  *)
(*                                                                         *)
(* A file is written in place or replaced by another one of its name; a    *)
(* reader that has it open then goes on reading the old one.  A write may  *)
(* leave the modification time as it was: a clock is coarse, and a copy    *)
(* may keep the time of its original.                                      *)
(***************************************************************************)
EXTENDS SubjectPackages

CONSTANTS
    Disks,       \* the disks a program may be deployed on
    Requests,    \* SubjectPackagingRequest
    Written,     \* the paths that are written
    Block,       \* the blocks that a write may put
    WriteBound   \* how often files are written

\* A sequence of whatever it holds.
IsSequence(s) == s \in Seq({s[i] : i \in DOMAIN s})

IsContent(content) == IsSequence(content.blocks) /\ content = Content(content.blocks)

ASSUME FreezeAssumption ==
    /\ WriteBound \in Nat
    /\ \A d \in Disks : \A p \in DOMAIN d : IsContent(d[p].content) /\ d[p].time \in Nat

VARIABLES
    disk,     \* the deployed files
    staging,  \* the staging directory: its files by name
    job,      \* the freeze that is under way: its place and its locals
    frozen,   \* the FrozenSubjectClosure that the caller holds
    writes,   \* how often files were written
    held,     \* history: what each source held while it was being frozen
    hidden,   \* history: sources written behind the time while being copied
    moved,    \* history: sources written while being read again
    left      \* history: a crash or a failed removal left the staging behind

\* No staging directory, no FrozenSubjectClosure, no freeze under way.
NoStaging == [exists |-> FALSE]
NoSubject == [kind |-> "none"]
NoJob == [step |-> "none"]

freezeVars == <<disk, staging, job, frozen, writes, held, hidden, moved, left>>

FreezeInit ==
    /\ disk \in Disks
    /\ staging = NoStaging /\ job = NoJob /\ frozen = NoSubject /\ writes = 0
    /\ held = [p \in Written |-> {}] /\ hidden = {} /\ moved = {} /\ left = FALSE

--------------------------------------------------------------------------------
(* The end of a freeze *)

Partial(index) == <<"partial", index>>

Object(content) == <<"object", content>>

Directory(files) == [exists |-> TRUE, files |-> files]

\* A directory's files with one more.
Added(files, name, content, locked) ==
    [n \in DOMAIN files \cup {name} |->
       IF n = name THEN [content |-> content, locked |-> locked] ELSE files[n]]

\* StagingGuard::drop and FrozenSubjectClosure::drop: the directory is removed
\* unless the removal fails, which nobody hears of.
RemoveStaging ==
    \/ staging' = NoStaging /\ left' = left
    \/ staging' = staging /\ left' = TRUE

Fail == job' = NoJob /\ frozen' = NoSubject /\ RemoveStaging

Running(step) == job # NoJob /\ job.step = step

\* The step is taken if its condition holds; otherwise the freeze fails.
Try(condition, next) ==
    \/ condition /\ next
    \/ ~condition /\ Fail /\ UNCHANGED <<held, hidden, moved>>

--------------------------------------------------------------------------------
(* freeze_running_subject *)

\* SubjectPackagingLimits::validate.
ValidLimits(limits) == limits.file \in 1..limits.total /\ limits.files > 0

\* The staging directory is made anew: one that exists is refused.
StartFreeze(request) ==
    /\ job = NoJob
    /\ ValidLimits(request.limits)
    /\ staging = NoStaging
    /\ staging' = Directory(<<>>)
    /\ job' = [step |-> "discover", request |-> request]
    /\ held' = [p \in Written |-> {}] /\ hidden' = {} /\ moved' = {}
    /\ UNCHANGED <<disk, frozen, writes, left>>

\* discover_subject_files; then freeze_files looks at the first file.
Discover ==
    /\ Running("discover")
    /\ Try(Discoverable(disk, job.request),
           /\ job' = [step |-> "before", request |-> job.request, set |-> EmptySet, index |-> 0,
                      files |-> SubjectFiles(disk, job.request),
                      todo |-> SubjectFiles(disk, job.request)]
           /\ UNCHANGED <<staging, frozen, held, hidden, moved, left>>)
    /\ UNCHANGED <<disk, writes>>

\* The metadata of the next file.
ReadMetadata ==
    /\ Running("before") /\ job.todo # {}
    /\ \E file \in job.todo :
         LET meta == disk[file.source] IN
         /\ IsNext(file, job.todo)
         /\ Try(meta.content.size <= job.request.limits.file,
                /\ job' = [step |-> "open", request |-> job.request, set |-> job.set,
                           files |-> job.files, todo |-> job.todo \ {file}, index |-> job.index,
                           file |-> file, size |-> meta.content.size, time |-> meta.time,
                           replaced |-> <<>>, copied |-> <<>>, reread |-> <<>>]
                /\ held' = IF file.source \in Written
                           THEN [held EXCEPT ![file.source] = {meta.content}] ELSE held
                /\ UNCHANGED <<staging, frozen, hidden, moved, left>>)
    /\ UNCHANGED <<disk, writes>>

\* The source is opened and its partial copy created.
OpenSource ==
    /\ Running("open")
    /\ job' = [job EXCEPT !.step = "copy"]
    /\ staging' = Directory(Added(staging.files, Partial(job.index), Content(<<>>), FALSE))
    /\ UNCHANGED <<disk, frozen, writes, held, hidden, moved, left>>

\* What a reader of the current file reads: the file of that name, or the one
\* that was replaced after it was opened.
Source == IF job.replaced = <<>> THEN disk[job.file.source].content ELSE job.replaced[1]

\* copy_bounded: one read.
CopyBlock ==
    /\ Running("copy")
    /\ Len(job.copied) < Source.size
    /\ LET copied == Append(job.copied, Source.blocks[Len(job.copied) + 1]) IN
       Try(Len(copied) <= job.request.limits.file,
           /\ job' = [job EXCEPT !.copied = copied]
           /\ staging' = [staging EXCEPT !.files[Partial(job.index)].content = Content(copied)]
           /\ UNCHANGED <<frozen, held, hidden, moved, left>>)
    /\ UNCHANGED <<disk, writes>>

CopyEnd ==
    /\ Running("copy")
    /\ Len(job.copied) >= Source.size
    /\ job' = [job EXCEPT !.step = "after", !.replaced = <<>>]
    /\ UNCHANGED <<disk, staging, frozen, writes, held, hidden, moved, left>>

\* The metadata again: size and time are as before.
Unchanged ==
    LET meta == disk[job.file.source] IN
    /\ Len(job.copied) = job.size
    /\ job.size = meta.content.size
    /\ job.time = meta.time

CompareMetadata ==
    /\ Running("after")
    /\ Try(Unchanged, /\ job' = [job EXCEPT !.step = "reopen"]
                      /\ UNCHANGED <<staging, frozen, held, hidden, moved, left>>)
    /\ UNCHANGED <<disk, writes>>

\* hash_file opens the source by its name again.
Reopen ==
    /\ Running("reopen")
    /\ job' = [job EXCEPT !.step = "hash"]
    /\ UNCHANGED <<disk, staging, frozen, writes, held, hidden, moved, left>>

HashBlock ==
    /\ Running("hash")
    /\ Len(job.reread) < Source.size
    /\ LET reread == Append(job.reread, Source.blocks[Len(job.reread) + 1]) IN
       Try(Len(reread) <= job.request.limits.file,
           /\ job' = [job EXCEPT !.reread = reread]
           /\ UNCHANGED <<staging, frozen, held, hidden, moved, left>>)
    /\ UNCHANGED <<disk, writes>>

\* A mutant: the source is not compared with the copy.
SameSize == Len(job.reread) = Len(job.copied)

\* The second reading has the digest of the first.
SameDigest == job.reread = job.copied

HashEnd ==
    /\ Running("hash")
    /\ Len(job.reread) >= Source.size
    /\ Try(SameDigest, /\ job' = [job EXCEPT !.step = "keep"]
                       /\ UNCHANGED <<staging, frozen, held, hidden, moved, left>>)
    /\ UNCHANGED <<disk, writes>>

\* A mutant: the copy of a content that is already there is not removed.
KeptBesidePartial(content) ==
    LET others == Restrict(staging.files, DOMAIN staging.files \ {Partial(job.index)}) IN
    IF Object(content) \in DOMAIN others THEN staging.files
                                         ELSE Added(others, Object(content), content, TRUE)

\* The files once the copy has its final name, or gave way to an equal one.
Kept(content) ==
    LET others == Restrict(staging.files, DOMAIN staging.files \ {Partial(job.index)}) IN
    IF Object(content) \in DOMAIN others THEN others
                                         ELSE Added(others, Object(content), content, TRUE)

\* The end of freeze_one_file, and FrozenFileSet::record.
KeepObject ==
    /\ Running("keep")
    /\ \E content \in {Content(job.copied)} :
         Try(RecordAccepted(job.set, job.request, job.file, content),
             /\ staging' = Directory(Kept(content))
             /\ job' = [step |-> "before", request |-> job.request, files |-> job.files,
                        todo |-> job.todo, index |-> job.index + 1,
                        set |-> Recorded(job.set, job.request, job.file, content)]
             /\ UNCHANGED <<frozen, held, hidden, moved, left>>)
    /\ UNCHANGED <<disk, writes>>

\* The end of freeze_files, and the guard is disarmed.
Freeze ==
    /\ Running("before") /\ job.todo = {}
    /\ Try(/\ Bindable(job.set, job.files)
           /\ \E f \in job.set.files : f.executable
           /\ ValidSubjectClosure(FrozenManifest(job.request, job.set, job.files)),
           /\ frozen' = FrozenManifest(job.request, job.set, job.files)
           /\ job' = NoJob
           /\ UNCHANGED <<staging, held, hidden, moved, left>>)
    /\ UNCHANGED <<disk, writes>>

\* A file or the directory could not be read or written.
Unavailable ==
    /\ job # NoJob
    /\ Fail
    /\ UNCHANGED <<disk, writes, held, hidden, moved>>

\* The caller drops what was frozen.
DropFrozen ==
    /\ frozen # NoSubject
    /\ frozen' = NoSubject /\ RemoveStaging
    /\ UNCHANGED <<disk, job, writes, held, hidden, moved>>

\* The process ends without a drop, and starts again.
Crash ==
    /\ staging # NoStaging
    /\ job' = NoJob /\ frozen' = NoSubject /\ left' = TRUE
    /\ UNCHANGED <<disk, staging, writes, held, hidden, moved>>

--------------------------------------------------------------------------------
(* The others who write the files *)

\* What one write makes of a content.
Edits(content) ==
    {Content([content.blocks EXCEPT ![i] = b]) : i \in DOMAIN content.blocks, b \in Block} \cup
    {Content(Append(content.blocks, b)) : b \in Block} \cup
    (IF content.size = 0 THEN {}
     ELSE {Content(SubSeq(content.blocks, 1, content.size - 1))})

Freezing(path) == job # NoJob /\ job.step \notin {"discover", "before", "keep"}
                  /\ job.file.source = path

\* The write as a freeze of that file meets it.
Observed(path, content, silent) ==
    /\ held' = IF Freezing(path) THEN [held EXCEPT ![path] = @ \cup {content}] ELSE held
    /\ hidden' = IF Freezing(path) /\ silent /\ job.step \in {"open", "copy", "after"}
                 THEN hidden \cup {path} ELSE hidden
    /\ moved' = IF Freezing(path) /\ job.step = "hash" THEN moved \cup {path} ELSE moved

Put(path, content, silent) ==
    /\ IsFile(disk, path) /\ content # disk[path].content /\ writes < WriteBound
    /\ disk' = [disk EXCEPT ![path] =
                  [type |-> "file", content |-> content,
                   time |-> IF silent THEN @.time ELSE @.time + 1]]
    /\ writes' = writes + 1
    /\ Observed(path, content, silent)
    /\ UNCHANGED <<staging, frozen, left>>

WriteFile(path, content, silent) == Put(path, content, silent) /\ UNCHANGED job

\* Another file takes the name of one that may be open.
ReplaceFile(path, content, silent) ==
    /\ Put(path, content, silent)
    /\ Freezing(path) /\ job.step \in {"copy", "hash"} /\ job.replaced = <<>>
    /\ job' = [job EXCEPT !.replaced = <<disk[path].content>>]

Writer ==
    \E path \in Written, silent \in BOOLEAN :
      /\ IsFile(disk, path)
      /\ \E content \in Edits(disk[path].content) :
           WriteFile(path, content, silent) \/ ReplaceFile(path, content, silent)

FreezeNext ==
    \/ \E request \in Requests : StartFreeze(request)
    \/ Discover \/ ReadMetadata \/ OpenSource \/ CopyBlock \/ CopyEnd \/ CompareMetadata
    \/ Reopen \/ HashBlock \/ HashEnd \/ KeepObject \/ Freeze
    \/ Unavailable \/ DropFrozen \/ Crash

--------------------------------------------------------------------------------
(* Properties *)

\* Whatever is written meanwhile, a frozen closure lists no file as it never
\* was: each content was held whole by its source at some instant of its
\* freezing.  The one case the checks of freeze_one_file leave open is a file
\* written behind the modification time while it was copied and written once
\* more while it was read again.
FrozenWasHeld ==
    frozen # NoSubject =>
      \A f \in frozen.files :
        LET source == f.path[2] IN
        source \in Written \ (hidden \cap moved) => f.digest \in held[source]

\* The staging directory of a frozen closure holds its objects and nothing
\* else, each read-only under its own digest; a freeze that failed, and a
\* closure that was dropped, leave no directory, but for a crash or a removal
\* that itself failed.
StagingIsExact ==
    /\ frozen # NoSubject =>
         staging = Directory([name \in {Object(o.digest) : o \in frozen.objects} |->
                                [content |-> name[2], locked |-> TRUE]])
    /\ job = NoJob /\ frozen = NoSubject /\ ~left => staging = NoStaging

================================================================================
