--------------------------- MODULE ManagedPathProofs ---------------------------
(***************************************************************************)
(* Proofs about ManagedPath, for any captures, workers, executors, times   *)
(* and documents.                                                          *)
(***************************************************************************)
EXTENDS ManagedPath, TLAPS

\* What was in a sequence stays where it was.
LEMMA AppendKeeps ==
    ASSUME NEW s, IsSequence(s), NEW e
    PROVE  /\ IsSequence(Append(s, e))
           /\ DOMAIN Append(s, e) = 1..(Len(s) + 1)
           /\ DOMAIN s = 1..Len(s) /\ Len(s) \in Nat
           /\ \A i \in DOMAIN s : Append(s, e)[i] = s[i]
           /\ Append(s, e)[Len(s) + 1] = e
<1> DEFINE S == {s[i] : i \in DOMAIN s}
           T == {Append(s, e)[i] : i \in DOMAIN Append(s, e)}
<1>1. s \in Seq(S) /\ s \in Seq(S \cup {e}) /\ e \in S \cup {e}
  BY DEF IsSequence
<1>2. /\ Append(s, e) \in Seq(S \cup {e})
      /\ Len(s) \in Nat /\ DOMAIN s = 1..Len(s)
      /\ Len(Append(s, e)) = Len(s) + 1
      /\ \A i \in 1..Len(s) : Append(s, e)[i] = s[i]
      /\ Append(s, e)[Len(s) + 1] = e
  <2> HIDE DEF S
  <2> QED BY <1>1
<1>3. DOMAIN Append(s, e) = 1..(Len(s) + 1)
  <2> HIDE DEF S
  <2> QED BY <1>2
<1>4. Append(s, e) \in Seq(T)
  <2> HIDE DEF S
  <2>1. \A i \in 1..Len(Append(s, e)) : Append(s, e)[i] \in T
    BY <1>2, <1>3
  <2> HIDE DEF T
  <2> QED BY <1>2, <2>1
<1> QED BY <1>2, <1>3, <1>4 DEF IsSequence

--------------------------------------------------------------------------------
(* The staging directory *)

FileSteps == {"open", "copy", "after", "reopen", "hash", "keep"}

\* A freeze that is under way has the locals of its step.
JobOk ==
    \/ job = NoJob
    \/ job = [step |-> "discover", request |-> job.request]
    \/ job = [step |-> "before", request |-> job.request, set |-> job.set, index |-> job.index,
              files |-> job.files, todo |-> job.todo]
    \/ /\ job.step \in FileSteps
       /\ job = [step |-> job.step, request |-> job.request, set |-> job.set,
                 files |-> job.files, todo |-> job.todo, index |-> job.index,
                 file |-> job.file, size |-> job.size, time |-> job.time,
                 replaced |-> job.replaced, copied |-> job.copied, reread |-> job.reread]

\* The files of a staging directory that has these objects and no partial copy.
Exact(objects) ==
    [name \in {Object(o.digest) : o \in objects} |-> [content |-> name[2], locked |-> TRUE]]

\* What the staging directory holds at each step.
StagingHolds ==
    /\ frozen # NoSubject => job = NoJob /\ staging = Directory(Exact(frozen.objects))
    /\ job = NoJob /\ frozen = NoSubject /\ ~left => staging = NoStaging
    /\ job.step = "discover" => staging = Directory(<<>>)
    /\ job.step \in {"before", "open"} => staging = Directory(Exact(job.set.objects))
    /\ job.step = "open" => job.copied = <<>>
    /\ job.step \in FileSteps \ {"open"} =>
         staging = Directory(Added(Exact(job.set.objects), Partial(job.index),
                                   Content(job.copied), FALSE))

StagingInv == JobOk /\ StagingHolds

LEMMA EmptyFiles == Exact({}) = <<>>
BY DEF Exact

LEMMA JobSteps ==
    ASSUME JobOk
    PROVE  /\ job = NoJob <=> job.step = "none"
           /\ job.step \in {"none", "discover", "before"} \cup FileSteps
BY DEF JobOk, NoJob, FileSteps

\* The freeze ends without a closure.
LEMMA FailStaging == ASSUME Fail PROVE StagingInv'
BY DEF Fail, RemoveStaging, StagingInv, JobOk, StagingHolds, NoJob, NoSubject, FileSteps

\* A step of the job that leaves the directory.
LEMMA StepStaging ==
    ASSUME StagingInv, NEW label, job.step \in FileSteps, label \in FileSteps,
           label = "open" <=> job.step = "open",
           UNCHANGED <<staging, frozen, left>>,
           NEW replaced, NEW reread,
           job' = [step |-> label, request |-> job.request, set |-> job.set,
                   files |-> job.files, todo |-> job.todo, index |-> job.index,
                   file |-> job.file, size |-> job.size, time |-> job.time,
                   replaced |-> replaced, copied |-> job.copied, reread |-> reread]
    PROVE  StagingInv'
<1>1. JobOk'
  BY DEF JobOk
<1>2. job # NoJob /\ job' # NoJob
  BY DEF NoJob, FileSteps
<1> QED BY <1>1, <1>2 DEF StagingInv, StagingHolds, FileSteps

LEMMA StartStaging ==
    ASSUME StagingInv, NEW request, StartFreeze(request)
    PROVE  StagingInv'
<1>1. frozen = NoSubject
  BY DEF StartFreeze, StagingInv, StagingHolds, NoStaging, Directory
<1> QED BY <1>1 DEF StartFreeze, StagingInv, StagingHolds, JobOk, NoJob, FileSteps

LEMMA DiscoverStaging == ASSUME StagingInv, Discover PROVE StagingInv'
<1>1. CASE Fail
  BY <1>1, FailStaging
<1>2. CASE /\ job' = [step |-> "before", request |-> job.request, set |-> EmptySet, index |-> 0,
                      files |-> SubjectFiles(disk, job.request),
                      todo |-> SubjectFiles(disk, job.request)]
           /\ UNCHANGED <<staging, frozen, left>>
  <2>1. job # NoJob /\ job.step = "discover" /\ job' # NoJob
    BY <1>2 DEF Discover, Running, NoJob
  <2>2. staging' = Directory(Exact({})) /\ frozen' = NoSubject
    BY <1>2, <2>1, EmptyFiles DEF StagingInv, StagingHolds
  <2>3. EmptySet.objects = {}
    BY DEF EmptySet
  <2>4. job'.step = "before" /\ job'.set = EmptySet
    BY <1>2
  <2>5. JobOk'
    BY <1>2 DEF JobOk
  <2> QED BY <2>1, <2>2, <2>3, <2>4, <2>5 DEF StagingInv, StagingHolds, FileSteps
<1> QED BY <1>1, <1>2 DEF Discover, Try

\* The files of a freeze that is at a file.
LEMMA AtFile ==
    ASSUME JobOk, job.step \in FileSteps
    PROVE  /\ job # NoJob
           /\ job = [step |-> job.step, request |-> job.request, set |-> job.set,
                     files |-> job.files, todo |-> job.todo, index |-> job.index,
                     file |-> job.file, size |-> job.size, time |-> job.time,
                     replaced |-> job.replaced, copied |-> job.copied, reread |-> job.reread]
BY DEF JobOk, FileSteps, NoJob

LEMMA MetadataStaging == ASSUME StagingInv, ReadMetadata PROVE StagingInv'
<1>1. CASE Fail
  BY <1>1, FailStaging
<1>2. ASSUME NEW file, NEW meta,
             /\ job' = [step |-> "open", request |-> job.request, set |-> job.set,
                        files |-> job.files, todo |-> job.todo \ {file}, index |-> job.index,
                        file |-> file, size |-> meta.content.size, time |-> meta.time,
                        replaced |-> <<>>, copied |-> <<>>, reread |-> <<>>]
             /\ UNCHANGED <<staging, frozen, left>>
      PROVE  StagingInv'
  <2>1. job # NoJob /\ job.step = "before" /\ job' # NoJob
    BY <1>2 DEF ReadMetadata, Running, NoJob
  <2>2. JobOk'
    BY <1>2 DEF JobOk, FileSteps
  <2>3. job'.step = "open" /\ job'.set = job.set
    BY <1>2
  <2> QED BY <1>2, <2>1, <2>2, <2>3 DEF StagingInv, StagingHolds, FileSteps
<1> QED BY <1>1, <1>2 DEF ReadMetadata, Try

LEMMA OpenStaging == ASSUME StagingInv, OpenSource PROVE StagingInv'
<1>1. job # NoJob /\ job.step = "open" /\ job.step \in FileSteps
  BY DEF OpenSource, Running, FileSteps
<1>2. staging = Directory(Exact(job.set.objects)) /\ frozen = NoSubject
  BY <1>1 DEF StagingInv, StagingHolds
<1>3. job' = [step |-> "copy", request |-> job.request, set |-> job.set,
              files |-> job.files, todo |-> job.todo, index |-> job.index,
              file |-> job.file, size |-> job.size, time |-> job.time,
              replaced |-> job.replaced, copied |-> job.copied, reread |-> job.reread]
  BY <1>1, AtFile DEF OpenSource, StagingInv
<1>4. JobOk' /\ job'.step = "copy" /\ job' # NoJob
  BY <1>3 DEF JobOk, FileSteps, NoJob
<1>5. job.copied = <<>>
  BY <1>1 DEF StagingInv, StagingHolds
<1>6. staging.files = Exact(job.set.objects)
  BY <1>2 DEF Directory
<1> QED BY <1>1, <1>2, <1>3, <1>4, <1>5, <1>6
           DEF OpenSource, StagingInv, StagingHolds, FileSteps

\* The copy is the file that was added, with another content.
LEMMA AddedReplaced ==
    ASSUME NEW files, NEW name, NEW content, NEW next, NEW locked
    PROVE  [Added(files, name, content, locked) EXCEPT ![name].content = next]
             = Added(files, name, next, locked)
<1> DEFINE before == [content |-> content, locked |-> locked]
           after == [content |-> next, locked |-> locked]
           added == Added(files, name, content, locked)
           last == Added(files, name, next, locked)
<1>1. [before EXCEPT !.content = next] = after
  OBVIOUS
<1>2. /\ added = [n \in DOMAIN files \cup {name} |-> IF n = name THEN before ELSE files[n]]
      /\ last = [n \in DOMAIN files \cup {name} |-> IF n = name THEN after ELSE files[n]]
  BY DEF Added
<1> HIDE DEF before, after, added, last
<1>3. added[name] = before
  BY <1>2
<1>4. [added EXCEPT ![name] = after] = last
  BY <1>2
<1>5. [added EXCEPT ![name].content = next] = last
  BY <1>1, <1>3, <1>4
<1> QED BY <1>5 DEF added, last

LEMMA CopyStaging == ASSUME StagingInv, CopyBlock PROVE StagingInv'
<1>1. CASE Fail
  BY <1>1, FailStaging
<1>2. ASSUME NEW copied,
             /\ job' = [job EXCEPT !.copied = copied]
             /\ staging' = [staging EXCEPT !.files[Partial(job.index)].content = Content(copied)]
             /\ UNCHANGED <<frozen, left>>
      PROVE  StagingInv'
  <2>1. job # NoJob /\ job.step = "copy" /\ job.step \in FileSteps \ {"open"}
    BY DEF CopyBlock, Running, FileSteps
  <2> DEFINE files == Added(Exact(job.set.objects), Partial(job.index), Content(job.copied), FALSE)
             next == Added(Exact(job.set.objects), Partial(job.index), Content(copied), FALSE)
  <2>2. staging = Directory(files) /\ frozen = NoSubject
    BY <2>1 DEF StagingInv, StagingHolds
  <2>3. job' = [step |-> job.step, request |-> job.request, set |-> job.set,
                files |-> job.files, todo |-> job.todo, index |-> job.index,
                file |-> job.file, size |-> job.size, time |-> job.time,
                replaced |-> job.replaced, copied |-> copied, reread |-> job.reread]
    BY <1>2, <2>1, AtFile DEF StagingInv
  <2>4. JobOk' /\ job' # NoJob
    BY <2>1, <2>3 DEF JobOk, FileSteps, NoJob
  <2>5. [files EXCEPT ![Partial(job.index)].content = Content(copied)] = next
    <3> DEFINE unlocked == FALSE
    <3>1. files = Added(Exact(job.set.objects), Partial(job.index), Content(job.copied), unlocked)
          /\ next = Added(Exact(job.set.objects), Partial(job.index), Content(copied), unlocked)
      OBVIOUS
    <3> HIDE DEF files, next, unlocked
    <3> QED BY <3>1, AddedReplaced
  <2>6. staging' = Directory(next)
    <3> HIDE DEF files, next
    <3>1. staging = [exists |-> TRUE, files |-> files]
      BY <2>2 DEF Directory
    <3>2. staging' = [exists |-> TRUE,
                      files |-> [files EXCEPT ![Partial(job.index)].content = Content(copied)]]
      BY <1>2, <3>1
    <3> QED BY <3>2, <2>5 DEF Directory
  <2>7. job'.set = job.set /\ job'.index = job.index /\ job'.copied = copied /\ job'.step = job.step
    BY <2>3
  <2>8. staging' = Directory(Added(Exact(job'.set.objects), Partial(job'.index),
                                   Content(job'.copied), FALSE))
    BY <2>6, <2>7
  <2> HIDE DEF files, next
  <2> QED BY <1>2, <2>1, <2>2, <2>4, <2>7, <2>8 DEF StagingInv, StagingHolds, FileSteps
<1> QED BY <1>1, <1>2 DEF CopyBlock, Try

LEMMA CopyEndStaging == ASSUME StagingInv, CopyEnd PROVE StagingInv'
<1>1. job.step = "copy" /\ job.step \in FileSteps /\ "after" \in FileSteps
  BY DEF CopyEnd, Running, FileSteps
<1>2. job' = [step |-> "after", request |-> job.request, set |-> job.set,
              files |-> job.files, todo |-> job.todo, index |-> job.index,
              file |-> job.file, size |-> job.size, time |-> job.time,
              replaced |-> <<>>, copied |-> job.copied, reread |-> job.reread]
  BY <1>1, AtFile DEF CopyEnd, StagingInv
<1> QED BY <1>1, <1>2, StepStaging DEF CopyEnd

LEMMA CompareStaging == ASSUME StagingInv, CompareMetadata PROVE StagingInv'
<1>1. CASE Fail
  BY <1>1, FailStaging
<1>2. CASE job' = [job EXCEPT !.step = "reopen"] /\ UNCHANGED <<staging, frozen, left>>
  <2>1. job.step = "after" /\ job.step \in FileSteps /\ "reopen" \in FileSteps
    BY DEF CompareMetadata, Running, FileSteps
  <2>2. job' = [step |-> "reopen", request |-> job.request, set |-> job.set,
                files |-> job.files, todo |-> job.todo, index |-> job.index,
                file |-> job.file, size |-> job.size, time |-> job.time,
                replaced |-> job.replaced, copied |-> job.copied, reread |-> job.reread]
    BY <1>2, <2>1, AtFile DEF StagingInv
  <2> QED BY <1>2, <2>1, <2>2, StepStaging
<1> QED BY <1>1, <1>2 DEF CompareMetadata, Try

LEMMA ReopenStaging == ASSUME StagingInv, Reopen PROVE StagingInv'
<1>1. job.step = "reopen" /\ job.step \in FileSteps /\ "hash" \in FileSteps
  BY DEF Reopen, Running, FileSteps
<1>2. job' = [step |-> "hash", request |-> job.request, set |-> job.set,
              files |-> job.files, todo |-> job.todo, index |-> job.index,
              file |-> job.file, size |-> job.size, time |-> job.time,
              replaced |-> job.replaced, copied |-> job.copied, reread |-> job.reread]
  BY <1>1, AtFile DEF Reopen, StagingInv
<1> QED BY <1>1, <1>2, StepStaging DEF Reopen

LEMMA HashStaging == ASSUME StagingInv, HashBlock PROVE StagingInv'
<1>1. CASE Fail
  BY <1>1, FailStaging
<1>2. ASSUME NEW reread, job' = [job EXCEPT !.reread = reread], UNCHANGED <<staging, frozen, left>>
      PROVE  StagingInv'
  <2>1. job.step = "hash" /\ job.step \in FileSteps
    BY DEF HashBlock, Running, FileSteps
  <2>2. job' = [step |-> job.step, request |-> job.request, set |-> job.set,
                files |-> job.files, todo |-> job.todo, index |-> job.index,
                file |-> job.file, size |-> job.size, time |-> job.time,
                replaced |-> job.replaced, copied |-> job.copied, reread |-> reread]
    BY <1>2, <2>1, AtFile DEF StagingInv
  <2> QED BY <1>2, <2>1, <2>2, StepStaging
<1> QED BY <1>1, <1>2 DEF HashBlock, Try

LEMMA HashEndStaging == ASSUME StagingInv, HashEnd PROVE StagingInv'
<1>1. CASE Fail
  BY <1>1, FailStaging
<1>2. CASE job' = [job EXCEPT !.step = "keep"] /\ UNCHANGED <<staging, frozen, left>>
  <2>1. job.step = "hash" /\ job.step \in FileSteps /\ "keep" \in FileSteps
    BY DEF HashEnd, Running, FileSteps
  <2>2. job' = [step |-> "keep", request |-> job.request, set |-> job.set,
                files |-> job.files, todo |-> job.todo, index |-> job.index,
                file |-> job.file, size |-> job.size, time |-> job.time,
                replaced |-> job.replaced, copied |-> job.copied, reread |-> job.reread]
    BY <1>2, <2>1, AtFile DEF StagingInv
  <2> QED BY <1>2, <2>1, <2>2, StepStaging
<1> QED BY <1>1, <1>2 DEF HashEnd, Try

LEMMA WriterStaging == ASSUME StagingInv, Writer PROVE StagingInv'
<1>1. UNCHANGED <<staging, frozen, left>>
  BY DEF Writer, WriteFile, ReplaceFile, Put
<1>2. CASE UNCHANGED job
  BY <1>1, <1>2 DEF StagingInv, JobOk, StagingHolds, FileSteps
<1>3. ASSUME NEW path, NEW content, NEW silent, ReplaceFile(path, content, silent)
      PROVE  StagingInv'
  <2>1. job.step \in FileSteps \ {"open"}
    BY <1>3 DEF ReplaceFile, FileSteps
  <2>2. job' = [job EXCEPT !.replaced = <<disk[path].content>>]
    BY <1>3 DEF ReplaceFile
  <2>3. job' = [step |-> job.step, request |-> job.request, set |-> job.set,
                files |-> job.files, todo |-> job.todo, index |-> job.index,
                file |-> job.file, size |-> job.size, time |-> job.time,
                replaced |-> <<disk[path].content>>, copied |-> job.copied,
                reread |-> job.reread]
    BY <2>1, <2>2, AtFile DEF StagingInv
  <2> QED BY <1>1, <2>1, <2>3, StepStaging
<1> QED BY <1>2, <1>3 DEF Writer, WriteFile

LEMMA FreezeStaging == ASSUME StagingInv, Freeze PROVE StagingInv'
<1>1. CASE Fail
  BY <1>1, FailStaging
<1>2. CASE /\ frozen' = FrozenManifest(job.request, job.set, job.files)
           /\ job' = NoJob
           /\ UNCHANGED <<staging, left>>
  <2>1. job # NoJob /\ job.step = "before"
    BY DEF Freeze, Running
  <2>2. staging = Directory(Exact(job.set.objects))
    BY <2>1 DEF StagingInv, StagingHolds
  <2>3. frozen'.objects = job.set.objects /\ frozen' # NoSubject
    BY <1>2 DEF FrozenManifest, NoSubject
  <2> QED BY <1>2, <2>2, <2>3 DEF StagingInv, StagingHolds, JobOk, NoJob, FileSteps
<1> QED BY <1>1, <1>2 DEF Freeze, Try

LEMMA EndStaging == ASSUME StagingInv, Unavailable \/ DropFrozen \/ Crash PROVE StagingInv'
<1>1. CASE Unavailable
  BY <1>1, FailStaging DEF Unavailable
<1>2. CASE DropFrozen
  <2>1. job = NoJob /\ job' = NoJob /\ frozen' = NoSubject /\ RemoveStaging
    BY <1>2 DEF DropFrozen, StagingInv, StagingHolds
  <2> QED BY <2>1, FailStaging DEF Fail
<1>3. CASE Crash
  BY <1>3 DEF Crash, StagingInv, JobOk, StagingHolds, NoJob, NoSubject, FileSteps
<1> QED BY <1>1, <1>2, <1>3

\* The copy takes its final name, or gives way to an object of the same bytes.
LEMMA KeptExact ==
    ASSUME NEW objects, NEW object, NEW content, NEW locked, object.digest = content,
           staging.files = Added(Exact(objects), Partial(job.index), content, locked)
    PROVE  Kept(content) = Exact(objects \cup {object})
<1> DEFINE partial == Partial(job.index)
           exact == Exact(objects)
           others == Restrict(staging.files, DOMAIN staging.files \ {partial})
           value(name) == [content |-> name[2], locked |-> TRUE]
           names == {Object(o.digest) : o \in objects}
<1>1. exact = [name \in names |-> value(name)]
  BY DEF Exact
<1>2. partial \notin names
  BY DEF Partial, Object
<1>3. staging.files = [n \in names \cup {partial} |->
                         IF n = partial THEN [content |-> content, locked |-> locked]
                                        ELSE value(n)]
  <2>1. staging.files = Added(exact, partial, content, locked) /\ DOMAIN exact = names
        /\ \A n \in names : exact[n] = value(n)
    <3>1. staging.files = Added(exact, partial, content, locked)
      OBVIOUS
    <3> HIDE DEF exact, partial, names, value
    <3> QED BY <1>1, <3>1
  <2> HIDE DEF exact, partial, names, value
  <2> QED BY <2>1 DEF Added
<1>4. others = [n \in names |-> value(n)]
  <2> HIDE DEF value, names, partial, exact
  <2>1. DOMAIN staging.files \ {partial} = names
    BY <1>2, <1>3
  <2>2. \A n \in names : staging.files[n] = value(n)
    BY <1>2, <1>3
  <2> QED BY <2>1, <2>2 DEF Restrict
<1>5. {Object(o.digest) : o \in objects \cup {object}} = names \cup {Object(content)}
  OBVIOUS
<1>6. Exact(objects \cup {object}) = [n \in names \cup {Object(content)} |-> value(n)]
  BY <1>5 DEF Exact
<1>7. value(Object(content)) = [content |-> content, locked |-> TRUE]
  BY DEF Object
<1>8. Kept(content) = IF Object(content) \in DOMAIN others THEN others
                      ELSE Added(others, Object(content), content, TRUE)
  BY DEF Kept
<1> HIDE DEF value, names, others, exact, partial
<1>9. CASE Object(content) \in names
  BY <1>4, <1>6, <1>8, <1>9
<1>10. CASE Object(content) \notin names
  <2>1. Added(others, Object(content), content, TRUE)
          = [n \in names \cup {Object(content)} |->
               IF n = Object(content) THEN value(Object(content)) ELSE others[n]]
    BY <1>4, <1>7 DEF Added
  <2>2. \A n \in names : others[n] = value(n)
    BY <1>4
  <2> QED BY <1>4, <1>6, <1>8, <1>10, <2>1, <2>2
<1> QED BY <1>9, <1>10

LEMMA KeepStaging == ASSUME StagingInv, KeepObject PROVE StagingInv'
<1>1. CASE Fail
  BY <1>1, FailStaging
<1> DEFINE content == Content(job.copied)
           set == Recorded(job.set, job.request, job.file, content)
           object == SubjectObject(content, job.file.kind, job.file.media)
<1>2. CASE /\ staging' = Directory(Kept(content))
           /\ job' = [step |-> "before", request |-> job.request, files |-> job.files,
                      todo |-> job.todo, index |-> job.index + 1, set |-> set]
           /\ UNCHANGED <<frozen, left>>
  <2>1. job # NoJob /\ job.step \in FileSteps \ {"open"} /\ job' # NoJob /\ job'.step = "before"
    BY <1>2 DEF KeepObject, Running, NoJob, FileSteps
  <2>2. staging.files = Added(Exact(job.set.objects), Partial(job.index), content, FALSE)
        /\ frozen = NoSubject
    <3> DEFINE files == Added(Exact(job.set.objects), Partial(job.index), content, FALSE)
    <3>1. staging = Directory(files) /\ frozen = NoSubject
      BY <2>1 DEF StagingInv, StagingHolds
    <3> HIDE DEF files
    <3>2. staging.files = files
      BY <3>1 DEF Directory
    <3> QED BY <3>1, <3>2 DEF files
  <2>3. set.objects = job.set.objects \cup {object}
    BY DEF Recorded
  <2>4. object.digest = content
    BY DEF SubjectObject
  <2>5. job'.set = set /\ JobOk'
    <3> HIDE DEF set, content
    <3> QED BY <1>2 DEF JobOk
  <2> HIDE DEF set, content, object
  <2>6. Kept(content) = Exact(set.objects)
    <3>1. \A objects, locked :
            staging.files = Added(Exact(objects), Partial(job.index), content, locked)
              => Kept(content) = Exact(objects \cup {object})
      BY <2>4, KeptExact
    <3>2. Kept(content) = Exact(job.set.objects \cup {object})
      BY <2>2, <3>1, Zenon
    <3> QED BY <2>3, <3>2
  <2> QED BY <1>2, <2>1, <2>2, <2>5, <2>6 DEF StagingInv, StagingHolds, FileSteps
<1> QED BY <1>1, <1>2 DEF KeepObject, Try

LEMMA StagingStep == ASSUME StagingInv, [FreezeNext \/ Writer]_freezeVars PROVE StagingInv'
<1>1. CASE UNCHANGED freezeVars
  BY <1>1 DEF freezeVars, StagingInv, JobOk, StagingHolds, FileSteps
<1> QED
  BY <1>1, StartStaging, DiscoverStaging, MetadataStaging, OpenStaging, CopyStaging,
     CopyEndStaging, CompareStaging, ReopenStaging, HashStaging, HashEndStaging, KeepStaging,
     FreezeStaging, EndStaging, WriterStaging DEF FreezeNext

LEMMA StagingStart == FreezeInit => StagingInv
BY DEF FreezeInit, StagingInv, JobOk, StagingHolds, NoJob, NoSubject, FileSteps

LEMMA StagingImplies == StagingInv => StagingIsExact
BY DEF StagingInv, StagingHolds, StagingIsExact, Exact

--------------------------------------------------------------------------------
(* What was frozen *)

\* A frozen file has a content that its source held, unless the source was
\* written both behind the time and while it was read again.
WasHeld(file) ==
    LET source == file.path[2] IN
    source \in Written \ (hidden \cap moved) => file.digest \in held[source]

DiskOk == \A p \in DOMAIN disk : IsContent(disk[p].content) /\ disk[p].time \in Nat

\* Each source is one file, and what was recorded is of the files before.
FilesOk ==
    /\ \A f \in job.files : f.source \in DOMAIN disk /\ f.target[2] = f.source
    /\ \A f, g \in job.files : f.source = g.source => f = g
    /\ job.todo \subseteq job.files
    /\ \A s \in job.set.files :
         /\ WasHeld(s)
         /\ \E g \in job.files \ job.todo :
              s.path = g.target /\ (job.step \in FileSteps => g # job.file)

\* One sequence begins with another.
Begins(sequence, start) ==
    /\ IsSequence(start) /\ Len(start) <= Len(sequence)
    /\ \A i \in 1..Len(start) : start[i] = sequence[i]

\* The file that is being frozen.  What its source holds was held; as long as
\* nothing is written behind the time, an unchanged time means that the copy
\* is of what is there; as long as nothing is written meanwhile, so is the
\* second reading.
CurrentOk ==
    LET p == job.file.source IN
    /\ job.file \in job.files \ job.todo
    /\ IsSequence(job.copied) /\ IsSequence(job.reread)
    /\ job.step \in {"open", "after", "reopen"} => job.replaced = <<>>
    /\ job.step \in {"open", "copy", "after", "reopen"} => job.reread = <<>>
    /\ job.time \in Nat /\ job.time <= disk[p].time
    /\ p \in Written =>
         /\ job.step # "keep" => disk[p].content \in held[p]
         /\ job.step \in {"open", "copy", "after"} /\ p \notin hidden /\ job.time = disk[p].time =>
              job.replaced = <<>> /\ Begins(disk[p].content.blocks, job.copied)
         /\ job.step \in {"reopen", "hash", "keep"} /\ p \notin hidden =>
              Content(job.copied) \in held[p]
         /\ job.step = "hash" /\ p \notin moved =>
              job.replaced = <<>> /\ Begins(disk[p].content.blocks, job.reread)
         /\ job.step = "keep" /\ p \notin moved => Content(job.copied) \in held[p]

HeldInv ==
    /\ DiskOk
    /\ held = [p \in Written |-> held[p]]
    /\ job.step \in {"before"} \cup FileSteps => FilesOk
    /\ job.step \in FileSteps => CurrentOk
    /\ frozen # NoSubject => \A f \in frozen.files : WasHeld(f)

LEMMA BeginsMore ==
    ASSUME NEW s, NEW t, IsSequence(s), Begins(s, t), Len(t) < Len(s)
    PROVE  Begins(s, Append(t, s[Len(t) + 1]))
<1>1. IsSequence(t) /\ Len(s) \in Nat
  BY DEF Begins, IsSequence
<1> DEFINE u == Append(t, s[Len(t) + 1])
<1>2. /\ IsSequence(u) /\ DOMAIN u = 1..(Len(t) + 1) /\ DOMAIN t = 1..Len(t) /\ Len(t) \in Nat
      /\ \A i \in DOMAIN t : u[i] = t[i]
      /\ u[Len(t) + 1] = s[Len(t) + 1]
  BY <1>1, AppendKeeps
<1>3. Len(u) \in Nat /\ DOMAIN u = 1..Len(u)
  <2> HIDE DEF u
  <2> QED BY <1>2 DEF IsSequence
<1> HIDE DEF u
<1>4. Len(u) = Len(t) + 1
  BY <1>2, <1>3
<1>5. \A i \in 1..Len(u) : u[i] = s[i]
  BY <1>2, <1>4 DEF Begins
<1>6. Begins(s, u)
  BY <1>1, <1>2, <1>4, <1>5 DEF Begins
<1> QED BY <1>6 DEF u

LEMMA BeginsAll ==
    ASSUME NEW s, NEW t, IsSequence(s), Begins(s, t), Len(t) >= Len(s)
    PROVE  t = s
<1>1. /\ Len(s) \in Nat /\ DOMAIN s = 1..Len(s) /\ s = [i \in 1..Len(s) |-> s[i]]
      /\ Len(t) \in Nat /\ DOMAIN t = 1..Len(t) /\ t = [i \in 1..Len(t) |-> t[i]]
  BY DEF Begins, IsSequence
<1>2. Len(t) <= Len(s) /\ \A i \in 1..Len(t) : t[i] = s[i]
  BY DEF Begins
<1>3. Len(t) = Len(s)
  <2> DEFINE m == Len(s)
             n == Len(t)
  <2>1. m \in Nat /\ n \in Nat /\ n <= m /\ n >= m
    BY <1>1, <1>2
  <2> HIDE DEF m, n
  <2>2. n = m
    BY <2>1
  <2> QED BY <2>2 DEF m, n
<1> QED BY <1>1, <1>2, <1>3

LEMMA BeginsEmpty == ASSUME NEW s, IsSequence(s) PROVE IsSequence(<<>>) /\ Begins(s, <<>>)
<1>1. IsSequence(<<>>) /\ Len(<<>>) = 0 /\ Len(s) \in Nat
  BY DEF IsSequence
<1> QED BY <1>1 DEF Begins

\* A write leaves a content.
LEMMA EditsAreContents ==
    ASSUME NEW content, IsContent(content), NEW next \in Edits(content)
    PROVE  IsContent(next)
<1> DEFINE s == content.blocks
           S == {s[i] : i \in DOMAIN s}
<1>1. IsSequence(s) /\ s \in Seq(S) /\ content.size = Len(s)
  BY DEF IsContent, IsSequence, Content
<1>2. ASSUME NEW t, NEW T, t \in Seq(T) PROVE IsContent(Content(t))
  <2>1. t \in Seq({t[i] : i \in DOMAIN t})
    BY <1>2
  <2>2. Content(t).blocks = t
    BY DEF Content
  <2> QED BY <2>1, <2>2 DEF IsContent, IsSequence
<1> HIDE DEF s, S
<1>3. ASSUME NEW i \in DOMAIN s, NEW b PROVE [s EXCEPT ![i] = b] \in Seq(S \cup {b})
  BY <1>1
<1>4. ASSUME NEW b PROVE Append(s, b) \in Seq(S \cup {b})
  <2>1. s \in Seq(S \cup {b})
    BY <1>1
  <2> QED BY <2>1
<1>5. ASSUME content.size # 0 PROVE SubSeq(s, 1, content.size - 1) \in Seq(S)
  BY <1>1, <1>5
<1>6. \/ \E i \in DOMAIN s, b \in Block : next = Content([s EXCEPT ![i] = b])
      \/ \E b \in Block : next = Content(Append(s, b))
      \/ content.size # 0 /\ next = Content(SubSeq(s, 1, content.size - 1))
  BY DEF Edits, s
<1> QED BY <1>2, <1>3, <1>4, <1>5, <1>6

\* What is discovered is on the disk, each source once.
LEMMA DiscoveredFiles ==
    ASSUME NEW d, NEW r, Discoverable(d, r)
    PROVE  /\ \A f \in SubjectFiles(d, r) : f.source \in DOMAIN d /\ f.target[2] = f.source
           /\ \A f, g \in SubjectFiles(d, r) : f.source = g.source => f = g
<1> DEFINE made(p, section, class) == DiscoveredFile(d, p, section, class)
<1>1. \A p, section, class : /\ made(p, section, class).source = p
                             /\ made(p, section, class).target[2] = p
  BY DEF DiscoveredFile
<1> HIDE DEF made
<1>2. \A p \in {r.entrypoint} \cup r.loaded : p \in DOMAIN d
  BY DEF Discoverable, IsFile
<1>3. /\ \A f \in OwnFiles(d, r) : f.source \in DOMAIN d /\ f.target[2] = f.source
      /\ \A f, g \in OwnFiles(d, r) : f.source = g.source => f = g
  <2>1. CASE r.family \in Native
    <3>1. OwnFiles(d, r) =
            {made(r.entrypoint, "bin", [kind |-> "application", module |-> TRUE])} \cup
            {made(p, "debug", [kind |-> "debug-artifact", module |-> FALSE]) :
               p \in Adjacent(d, r.entrypoint)}
      BY <2>1 DEF OwnFiles, made
    <3>2. \A p \in Adjacent(d, r.entrypoint) : p \in DOMAIN d /\ p # r.entrypoint
      BY DEF Adjacent
    <3> QED BY <1>1, <1>2, <3>1, <3>2
  <2>2. CASE r.family \notin Native
    <3>1. OwnFiles(d, r) =
            {made(p, "app", Classify(r.family, p, DebugArtifactKind(d, p))) : p \in Tree(d)} \cup
            (IF r.entrypoint \in Tree(d) THEN {}
             ELSE {made(r.entrypoint, "bin", [kind |-> "runtime", module |-> TRUE])})
      BY <2>2 DEF OwnFiles, made
    <3>2. \A p \in Tree(d) : p \in DOMAIN d
      BY DEF Tree
    <3> QED BY <1>1, <1>2, <3>1, <3>2
  <2> QED BY <2>1, <2>2
<1>4. LoadedFiles(d, r) = {made(p, "lib", [kind |-> "native-dependency", module |-> TRUE]) :
                             p \in r.loaded \ {f.source : f \in OwnFiles(d, r)}}
  BY DEF LoadedFiles, made
<1> QED BY <1>1, <1>2, <1>3, <1>4 DEF SubjectFiles

\* Nothing else changes what was recorded and held.
LEMMA SameRecords ==
    ASSUME HeldInv, UNCHANGED <<disk, held, hidden, moved>>
    PROVE  DiskOk' /\ held' = [p \in Written |-> held'[p]] /\ \A f : WasHeld(f)' = WasHeld(f)
BY DEF HeldInv, DiskOk, WasHeld

\* A freeze that is over.
LEMMA OverHeld ==
    ASSUME HeldInv, UNCHANGED <<disk, held, hidden, moved>>, job' = NoJob, frozen' = NoSubject
    PROVE  HeldInv'
BY SameRecords DEF HeldInv, NoJob, FileSteps

LEMMA FailHeld ==
    ASSUME HeldInv, Fail, UNCHANGED <<disk, held, hidden, moved>>
    PROVE  HeldInv'
BY OverHeld DEF Fail

\* A step at a file leaves what was recorded.
LEMMA StepHeld ==
    ASSUME StagingInv, HeldInv, NEW label \in FileSteps, job.step \in FileSteps,
           UNCHANGED <<disk, frozen, held, hidden, moved>>,
           NEW replaced, NEW copied, NEW reread,
           job' = [step |-> label, request |-> job.request, set |-> job.set,
                   files |-> job.files, todo |-> job.todo, index |-> job.index,
                   file |-> job.file, size |-> job.size, time |-> job.time,
                   replaced |-> replaced, copied |-> copied, reread |-> reread],
           CurrentOk'
    PROVE  HeldInv'
<1>1. job # NoJob /\ job'.step \in FileSteps /\ frozen = NoSubject
  BY DEF FileSteps, NoJob, StagingInv, StagingHolds
<1>2. FilesOk
  BY DEF HeldInv
<1>3. FilesOk'
  BY <1>1, <1>2, SameRecords DEF FilesOk
<1> QED BY <1>1, <1>3, SameRecords DEF HeldInv

LEMMA StartHeld ==
    ASSUME StagingInv, HeldInv, NEW request, StartFreeze(request)
    PROVE  HeldInv'
<1>1. frozen = NoSubject
  BY DEF StartFreeze, StagingInv, StagingHolds, NoStaging, Directory
<1>2. DiskOk'
  BY DEF HeldInv, DiskOk, StartFreeze
<1>3. job'.step = "discover" /\ held' = [p \in Written |-> held'[p]] /\ frozen' = NoSubject
  BY <1>1 DEF StartFreeze
<1> QED BY <1>2, <1>3 DEF HeldInv, FileSteps

LEMMA DiscoverHeld == ASSUME StagingInv, HeldInv, Discover PROVE HeldInv'
<1>1. UNCHANGED disk
  BY DEF Discover
<1>2. CASE Fail /\ UNCHANGED <<held, hidden, moved>>
  BY <1>1, <1>2, FailHeld
<1>3. CASE /\ Discoverable(disk, job.request)
           /\ job' = [step |-> "before", request |-> job.request, set |-> EmptySet, index |-> 0,
                      files |-> SubjectFiles(disk, job.request),
                      todo |-> SubjectFiles(disk, job.request)]
           /\ UNCHANGED <<frozen, held, hidden, moved>>
  <2>1. job # NoJob
    BY DEF Discover, Running
  <2>2. frozen = NoSubject
    BY <2>1 DEF StagingInv, StagingHolds
  <2>3. job'.step = "before" /\ job'.set.files = {} /\ job'.todo = SubjectFiles(disk, job.request)
        /\ job'.files = SubjectFiles(disk, job.request)
    BY <1>3 DEF EmptySet
  <2>4. FilesOk'
    BY <1>1, <1>3, <2>3, DiscoveredFiles DEF FilesOk
  <2> QED BY <1>1, <1>3, <2>2, <2>3, <2>4, SameRecords DEF HeldInv, FileSteps
<1> QED BY <1>2, <1>3 DEF Discover, Try

LEMMA MetadataHeld == ASSUME StagingInv, HeldInv, ReadMetadata PROVE HeldInv'
<1>1. UNCHANGED disk /\ job # NoJob /\ job.step = "before"
  BY DEF ReadMetadata, Running
<1>2. CASE Fail /\ UNCHANGED <<held, hidden, moved>>
  BY <1>1, <1>2, FailHeld
<1>3. ASSUME NEW file \in job.todo,
             /\ job' = [step |-> "open", request |-> job.request, set |-> job.set,
                        files |-> job.files, todo |-> job.todo \ {file}, index |-> job.index,
                        file |-> file, size |-> disk[file.source].content.size,
                        time |-> disk[file.source].time,
                        replaced |-> <<>>, copied |-> <<>>, reread |-> <<>>]
             /\ held' = IF file.source \in Written
                        THEN [held EXCEPT ![file.source] = {disk[file.source].content}] ELSE held
             /\ UNCHANGED <<frozen, hidden, moved>>
      PROVE  HeldInv'
  <2> DEFINE p == file.source
  <2>1. frozen = NoSubject /\ FilesOk
    BY <1>1 DEF StagingInv, StagingHolds, HeldInv
  <2>2. /\ job'.step = "open" /\ job'.set = job.set /\ job'.files = job.files
        /\ job'.todo = job.todo \ {file} /\ job'.file = file
        /\ job'.time = disk[p].time /\ job'.replaced = <<>>
        /\ job'.copied = <<>> /\ job'.reread = <<>>
    BY <1>3
  <2>3. /\ held' = [q \in Written |-> held'[q]]
        /\ \A q \in Written \ {p} : held'[q] = held[q]
        /\ p \in Written => disk[p].content \in held'[p]
    BY <1>3 DEF HeldInv
  <2>4. file \in job.files /\ p \in DOMAIN disk
    BY <2>1 DEF FilesOk
  <2>5. IsContent(disk[p].content) /\ disk[p].time \in Nat
    BY <2>4 DEF HeldInv, DiskOk
  <2>6. DiskOk'
    BY <1>1 DEF HeldInv, DiskOk
  <2>7. FilesOk'
    <3>1. ASSUME NEW s \in job.set.files
          PROVE  WasHeld(s)' /\ \E g \in job.files \ (job.todo \ {file}) :
                                  s.path = g.target /\ g # file
      <4>1. PICK g \in job.files \ job.todo : s.path = g.target
        BY <2>1 DEF FilesOk
      <4>2. g # file /\ g.source # p /\ s.path[2] = g.source /\ WasHeld(s)
        BY <2>1, <2>4, <4>1 DEF FilesOk
      <4>3. WasHeld(s)'
        BY <1>3, <2>3, <4>2 DEF WasHeld
      <4> QED BY <4>1, <4>2, <4>3
    <3> QED BY <1>1, <2>1, <2>2, <3>1 DEF FilesOk
  <2>8. CurrentOk'
    <3>1. IsSequence(disk[p].content.blocks)
      BY <2>5 DEF IsContent
    <3>2. Begins(disk[p].content.blocks, <<>>) /\ IsSequence(<<>>)
      BY <3>1, BeginsEmpty
    <3> QED BY <1>1, <2>2, <2>3, <2>4, <2>5, <3>2 DEF CurrentOk
  <2> QED BY <1>3, <2>1, <2>2, <2>3, <2>6, <2>7, <2>8 DEF HeldInv, FileSteps
<1> QED BY <1>2, <1>3 DEF ReadMetadata, Try

LEMMA OpenHeld == ASSUME StagingInv, HeldInv, OpenSource PROVE HeldInv'
<1>1. job.step = "open" /\ job.step \in FileSteps /\ "copy" \in FileSteps
  BY DEF OpenSource, Running, FileSteps
<1>2. job' = [step |-> "copy", request |-> job.request, set |-> job.set,
              files |-> job.files, todo |-> job.todo, index |-> job.index,
              file |-> job.file, size |-> job.size, time |-> job.time,
              replaced |-> job.replaced, copied |-> job.copied, reread |-> job.reread]
  BY <1>1, AtFile DEF OpenSource, StagingInv
<1>3. UNCHANGED <<disk, frozen, held, hidden, moved>> /\ CurrentOk
  BY <1>1 DEF OpenSource, HeldInv
<1>4. CurrentOk'
  BY <1>1, <1>2, <1>3 DEF CurrentOk
<1> QED BY <1>1, <1>2, <1>3, <1>4, StepHeld

\* The file that is being frozen is on the disk.
LEMMA CurrentContent ==
    ASSUME HeldInv, job.step \in FileSteps
    PROVE  LET content == disk[job.file.source].content IN
           /\ IsContent(content) /\ IsSequence(content.blocks)
           /\ content.size = Len(content.blocks) /\ content = Content(content.blocks)
<1>1. CurrentOk /\ FilesOk
  BY DEF HeldInv, FileSteps
<1>2. job.file.source \in DOMAIN disk
  BY <1>1 DEF CurrentOk, FilesOk
<1>3. IsContent(disk[job.file.source].content)
  BY <1>2 DEF HeldInv, DiskOk
<1> QED BY <1>3 DEF IsContent, Content

LEMMA CopyHeld == ASSUME StagingInv, HeldInv, CopyBlock PROVE HeldInv'
<1>1. UNCHANGED disk /\ job.step = "copy" /\ job.step \in FileSteps
      /\ Len(job.copied) < Source.size
  BY DEF CopyBlock, Running, FileSteps
<1>2. CASE Fail /\ UNCHANGED <<held, hidden, moved>>
  BY <1>1, <1>2, FailHeld
<1> DEFINE copied == Append(job.copied, Source.blocks[Len(job.copied) + 1])
<1>3. CASE /\ job' = [job EXCEPT !.copied = copied]
           /\ UNCHANGED <<frozen, held, hidden, moved>>
  <2>1. CurrentOk
    BY <1>1 DEF HeldInv
  <2>2. IsSequence(copied)
    BY <2>1, AppendKeeps DEF CurrentOk
  <2> DEFINE blocks == disk[job.file.source].content.blocks
  <2>3. ASSUME job.replaced = <<>>, Begins(blocks, job.copied) PROVE Begins(blocks, copied)
    <3>1. Source = disk[job.file.source].content
      BY <2>3 DEF Source
    <3>2. IsSequence(blocks) /\ Source.size = Len(blocks) /\ Source.blocks = blocks
      BY <1>1, <3>1, CurrentContent
    <3> HIDE DEF blocks
    <3> QED BY <1>1, <2>3, <3>2, BeginsMore
  <2> HIDE DEF copied
  <2>4. job' = [step |-> job.step, request |-> job.request, set |-> job.set,
                files |-> job.files, todo |-> job.todo, index |-> job.index,
                file |-> job.file, size |-> job.size, time |-> job.time,
                replaced |-> job.replaced, copied |-> copied, reread |-> job.reread]
    BY <1>1, <1>3, AtFile DEF StagingInv
  <2>5. CurrentOk'
    BY <1>1, <1>3, <2>1, <2>2, <2>3, <2>4 DEF CurrentOk
  <2> QED BY <1>1, <1>3, <2>4, <2>5, StepHeld
<1> QED BY <1>2, <1>3 DEF CopyBlock, Try

LEMMA CopyEndHeld == ASSUME StagingInv, HeldInv, CopyEnd PROVE HeldInv'
<1>1. job.step = "copy" /\ job.step \in FileSteps /\ "after" \in FileSteps
  BY DEF CopyEnd, Running, FileSteps
<1>2. job' = [step |-> "after", request |-> job.request, set |-> job.set,
              files |-> job.files, todo |-> job.todo, index |-> job.index,
              file |-> job.file, size |-> job.size, time |-> job.time,
              replaced |-> <<>>, copied |-> job.copied, reread |-> job.reread]
  BY <1>1, AtFile DEF CopyEnd, StagingInv
<1>3. UNCHANGED <<disk, frozen, held, hidden, moved>> /\ CurrentOk
  BY <1>1 DEF CopyEnd, HeldInv
<1>4. CurrentOk'
  BY <1>1, <1>2, <1>3 DEF CurrentOk
<1> QED BY <1>1, <1>2, <1>3, <1>4, StepHeld

LEMMA CompareHeld == ASSUME StagingInv, HeldInv, CompareMetadata PROVE HeldInv'
<1>1. UNCHANGED disk /\ job.step = "after" /\ job.step \in FileSteps /\ "reopen" \in FileSteps
  BY DEF CompareMetadata, Running, FileSteps
<1>2. CASE Fail /\ UNCHANGED <<held, hidden, moved>>
  BY <1>1, <1>2, FailHeld
<1>3. CASE /\ Unchanged
           /\ job' = [job EXCEPT !.step = "reopen"]
           /\ UNCHANGED <<frozen, held, hidden, moved>>
  <2>1. CurrentOk
    BY <1>1 DEF HeldInv
  <2> DEFINE p == job.file.source
  <2>2. ASSUME p \in Written, p \notin hidden PROVE Content(job.copied) \in held[p]
    <3>1. job.time = disk[p].time /\ Len(job.copied) = disk[p].content.size
      BY <1>3 DEF Unchanged
    <3>2. Begins(disk[p].content.blocks, job.copied) /\ disk[p].content \in held[p]
      BY <1>1, <2>1, <2>2, <3>1 DEF CurrentOk
    <3>3. /\ IsSequence(disk[p].content.blocks) /\ disk[p].content = Content(disk[p].content.blocks)
          /\ Len(job.copied) >= Len(disk[p].content.blocks)
      <4>1. /\ IsSequence(disk[p].content.blocks)
            /\ disk[p].content = Content(disk[p].content.blocks)
            /\ Len(job.copied) = Len(disk[p].content.blocks)
        BY <1>1, <3>1, CurrentContent
      <4>2. Len(disk[p].content.blocks) \in Nat
        BY <4>1 DEF IsSequence
      <4> QED BY <4>1, <4>2
    <3>4. job.copied = disk[p].content.blocks
      BY <3>2, <3>3, BeginsAll
    <3> QED BY <3>2, <3>3, <3>4
  <2>3. job' = [step |-> "reopen", request |-> job.request, set |-> job.set,
                files |-> job.files, todo |-> job.todo, index |-> job.index,
                file |-> job.file, size |-> job.size, time |-> job.time,
                replaced |-> job.replaced, copied |-> job.copied, reread |-> job.reread]
    BY <1>1, <1>3, AtFile DEF StagingInv
  <2>4. CurrentOk'
    BY <1>1, <1>3, <2>1, <2>2, <2>3 DEF CurrentOk
  <2> QED BY <1>1, <1>3, <2>3, <2>4, StepHeld
<1> QED BY <1>2, <1>3 DEF CompareMetadata, Try

LEMMA ReopenHeld == ASSUME StagingInv, HeldInv, Reopen PROVE HeldInv'
<1>1. job.step = "reopen" /\ job.step \in FileSteps /\ "hash" \in FileSteps
  BY DEF Reopen, Running, FileSteps
<1>2. job' = [step |-> "hash", request |-> job.request, set |-> job.set,
              files |-> job.files, todo |-> job.todo, index |-> job.index,
              file |-> job.file, size |-> job.size, time |-> job.time,
              replaced |-> job.replaced, copied |-> job.copied, reread |-> job.reread]
  BY <1>1, AtFile DEF Reopen, StagingInv
<1>3. UNCHANGED <<disk, frozen, held, hidden, moved>> /\ CurrentOk
  BY <1>1 DEF Reopen, HeldInv
<1>4. Begins(disk[job.file.source].content.blocks, <<>>)
  BY <1>1, CurrentContent, BeginsEmpty
<1>5. CurrentOk'
  BY <1>1, <1>2, <1>3, <1>4 DEF CurrentOk
<1> QED BY <1>1, <1>2, <1>3, <1>5, StepHeld

LEMMA HashHeld == ASSUME StagingInv, HeldInv, HashBlock PROVE HeldInv'
<1>1. UNCHANGED disk /\ job.step = "hash" /\ job.step \in FileSteps
      /\ Len(job.reread) < Source.size
  BY DEF HashBlock, Running, FileSteps
<1>2. CASE Fail /\ UNCHANGED <<held, hidden, moved>>
  BY <1>1, <1>2, FailHeld
<1> DEFINE reread == Append(job.reread, Source.blocks[Len(job.reread) + 1])
<1>3. CASE /\ job' = [job EXCEPT !.reread = reread]
           /\ UNCHANGED <<frozen, held, hidden, moved>>
  <2>1. CurrentOk
    BY <1>1 DEF HeldInv
  <2>2. IsSequence(reread)
    BY <2>1, AppendKeeps DEF CurrentOk
  <2> DEFINE blocks == disk[job.file.source].content.blocks
  <2>3. ASSUME job.replaced = <<>>, Begins(blocks, job.reread) PROVE Begins(blocks, reread)
    <3>1. Source = disk[job.file.source].content
      BY <2>3 DEF Source
    <3>2. IsSequence(blocks) /\ Source.size = Len(blocks) /\ Source.blocks = blocks
      BY <1>1, <3>1, CurrentContent
    <3> HIDE DEF blocks
    <3> QED BY <1>1, <2>3, <3>2, BeginsMore
  <2> HIDE DEF reread
  <2>4. job' = [step |-> job.step, request |-> job.request, set |-> job.set,
                files |-> job.files, todo |-> job.todo, index |-> job.index,
                file |-> job.file, size |-> job.size, time |-> job.time,
                replaced |-> job.replaced, copied |-> job.copied, reread |-> reread]
    BY <1>1, <1>3, AtFile DEF StagingInv
  <2>5. CurrentOk'
    BY <1>1, <1>3, <2>1, <2>2, <2>3, <2>4 DEF CurrentOk
  <2> QED BY <1>1, <1>3, <2>4, <2>5, StepHeld
<1> QED BY <1>2, <1>3 DEF HashBlock, Try

LEMMA HashEndHeld == ASSUME StagingInv, HeldInv, HashEnd PROVE HeldInv'
<1>1. UNCHANGED disk /\ job.step = "hash" /\ job.step \in FileSteps /\ "keep" \in FileSteps
      /\ Len(job.reread) >= Source.size
  BY DEF HashEnd, Running, FileSteps
<1>2. CASE Fail /\ UNCHANGED <<held, hidden, moved>>
  BY <1>1, <1>2, FailHeld
<1>3. CASE /\ SameDigest
           /\ job' = [job EXCEPT !.step = "keep"]
           /\ UNCHANGED <<frozen, held, hidden, moved>>
  <2>1. CurrentOk
    BY <1>1 DEF HeldInv
  <2> DEFINE p == job.file.source
  <2>2. ASSUME p \in Written, p \notin moved PROVE Content(job.copied) \in held[p]
    <3>1. /\ job.replaced = <<>> /\ Begins(disk[p].content.blocks, job.reread)
          /\ disk[p].content \in held[p]
      BY <1>1, <2>1, <2>2 DEF CurrentOk
    <3>2. /\ IsSequence(disk[p].content.blocks)
          /\ disk[p].content = Content(disk[p].content.blocks)
          /\ Len(job.reread) >= Len(disk[p].content.blocks)
      <4>1. Source = disk[p].content
        BY <3>1 DEF Source
      <4> QED BY <1>1, <4>1, CurrentContent
    <3>3. job.reread = disk[p].content.blocks
      BY <3>1, <3>2, BeginsAll
    <3> QED BY <1>3, <3>1, <3>2, <3>3 DEF SameDigest
  <2>3. job' = [step |-> "keep", request |-> job.request, set |-> job.set,
                files |-> job.files, todo |-> job.todo, index |-> job.index,
                file |-> job.file, size |-> job.size, time |-> job.time,
                replaced |-> job.replaced, copied |-> job.copied, reread |-> job.reread]
    BY <1>1, <1>3, AtFile DEF StagingInv
  <2>4. CurrentOk'
    BY <1>1, <1>3, <2>1, <2>2, <2>3 DEF CurrentOk
  <2> QED BY <1>1, <1>3, <2>3, <2>4, StepHeld
<1> QED BY <1>2, <1>3 DEF HashEnd, Try

LEMMA KeepHeld == ASSUME StagingInv, HeldInv, KeepObject PROVE HeldInv'
<1>1. UNCHANGED disk /\ job # NoJob /\ job.step = "keep" /\ job.step \in FileSteps
  BY DEF KeepObject, Running, FileSteps
<1>2. CASE Fail /\ UNCHANGED <<held, hidden, moved>>
  BY <1>1, <1>2, FailHeld
<1> DEFINE content == Content(job.copied)
           set == Recorded(job.set, job.request, job.file, content)
           last == SubjectFile(job.file.target, content, job.file.source = job.request.entrypoint)
<1>3. CASE /\ job' = [step |-> "before", request |-> job.request, files |-> job.files,
                      todo |-> job.todo, index |-> job.index + 1, set |-> set]
           /\ UNCHANGED <<frozen, held, hidden, moved>>
  <2>1. CurrentOk /\ FilesOk /\ frozen = NoSubject
    BY <1>1 DEF HeldInv, StagingInv, StagingHolds
  <2>2. set.files = job.set.files \cup {last}
    BY DEF Recorded
  <2>3. last.path = job.file.target /\ last.digest = content
    BY DEF SubjectFile
  <2>4. job.file \in job.files \ job.todo /\ job.file.target[2] = job.file.source
    BY <2>1 DEF CurrentOk, FilesOk
  <2>5. WasHeld(last)
    BY <1>1, <2>1, <2>3, <2>4 DEF WasHeld, CurrentOk
  <2>6. /\ job'.step = "before" /\ job'.set = set /\ job'.files = job.files
        /\ job'.todo = job.todo
    <3> HIDE DEF set
    <3> QED BY <1>3
  <2> HIDE DEF set, last, content
  <2>7. FilesOk'
    BY <1>1, <1>3, <2>1, <2>2, <2>3, <2>4, <2>5, <2>6, SameRecords DEF FilesOk, FileSteps
  <2> QED BY <1>1, <1>3, <2>1, <2>6, <2>7, SameRecords DEF HeldInv, FileSteps
<1> QED BY <1>2, <1>3 DEF KeepObject, Try

LEMMA FreezeHeld == ASSUME StagingInv, HeldInv, Freeze PROVE HeldInv'
<1>1. UNCHANGED disk /\ job # NoJob /\ job.step = "before"
  BY DEF Freeze, Running
<1>2. CASE Fail /\ UNCHANGED <<held, hidden, moved>>
  BY <1>1, <1>2, FailHeld
<1>3. CASE /\ frozen' = FrozenManifest(job.request, job.set, job.files)
           /\ job' = NoJob
           /\ UNCHANGED <<held, hidden, moved>>
  <2>1. frozen'.files = job.set.files /\ FilesOk
    BY <1>1, <1>3 DEF FrozenManifest, HeldInv
  <2>2. \A f \in frozen'.files : WasHeld(f)'
    BY <1>1, <1>3, <2>1, SameRecords DEF FilesOk
  <2> QED BY <1>1, <1>3, <2>2, SameRecords DEF HeldInv, NoJob, FileSteps
<1> QED BY <1>2, <1>3 DEF Freeze, Try

LEMMA EndHeld ==
    ASSUME StagingInv, HeldInv, Unavailable \/ DropFrozen \/ Crash
    PROVE  HeldInv'
<1>1. CASE Unavailable
  BY <1>1, FailHeld DEF Unavailable
<1>2. CASE DropFrozen
  BY <1>2, OverHeld DEF DropFrozen, StagingInv, StagingHolds
<1>3. CASE Crash
  BY <1>3, OverHeld DEF Crash
<1> QED BY <1>1, <1>2, <1>3

\* A write leaves the file with the content that was put, a time that is no
\* earlier, and the histories with what they had.
LEMMA PutLeaves ==
    ASSUME HeldInv, NEW path \in Written, NEW content, IsContent(content), NEW silent,
           Put(path, content, silent)
    PROVE  /\ DiskOk' /\ held' = [p \in Written |-> held'[p]]
           /\ path \in DOMAIN disk /\ DOMAIN disk' = DOMAIN disk
           /\ \A p \in DOMAIN disk \ {path} : disk'[p] = disk[p]
           /\ disk'[path].content = content
           /\ disk[path].time \in Nat /\ disk'[path].time \in Nat
           /\ disk[path].time <= disk'[path].time
           /\ ~silent => disk'[path].time = disk[path].time + 1
           /\ \A p \in Written : held[p] \subseteq held'[p]
           /\ hidden \subseteq hidden' /\ moved \subseteq moved'
<1> DEFINE time == IF silent THEN disk[path].time ELSE disk[path].time + 1
           file == [type |-> "file", content |-> content, time |-> time]
<1>1. path \in DOMAIN disk /\ disk' = [disk EXCEPT ![path] = file]
  BY DEF Put, IsFile
<1>2. disk[path].time \in Nat
  BY <1>1 DEF HeldInv, DiskOk
<1>3. time \in Nat /\ disk[path].time <= time /\ (~silent => time = disk[path].time + 1)
  BY <1>2
<1>4. file.content = content /\ file.time = time
  OBVIOUS
<1> HIDE DEF time, file
<1>5. /\ DOMAIN disk' = DOMAIN disk /\ disk'[path] = file
      /\ \A p \in DOMAIN disk : p # path => disk'[p] = disk[p]
  BY <1>1
<1>6. DiskOk'
  <2> SUFFICES ASSUME NEW p \in DOMAIN disk
               PROVE  IsContent(disk'[p].content) /\ disk'[p].time \in Nat
    BY <1>5 DEF DiskOk
  <2>1. CASE p = path
    BY <1>3, <1>4, <1>5, <2>1
  <2>2. CASE p # path
    BY <1>5, <2>2 DEF HeldInv, DiskOk
  <2> QED BY <2>1, <2>2
<1>7. /\ held' = [p \in Written |-> held'[p]]
      /\ \A p \in Written : held[p] \subseteq held'[p]
  <2>1. held' = held \/ held' = [held EXCEPT ![path] = @ \cup {content}]
    BY DEF Put, Observed
  <2> QED BY <2>1 DEF HeldInv
<1>8. hidden \subseteq hidden' /\ moved \subseteq moved'
  BY DEF Put, Observed
<1> QED BY <1>1, <1>2, <1>3, <1>4, <1>5, <1>6, <1>7, <1>8

LEMMA WriterHeld == ASSUME StagingInv, HeldInv, Writer PROVE HeldInv'
<1>1. PICK path \in Written, silent \in BOOLEAN :
        /\ IsFile(disk, path)
        /\ \E content \in Edits(disk[path].content) :
             WriteFile(path, content, silent) \/ ReplaceFile(path, content, silent)
  BY DEF Writer
<1>2. PICK content \in Edits(disk[path].content) :
        WriteFile(path, content, silent) \/ ReplaceFile(path, content, silent)
  BY <1>1
<1>3. Put(path, content, silent) /\ Observed(path, content, silent) /\ UNCHANGED frozen
  BY <1>2 DEF WriteFile, ReplaceFile, Put
<1>4. IsContent(content)
  <2>1. IsContent(disk[path].content)
    BY <1>1 DEF IsFile, HeldInv, DiskOk
  <2> QED BY <2>1, EditsAreContents
<1>5. /\ DiskOk' /\ held' = [p \in Written |-> held'[p]]
      /\ path \in DOMAIN disk /\ DOMAIN disk' = DOMAIN disk
      /\ \A p \in DOMAIN disk \ {path} : disk'[p] = disk[p]
      /\ disk'[path].content = content
      /\ disk[path].time \in Nat /\ disk'[path].time \in Nat
      /\ disk[path].time <= disk'[path].time
      /\ ~silent => disk'[path].time = disk[path].time + 1
      /\ \A p \in Written : held[p] \subseteq held'[p]
      /\ hidden \subseteq hidden' /\ moved \subseteq moved'
  BY <1>3, <1>4, PutLeaves
<1>6. \A f : WasHeld(f) => WasHeld(f)'
  BY <1>5 DEF WasHeld
<1>7. CASE job.step \notin FileSteps
  <2>1. job' = job
    BY <1>2, <1>7 DEF WriteFile, ReplaceFile, FileSteps
  <2>2. FilesOk => FilesOk'
    BY <1>5, <1>6, <2>1 DEF FilesOk
  <2> QED BY <1>3, <1>5, <1>6, <1>7, <2>1, <2>2 DEF HeldInv
<1>8. CASE job.step \in FileSteps
  <2> DEFINE p == job.file.source
  <2>1. job # NoJob /\ FilesOk /\ CurrentOk /\ frozen = NoSubject
    BY <1>8 DEF HeldInv, StagingInv, StagingHolds, FileSteps, NoJob
  <2>2. job' = job \/ (/\ Freezing(path) /\ job.step \in {"copy", "hash"}
                       /\ job' = [job EXCEPT !.replaced = <<disk[path].content>>])
    BY <1>2 DEF WriteFile, ReplaceFile
  <2>3. \E replaced :
          job' = [step |-> job.step, request |-> job.request, set |-> job.set,
                  files |-> job.files, todo |-> job.todo, index |-> job.index,
                  file |-> job.file, size |-> job.size, time |-> job.time,
                  replaced |-> replaced, copied |-> job.copied, reread |-> job.reread]
    <3>1. job = [step |-> job.step, request |-> job.request, set |-> job.set,
                 files |-> job.files, todo |-> job.todo, index |-> job.index,
                 file |-> job.file, size |-> job.size, time |-> job.time,
                 replaced |-> job.replaced, copied |-> job.copied, reread |-> job.reread]
      BY <1>8, AtFile DEF StagingInv
    <3> QED BY <2>2, <3>1
  <2>4. /\ job'.step = job.step /\ job'.set = job.set /\ job'.files = job.files
        /\ job'.todo = job.todo /\ job'.file = job.file /\ job'.time = job.time
        /\ job'.copied = job.copied /\ job'.reread = job.reread
    BY <2>3
  <2>5. FilesOk'
    BY <1>5, <1>6, <2>1, <2>4 DEF FilesOk
  <2>6. p \in DOMAIN disk /\ job.time \in Nat /\ job.time <= disk[p].time
    BY <2>1 DEF CurrentOk, FilesOk
  <2>7. CASE path # p \/ job.step = "keep"
    <3>1. ~Freezing(path)
      BY <2>7 DEF Freezing
    <3>2. job' = job /\ held' = held /\ hidden' = hidden /\ moved' = moved
      BY <1>3, <2>2, <3>1 DEF Observed
    <3>3. CASE path # p
      <4>1. disk'[p] = disk[p]
        BY <1>5, <2>6, <3>3
      <4>2. CurrentOk'
        BY <2>1, <3>2, <4>1 DEF CurrentOk
      <4> QED BY <1>3, <1>5, <1>8, <2>1, <2>4, <2>5, <4>2 DEF HeldInv
    <3>4. CASE path = p /\ job.step = "keep"
      <4>1. job.time <= disk'[p].time
        BY <1>5, <2>6, <3>4
      <4>2. CurrentOk'
        BY <2>1, <3>2, <3>4, <4>1 DEF CurrentOk
      <4> QED BY <1>3, <1>5, <1>8, <2>1, <2>4, <2>5, <4>2 DEF HeldInv
    <3> QED BY <2>7, <3>3, <3>4
  <2>8. CASE path = p /\ job.step # "keep"
    <3>1. Freezing(path)
      BY <1>8, <2>1, <2>8 DEF Freezing, FileSteps
    <3>2. /\ content \in held'[p]
          /\ silent /\ job.step \in {"open", "copy", "after"} => p \in hidden'
          /\ job.step = "hash" => p \in moved'
      BY <1>3, <2>8, <3>1 DEF Observed, HeldInv
    <3>3. job.time <= disk'[p].time
      BY <1>5, <2>6, <2>8
    <3>4. job.step \in {"open", "copy", "after"} /\ p \notin hidden' => job.time # disk'[p].time
      BY <1>5, <2>6, <2>8, <3>2
    <3>5. job.step \in {"open", "after", "reopen"} => job'.replaced = <<>>
      <4> SUFFICES ASSUME job.step \in {"open", "after", "reopen"} PROVE job' = job
        BY <2>1 DEF CurrentOk
      <4> QED BY <2>2
    <3>6. CurrentOk'
      <4>1. disk'[p].content \in held'[p] /\ held[p] \subseteq held'[p] /\ hidden \subseteq hidden'
        BY <1>5, <2>8, <3>2
      <4> QED BY <2>1, <2>4, <2>8, <3>2, <3>3, <3>4, <3>5, <4>1 DEF CurrentOk
    <3> QED BY <1>3, <1>5, <1>8, <2>1, <2>4, <2>5, <3>6 DEF HeldInv
  <2> QED BY <2>7, <2>8
<1> QED BY <1>7, <1>8

LEMMA HeldStep ==
    ASSUME StagingInv, HeldInv, [FreezeNext \/ Writer]_freezeVars
    PROVE  HeldInv'
<1>1. CASE UNCHANGED freezeVars
  BY <1>1 DEF freezeVars, HeldInv, DiskOk, FilesOk, CurrentOk, WasHeld
<1> QED
  BY <1>1, StartHeld, DiscoverHeld, MetadataHeld, OpenHeld, CopyHeld, CopyEndHeld, CompareHeld,
     ReopenHeld, HashHeld, HashEndHeld, KeepHeld, FreezeHeld, EndHeld, WriterHeld DEF FreezeNext

LEMMA HeldStart == FreezeInit => HeldInv
BY FreezeAssumption DEF FreezeInit, HeldInv, DiskOk, NoJob, NoSubject, FileSteps

LEMMA HeldImplies == HeldInv => FrozenWasHeld
BY DEF HeldInv, FrozenWasHeld, WasHeld

\* Only the steps of a freeze and the writers change what a freeze is about.
LEMMA FreezeSteps == ASSUME [Next]_vars PROVE [FreezeNext \/ Writer]_freezeVars
BY DEF Next, FreezeStep, Capture, Stage, Collect, GrantCapture, Upload, Lease, GrantKey,
   ReleaseKey, OpenUpload, IssueEvidence, Revoke, GrantExecution, Execute, Tick, vars

\* Whatever fails and whoever writes, the staging directory of a frozen closure
\* holds its objects and nothing else, and a freeze that failed leaves none
\* (freeze_one_file, StagingGuard::drop and FrozenSubjectClosure::drop).
THEOREM StagingExactHolds == Spec => []StagingIsExact
<1>1. Init => StagingInv
  BY StagingStart DEF Init
<1>2. StagingInv /\ [Next]_vars => StagingInv'
  BY StagingStep, FreezeSteps
<1> QED BY <1>1, <1>2, StagingImplies, PTL DEF Spec

\* However the files are written meanwhile, in place or replaced, a frozen
\* closure lists a content only if its source held it whole at some instant of
\* its freezing; the checks of freeze_one_file leave open the one case of a
\* file that is written behind the modification time while it is copied and
\* written again while it is read again.
THEOREM FrozenHeldHolds == Spec => []FrozenWasHeld
<1>1. Init => StagingInv /\ HeldInv
  BY StagingStart, HeldStart DEF Init
<1>2. StagingInv /\ HeldInv /\ [Next]_vars => (StagingInv /\ HeldInv)'
  BY StagingStep, HeldStep, FreezeSteps
<1> QED BY <1>1, <1>2, HeldImplies, PTL DEF Spec

--------------------------------------------------------------------------------
(* Leases and keys *)

LeaseInv == IsSequence(leases) /\ KeysWithinLease

LEMMA LeaseStep == ASSUME LeaseInv, [Next]_vars PROVE LeaseInv'
<1> USE DEF LeaseInv
<1>1. CASE UNCHANGED <<leases, released>>
  BY <1>1 DEF IsSequence, KeysWithinLease, Holds
<1>2. ASSUME NEW worker \in Workers, NEW u \in DOMAIN uploads, Lease(worker, u) PROVE LeaseInv'
  <2>1. PICK e : leases' = Append(leases, e) /\ released' = released
    BY <1>2 DEF Lease
  <2>2. IsSequence(leases') /\ DOMAIN leases \subseteq DOMAIN leases'
        /\ \A l \in DOMAIN leases : leases'[l] = leases[l]
    BY <2>1, AppendKeeps
  <2> QED BY <2>1, <2>2 DEF KeysWithinLease, Holds
<1>3. ASSUME NEW w \in DOMAIN leases, NEW k \in DOMAIN leases, ReleaseKey(w, k) PROVE LeaseInv'
  <2>1. /\ leases' = leases
        /\ released' = [worker |-> leases[w].worker, capture |-> keyGrants[k].capture,
                        reference |-> keyGrants[k].reference, at |-> now]
    BY <1>3 DEF ReleaseKey
  <2>2. Holds(leases[w], now) /\ KeyFollowsWorker(leases[w], keyGrants[k])
    BY <1>3 DEF ReleaseKey, verify_managed_worker_key_grants, GrantsHold
  <2>3. keyGrants[k].capture = leases[w].capture /\ keyGrants[k].reference = leases[w].reference
    BY <2>2 DEF KeyFollowsWorker, GrantedFields
  <2> QED BY <2>1, <2>2, <2>3 DEF KeysWithinLease, IsSequence, Holds
<1>4. CASE UNCHANGED vars
  BY <1>1, <1>4 DEF vars, workerVars
<1> QED
  BY <1>1, <1>2, <1>3, <1>4 DEF Next, FreezeStep, Capture, Stage, Collect, GrantCapture, Upload,
     GrantKey, OpenUpload, IssueEvidence, Revoke, GrantExecution, Execute, Tick, workerVars

\* However the services time and combine their documents, a candidate key is
\* released only to the worker that holds the lease on its candidate when it
\* is released (verify_managed_worker_key_grants).
THEOREM KeysHold == Spec => []KeysWithinLease
<1>1. Init => LeaseInv
  BY DEF Init, LeaseInv, IsSequence, KeysWithinLease
<1>2. LeaseInv /\ [Next]_vars => LeaseInv'
  BY LeaseStep
<1> QED BY <1>1, <1>2, PTL DEF Spec, LeaseInv

--------------------------------------------------------------------------------
(* Executors *)

\* The evidence an executor holds says what it is, and if it is still active it
\* ends before EvidenceTime after its revocation.
EvidenceTrue ==
    \A e \in Executors : evidence[e] # None =>
      /\ evidence[e].executor = e
      /\ evidence[e].capabilities = Capabilities[e]
      /\ evidence[e].until \in Nat /\ evidence[e].until <= now + EvidenceTime
      /\ \/ evidence[e].status # "active"
         \/ revoked[e] = Never
         \/ evidence[e].until <= revoked[e] + EvidenceTime

ExecutorTypes ==
    /\ now \in Nat
    /\ DOMAIN evidence = Executors
    /\ evidence = [e \in Executors |-> evidence[e]]
    /\ revoked \in [Executors -> Nat \cup {Never}]
    /\ executed # None => /\ executed.executor \in Executors
                          /\ executed.at \in Nat /\ executed.at <= now

ExecutorInv == ExecutorTypes /\ EvidenceTrue /\ ExecutedUnderEvidence

LEMMA ExecutorStep == ASSUME ExecutorInv, [Next]_vars PROVE ExecutorInv'
<1> USE PathAssumption DEF ExecutorInv
<1>1. CASE UNCHANGED <<now, evidence, revoked, executed>>
  BY <1>1 DEF ExecutorTypes, EvidenceTrue, ExecutedUnderEvidence
<1>2. CASE Tick
  <2>1. now' = now + 1 /\ UNCHANGED <<evidence, revoked, executed>>
    BY <1>2 DEF Tick, executorVars
  <2> QED BY <2>1 DEF ExecutorTypes, EvidenceTrue, ExecutedUnderEvidence
<1>3. ASSUME NEW e \in Executors, IssueEvidence(e) PROVE ExecutorInv'
  <2> DEFINE issued == [capabilities |-> Capabilities[e], executor |-> e, from |-> now,
          until |-> now + EvidenceTime, scope |-> Scope(Replayed), signer |-> EvidenceService,
          status |-> IF revoked[e] = Never THEN "active" ELSE "revoked"]
  <2>1. evidence' = [evidence EXCEPT ![e] = issued] /\ UNCHANGED <<now, revoked, executed>>
    BY <1>3 DEF IssueEvidence
  <2>2. ExecutorTypes'
    <3> HIDE DEF issued
    <3> QED BY <2>1 DEF ExecutorTypes
  <2>3. EvidenceTrue'
    <3> SUFFICES ASSUME NEW f \in Executors, evidence'[f] # None
                 PROVE  /\ evidence'[f].executor = f
                        /\ evidence'[f].capabilities = Capabilities[f]
                        /\ evidence'[f].until \in Nat
                        /\ evidence'[f].until <= now + EvidenceTime
                        /\ \/ evidence'[f].status # "active"
                           \/ revoked[f] = Never
                           \/ evidence'[f].until <= revoked[f] + EvidenceTime
      BY <2>1 DEF EvidenceTrue
    <3>1. CASE f = e
      <4>1. evidence'[f] = issued
        <5> HIDE DEF issued
        <5> QED BY <2>1, <3>1 DEF ExecutorTypes
      <4> QED BY <4>1, <3>1 DEF ExecutorTypes
    <3>2. CASE f # e
      <4>1. evidence'[f] = evidence[f]
        <5> HIDE DEF issued
        <5> QED BY <2>1, <3>2 DEF ExecutorTypes
      <4> QED BY <4>1 DEF EvidenceTrue
    <3> QED BY <3>1, <3>2
  <2>4. ExecutedUnderEvidence'
    BY <2>1 DEF ExecutedUnderEvidence
  <2> QED BY <2>2, <2>3, <2>4
<1>4. ASSUME NEW e \in Executors, Revoke(e) PROVE ExecutorInv'
  <2>1. revoked[e] = Never /\ revoked' = [revoked EXCEPT ![e] = now]
        /\ UNCHANGED <<now, evidence, executed>>
    BY <1>4 DEF Revoke
  <2>2. \A f \in Executors : revoked'[f] = revoked[f] \/ revoked'[f] = now
    BY <2>1 DEF ExecutorTypes
  <2>3. ExecutorTypes'
    BY <2>1 DEF ExecutorTypes
  <2>4. EvidenceTrue'
    BY <2>1, <2>2 DEF ExecutorTypes, EvidenceTrue
  <2>5. ExecutedUnderEvidence'
    BY <2>1, <2>2 DEF ExecutorTypes, ExecutedUnderEvidence
  <2> QED BY <2>3, <2>4, <2>5
<1>5. ASSUME NEW e \in Executors, Execute(e) PROVE ExecutorInv'
  <2>1. /\ executed' = [executor |-> e, granted |-> execution.executor, at |-> now]
        /\ evidence[e] # None
        /\ UNCHANGED <<now, evidence, revoked>>
    BY <1>5 DEF Execute
  <2>2. execution.executor = e
    BY <1>5, <2>1 DEF Execute, verify_execution_grant, EvidenceTrue
  <2>3. Discrete(Required) \subseteq Capabilities[e]
    BY <1>5, <2>1 DEF Execute, verify_replay_capabilities, replay_capabilities_present,
       required_capabilities_present, EvidenceTrue
  <2>4. now < evidence[e].until /\ evidence[e].status = "active"
    BY <1>5 DEF Execute, verify_executor_capability_evidence, EvidenceActive, Holds
  <2>5. revoked[e] = Never \/ now < revoked[e] + EvidenceTime
    BY <2>1, <2>4 DEF ExecutorTypes, EvidenceTrue
  <2>6. ExecutorTypes' /\ EvidenceTrue'
    BY <2>1 DEF ExecutorTypes, EvidenceTrue
  <2> QED BY <2>1, <2>2, <2>3, <2>5, <2>6 DEF ExecutedUnderEvidence
<1>6. CASE UNCHANGED vars
  BY <1>1, <1>6 DEF vars, executorVars
<1> QED
  BY <1>1, <1>2, <1>3, <1>4, <1>5, <1>6 DEF Next, FreezeStep, Capture, Stage, Collect,
     GrantCapture, Upload, Lease, GrantKey, ReleaseKey, OpenUpload, GrantExecution, executorVars

\* An executor that was revoked runs nothing once the evidence it was given
\* has ended, and none runs what it was not granted or cannot do
\* (verify_executor_capability_evidence, verify_execution_grant and
\* verify_replay_capabilities).
THEOREM EvidenceHolds == Spec => []ExecutedUnderEvidence
<1>1. Init => ExecutorInv
  BY DEF Init, ExecutorInv, ExecutorTypes, EvidenceTrue, ExecutedUnderEvidence
<1>2. ExecutorInv /\ [Next]_vars => ExecutorInv'
  BY ExecutorStep
<1> QED BY <1>1, <1>2, PTL DEF Spec, ExecutorInv

--------------------------------------------------------------------------------
(* What is opened *)

\* The identity that the key of a capture is granted for.
GrantedIdentity(c) == ManagedIdentity(candidates[c], ObjectsOf(candidates[c]))

\* Whatever leaves the mailbox was captured, and nothing is captured again.
CollectedInv ==
    /\ mailbox # {} => part = "upload"
    /\ DOMAIN collected = Captures
    /\ \A c \in Captures : collected[c] # NoCandidate =>
         part = "upload" /\ collected[c] = candidates[c]

\* A grant is for its capture and the identity of what was captured.
GrantInv ==
    /\ DOMAIN grants = Captures
    /\ \A c \in Captures : grants[c] # None =>
         /\ part = "upload"
         /\ grants[c].capture = c
         /\ grants[c].identity = GrantedIdentity(c)
         /\ grants[c].reference = <<"key", c>>

\* So is every upload, and its grant has not changed since.
UploadInv ==
    /\ IsSequence(uploads)
    /\ \A u \in DOMAIN uploads :
         LET c == uploads[u].capture IN
         /\ part = "upload"
         /\ c \in Captures
         /\ uploads[u].identity.capture = c
         /\ uploads[u].identity = GrantedIdentity(c)
         /\ uploads[u].reference = <<"key", c>>
         /\ grants[c].identity = GrantedIdentity(c)
         /\ grants[c].reference = <<"key", c>>

OpenedInv ==
    opened # None => /\ opened.upload \in DOMAIN uploads
                     /\ opened.identity = uploads[opened.upload].identity

OpeningInv == CollectedInv /\ GrantInv /\ UploadInv /\ OpenedInv

LEMMA OpeningImplies == OpeningInv => OpenedAsGranted
BY DEF OpeningInv, CollectedInv, UploadInv, OpenedInv, OpenedAsGranted, GrantedIdentity

\* A ciphertext fetched for an item opens only if the item is that of what it
\* holds: the staging identity is bound to it and names the candidate.
LEMMA CollectedIsCaptured ==
    ASSUME NEW c, NEW fetched, NEW key, NEW candidate,
           candidate = open_candidate_staging(<<"staging", key>>,
                         Envelope(MailboxObject(Staged(c)).identity, Staged(fetched).stored)),
           candidate # NoCandidate
    PROVE  candidate = candidates[c]
<1> DEFINE identity(d) == StagingIdentity(candidates[d], Horizon)
           envelope == Envelope(MailboxObject(Staged(c)).identity, Staged(fetched).stored)
<1>1. /\ envelope.identity = identity(c)
      /\ envelope.stored.plain = candidates[fetched]
      /\ envelope.stored.data = identity(fetched)
  <2> HIDE DEF identity
  <2>1. \A d : Staged(d) = Envelope(identity(d), seal_authenticated_record(<<"staging", d>>, d,
                                                        candidates[d], identity(d)))
    BY DEF Staged, seal_candidate_staging, identity
  <2> QED BY <2>1 DEF Envelope, MailboxObject, seal_authenticated_record
<1>2. /\ candidate = envelope.stored.plain
      /\ envelope.stored.data = envelope.identity
  <2> HIDE DEF envelope
  <2> QED BY DEF open_candidate_staging, Opens, envelope
<1>3. identity(fetched) = identity(c)
  <2> HIDE DEF identity, envelope
  <2> QED BY <1>1, <1>2
<1>4. \A d : identity(d).request = candidates[d]
  BY DEF StagingIdentity
<1> QED
  <2> HIDE DEF identity, envelope
  <2> QED BY <1>1, <1>2, <1>3, <1>4

\* A candidate that was not rebuilt has the identity of what was captured.
LEMMA IdentityUnchanged ==
    ASSUME NEW c, collected[c] = candidates[c]
    PROVE  IdentityOf(c, FALSE) = GrantedIdentity(c)
<1>1. {IF FALSE /\ o.role = "world-state" THEN [o EXCEPT !.digest = Rebuilt] ELSE o :
         o \in ObjectsOf(collected[c])} = ObjectsOf(collected[c])
  OBVIOUS
<1> QED BY <1>1 DEF IdentityOf, GrantedIdentity

\* The identity that is opened is the one of the ciphertext.
LEMMA OpenedIdentity ==
    ASSUME NEW key, NEW ciphertext, NEW store, NEW identity,
           identity = open_managed_candidate(key, ciphertext, store), identity # NoCandidate
    PROVE  identity = ciphertext.identity
BY DEF open_managed_candidate, ManagedManifestBinds, ValidManagedManifest

LEMMA OpeningStep == ASSUME OpeningInv, [Next]_vars PROVE OpeningInv'
<1> USE DEF OpeningInv
<1>1. CASE UNCHANGED <<candidates, part, mailbox, collected, grants, uploads, opened>>
  BY <1>1 DEF CollectedInv, GrantInv, UploadInv, OpenedInv, GrantedIdentity, IsSequence
<1>2. CASE Capture
  <2>1. part = None /\ part # "upload"
    BY <1>2, PathAssumption DEF Capture
  <2>2. /\ mailbox = {} /\ uploads = <<>>
        /\ \A c \in Captures : collected[c] = NoCandidate /\ grants[c] = None
        /\ \A u \in DOMAIN uploads : FALSE
    <3>1. \A u \in DOMAIN uploads : FALSE
      BY <2>1 DEF UploadInv
    <3>2. uploads = <<>>
      BY <3>1 DEF UploadInv, IsSequence
    <3> QED BY <2>1, <3>1, <3>2 DEF CollectedInv, GrantInv
  <2>3. UNCHANGED <<mailbox, collected, grants, uploads, opened>>
    BY <1>2 DEF Capture, workerVars
  <2> QED BY <2>2, <2>3 DEF CollectedInv, GrantInv, UploadInv, OpenedInv, IsSequence
<1>3. ASSUME NEW c \in Captures, Stage(c) PROVE OpeningInv'
  <2>1. part = "upload" /\ UNCHANGED <<candidates, part, collected, grants, uploads, opened>>
    BY <1>3 DEF Stage, workerVars
  <2> QED BY <2>1 DEF CollectedInv, GrantInv, UploadInv, OpenedInv, GrantedIdentity, IsSequence
<1>4. ASSUME NEW c \in Captures, NEW fetched \in Captures, NEW key \in Captures,
             Collect(c, fetched, key)
      PROVE  OpeningInv'
  <2>1. PICK candidate :
          /\ candidate = open_candidate_staging(<<"staging", key>>,
                           Envelope(MailboxObject(Staged(c)).identity, Staged(fetched).stored))
          /\ candidate # NoCandidate
          /\ collected' = [collected EXCEPT ![c] = candidate]
    BY <1>4 DEF Collect
  <2>2. candidate = candidates[c]
    BY <2>1, CollectedIsCaptured
  <2>3. mailbox = Captures /\ UNCHANGED <<candidates, part, mailbox, grants, uploads, opened>>
    BY <1>4 DEF Collect, workerVars
  <2>4. CollectedInv'
    BY <2>1, <2>2, <2>3 DEF CollectedInv
  <2> QED BY <2>3, <2>4 DEF GrantInv, UploadInv, OpenedInv, GrantedIdentity, IsSequence
<1>5. ASSUME NEW c \in Captures, GrantCapture(c) PROVE OpeningInv'
  <2>1. collected[c] # NoCandidate
        /\ UNCHANGED <<candidates, part, mailbox, collected, uploads, opened>>
    BY <1>5 DEF GrantCapture, workerVars
  <2>2. part = "upload" /\ collected[c] = candidates[c]
    BY <2>1 DEF CollectedInv
  <2> DEFINE grant == [identity |-> IdentityOf(c, FALSE), reference |-> <<"key", c>>, capture |-> c,
                       scope |-> collected[c].deployment.scope, mode |-> "managed",
                       from |-> now, until |-> now + GrantTime, signer |-> CaptureService]
  <2>3. /\ grants' = [grants EXCEPT ![c] = grant]
        /\ grant.identity = IdentityOf(c, FALSE)
        /\ grant.reference = <<"key", c>> /\ grant.capture = c
    BY <1>5 DEF GrantCapture
  <2> HIDE DEF grant
  <2>4. grant.identity = GrantedIdentity(c)
    BY <2>2, <2>3, IdentityUnchanged
  <2>5. \A d : GrantedIdentity(d)' = GrantedIdentity(d)
    BY <2>1 DEF GrantedIdentity
  <2>6. DOMAIN grants' = Captures
        /\ \A d \in Captures : grants'[d] = IF d = c THEN grant ELSE grants[d]
    BY <2>3 DEF GrantInv
  <2>7. GrantInv'
    BY <2>1, <2>2, <2>3, <2>4, <2>5, <2>6 DEF GrantInv
  <2>8. UploadInv'
    BY <2>1, <2>3, <2>4, <2>5, <2>6 DEF UploadInv, IsSequence
  <2> QED BY <2>1, <2>7, <2>8 DEF CollectedInv, OpenedInv
<1>6. ASSUME NEW c \in Captures, NEW granted \in Captures, NEW rebuilt \in BOOLEAN,
             Upload(c, granted, rebuilt)
      PROVE  OpeningInv'
  <2> DEFINE identity == IdentityOf(c, rebuilt)
             grant == grants[granted]
  <2>1. PICK ciphertext : /\ ciphertext = EncryptManaged(Len(uploads), identity, grant.reference)
                          /\ UploadAccepted(grant, ciphertext)
                          /\ uploads' = Append(uploads, ciphertext)
    BY <1>6 DEF Upload
  <2>2. grant # None /\ UNCHANGED <<candidates, part, mailbox, collected, grants, opened>>
    BY <1>6 DEF Upload, workerVars
  <2>3. ciphertext.capture = ciphertext.identity.capture
    <3> HIDE DEF identity, grant
    <3> QED BY <2>1 DEF EncryptManaged
  <2>4. /\ ciphertext.identity = grant.identity /\ ciphertext.capture = grant.capture
        /\ ciphertext.reference = grant.reference
    BY <2>1 DEF UploadAccepted, GrantBinds
  <2>5. /\ part = "upload" /\ grant.capture = granted /\ grant.identity = GrantedIdentity(granted)
        /\ grant.reference = <<"key", granted>>
    BY <2>2 DEF GrantInv
  <2>6. \A d : GrantedIdentity(d)' = GrantedIdentity(d)
    BY <2>2 DEF GrantedIdentity
  <2>7. /\ IsSequence(uploads') /\ DOMAIN uploads \subseteq DOMAIN uploads'
        /\ \A u \in DOMAIN uploads : uploads'[u] = uploads[u]
        /\ \A u \in DOMAIN uploads' : u \in DOMAIN uploads \/ uploads'[u] = ciphertext
    <3> HIDE DEF identity, grant
    <3>1. IsSequence(uploads)
      BY DEF UploadInv
    <3> QED BY <2>1, <3>1, AppendKeeps
  <2>8. UploadInv'
    <3> SUFFICES ASSUME NEW u \in DOMAIN uploads'
                 PROVE  LET d == uploads'[u].capture IN
                        /\ part = "upload"
                        /\ d \in Captures
                        /\ uploads'[u].identity.capture = d
                        /\ uploads'[u].identity = GrantedIdentity(d)
                        /\ uploads'[u].reference = <<"key", d>>
                        /\ grants[d].identity = GrantedIdentity(d)
                        /\ grants[d].reference = <<"key", d>>
      BY <2>2, <2>6, <2>7 DEF UploadInv
    <3>1. CASE u \in DOMAIN uploads
      BY <2>7, <3>1 DEF UploadInv
    <3>2. CASE uploads'[u] = ciphertext
      BY <2>3, <2>4, <2>5, <3>2
    <3> QED BY <2>7, <3>1, <3>2
  <2>9. OpenedInv'
    BY <2>2, <2>7 DEF OpenedInv
  <2> QED BY <2>2, <2>6, <2>8, <2>9 DEF CollectedInv, GrantInv
<1>7. ASSUME NEW u \in DOMAIN uploads, NEW returned \in DOMAIN uploads, OpenUpload(u, returned)
      PROVE  OpeningInv'
  <2> DEFINE store == [d \in {c.digest : c \in ManagedChunks(uploads[returned])} |-> d]
  <2>1. PICK identity :
          /\ identity = open_managed_candidate(released.reference, uploads[u], store)
          /\ identity # NoCandidate
          /\ opened' = [upload |-> u, identity |-> identity]
    BY <1>7 DEF OpenUpload
  <2>2. identity = uploads[u].identity
    <3> HIDE DEF store
    <3> QED BY <2>1, OpenedIdentity
  <2>3. UNCHANGED <<candidates, part, mailbox, collected, grants, uploads>>
    BY <1>7 DEF OpenUpload, captureVars
  <2>4. OpenedInv'
    BY <2>1, <2>2, <2>3 DEF OpenedInv
  <2> QED BY <2>3, <2>4 DEF CollectedInv, GrantInv, UploadInv, GrantedIdentity, IsSequence
<1>8. CASE UNCHANGED vars
  BY <1>1, <1>8 DEF vars, captureVars, workerVars
<1> QED
  BY <1>1, <1>2, <1>3, <1>4, <1>5, <1>6, <1>7, <1>8 DEF Next, FreezeStep, Lease, GrantKey,
     ReleaseKey, IssueEvidence, Revoke, GrantExecution, Execute, Tick, captureVars, workerVars

\* Whatever ciphertext is returned and whatever was rebuilt in between, what
\* leaves the mailbox was captured and what a worker opens is what the key
\* was granted for (open_candidate_staging,
\* verify_managed_candidate_capture_grant and open_managed_candidate).
THEOREM OpeningHolds == Spec => []OpenedAsGranted
<1>1. Init => OpeningInv
  BY DEF Init, OpeningInv, CollectedInv, GrantInv, UploadInv, OpenedInv, IsSequence
<1>2. OpeningInv /\ [Next]_vars => OpeningInv'
  BY OpeningStep
<1> QED BY <1>1, <1>2, OpeningImplies, PTL DEF Spec

================================================================================
