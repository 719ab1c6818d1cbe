------------------------- MODULE LibsigrokBuildProofs -------------------------
(***************************************************************************)
(* Proof that a native build links the library of the source and the patch *)
(* that were current when it began, for any sources and patches, and       *)
(* whatever the developer changes between the runs and however these end.  *)
(*                                                                         *)
(* A run works from what it has read as long as no file changes under it;  *)
(* so what it installs and what it stamps are one source's, and a stamp    *)
(* that can be trusted says which library is there until the next run      *)
(* removes it.  An identity says nothing where git does not tell a dirty   *)
(* tree from its commit, in the run that stamps or in the one that reads.  *)
(***************************************************************************)
EXTENDS LibsigrokBuild, TLAPS

Typed == /\ target \in {"native", "cross"} /\ mode \in {"src", "unknown", "tarball"}
         /\ pc \in {"idle", "copy", "patch", "install", "stamp"}

\* An identity that the source may have, and that does not pass a dirty tree off
\* as its commit unless the history says so.
Reads(id) == id \in Ids /\ (Unseen(id) => unseen)

\* A run has read what is there still.
RunReads == pc # "idle" /\ ~moved =>
              /\ \E id : Reads(id) /\ stamp_contents = Stamp(id, patch)
              /\ wanted = Build(Content, patch)

\* How far it has come.
RunBuilds ==
  /\ pc \in {"copy", "patch", "install"} => library = None
  /\ pc = "patch" /\ ~moved => builddir = [source |-> Content, patch |-> None]
  /\ pc = "install" /\ ~moved => builddir = wanted
  /\ pc = "stamp" /\ ~moved => library = wanted

Trusted(id) == id.kind # "unknown" /\ ~id.dirty

\* The stamp is the library's.
StampInv ==
  target = "native" /\ pc = "idle" /\ library # None /\ ~torn /\ ~moved /\ ~unseen
  /\ Trusted(stamp.id)
    => library = BuildNative(stamp.id.rev, stamp.patch)

LibraryInv == RunReads /\ RunBuilds /\ StampInv /\ LinkedIsCurrent

-----------------------------------------------------------------------------
(* The identity of a source that can be trusted names its content. *)

LEMMA IdNames ==
  ASSUME Typed, NEW id \in Ids, Trusted(id), ~Unseen(id)
  PROVE  id.rev = Content
<1>1. /\ mode = "src" =>
            Ids = {Id("src", head, d) : d \in {tree # head, FALSE}} \cup {UnknownId}
      /\ mode = "unknown" => Ids = {UnknownId}
      /\ mode = "tarball" => Ids = {Id("tarball", head, FALSE)}
  <2>1. "src" # "unknown" /\ "src" # "tarball" /\ "unknown" # "tarball"
    OBVIOUS
  <2>2. QED  BY <2>1, Zenon DEF Typed, Ids
<1>2. id # UnknownId
  BY DEF Trusted, UnknownId, Id
<1>3. CASE mode = "src"
  <2>1. PICK d \in {tree # head, FALSE} : id = Id("src", head, d)
    <3>1. id \in {Id("src", head, d) : d \in {tree # head, FALSE}}
      BY <1>1, <1>2, <1>3, Zenon
    <3>2. QED  BY <3>1, Zenon
  <2>2. id.kind = "src" /\ id.rev = head
    BY <2>1 DEF Id
  <2>3. tree = head
    BY <2>2 DEF Trusted, Unseen
  <2>4. QED  BY <1>3, <2>2, <2>3 DEF Content
<1>4. CASE mode = "unknown"
  BY <1>1, <1>2, <1>4
<1>5. CASE mode = "tarball"
  BY <1>1, <1>5 DEF Id, Content
<1>6. QED  BY <1>3, <1>4, <1>5 DEF Typed

LEMMA NotForced == ASSUME NEW id, ~ForceRebuild(id) PROVE Trusted(id)
  BY DEF Trusted, ForceRebuild

\* What a build reads does not change while the files do not.
LEMMA SourceStays ==
  ASSUME UNCHANGED <<target, source>>
  PROVE  /\ Ids' = Ids /\ Content' = Content /\ patch' = patch
         /\ \A id : Unseen(id)' <=> Unseen(id)
         /\ Build(Content, patch)' = Build(Content, patch)
<1>1. mode' = mode /\ head' = head /\ tree' = tree /\ patch' = patch /\ target' = target
  BY DEF source
<1>2. QED  BY <1>1, Zenon DEF Ids, Unseen, Content, Build, BuildNative, BuildCross

LEMMA ReadsStay ==
  ASSUME RunReads, UNCHANGED <<target, source>>, unseen' = unseen, NEW contents,
         pc # "idle", ~moved, contents = stamp_contents
  PROVE  \E id : Reads(id)' /\ contents = Stamp(id, patch)'
<1>1. PICK id : Reads(id) /\ stamp_contents = Stamp(id, patch)
  BY DEF RunReads
<1>2. Reads(id)' /\ stamp_contents = Stamp(id, patch)'
  BY <1>1, SourceStays, Zenon DEF Reads, Stamp
<1>3. QED  BY <1>2

-----------------------------------------------------------------------------
LEMMA TypeStep == Typed /\ [Next]_vars => Typed'
  BY DEF Typed, Next, vars, source, Cached, Begin, Copy, Patch, Install, WriteStamp, Fail, Ended,
     Edit, EditPatch, Commit, Checkout, SetMode, Clean, FilesChange, EnvironmentChange, Change

LEMMA CachedKeeps ==
  ASSUME Typed, LibraryInv, NEW id \in Ids, Cached(id)
  PROVE  LibraryInv'
<1>1. /\ pc = "idle" /\ pc' = pc /\ library' = library /\ stamp' = stamp /\ torn' = torn
      /\ moved' = moved /\ unseen' = unseen /\ target' = target
  BY DEF Cached, outdir
<1>2. /\ linked'.library = library' /\ linked'.wanted = Build(Content, patch)
      /\ linked'.torn = torn' /\ linked'.moved = moved'
  BY Zenon DEF Cached, Link
<1>3. unseen \/ Unseen(id) => linked'.unseen
  <2>1. (unseen \/ Unseen(id)) \in BOOLEAN
    OBVIOUS
  <2>2. QED  BY <2>1, Zenon DEF Cached, Link
<1>4. RunReads' /\ RunBuilds'
  BY <1>1 DEF RunReads, RunBuilds
<1>5. StampInv'
  BY <1>1 DEF LibraryInv, StampInv, Trusted, BuildNative
<1>6. LinkedIsCurrent'
  <2> SUFFICES ASSUME target = "native", ~torn, ~moved, ~unseen, ~Unseen(id)
               PROVE  library = Build(Content, patch)
    BY <1>1, <1>2, <1>3 DEF LinkedIsCurrent
  <2>1. ~ForceRebuild(id) /\ library # None /\ stamp = Stamp(id, patch)
    BY DEF Cached, UpToDate, UpToDateNative
  <2>2. stamp.id = id /\ stamp.patch = patch
    BY <2>1 DEF Stamp
  <2>3. Trusted(id) /\ id.rev = Content
    BY <2>1, NotForced, IdNames
  <2>4. library = BuildNative(Content, patch)
    BY <1>1, <2>1, <2>2, <2>3 DEF LibraryInv, StampInv
  <2>5. QED  BY <2>4 DEF Build
<1>7. QED  BY <1>4, <1>5, <1>6 DEF LibraryInv

LEMMA BeginKeeps ==
  ASSUME Typed, LibraryInv, NEW id \in Ids, Begin(id)
  PROVE  LibraryInv'
<1>1. /\ pc' = "copy" /\ library' = None /\ linked' = linked /\ UNCHANGED <<target, source>>
      /\ stamp_contents' = Stamp(id, patch) /\ wanted' = Build(Content, patch)
  BY DEF Begin
<1>2. /\ Ids' = Ids /\ Content' = Content /\ patch' = patch
      /\ \A other : Unseen(other)' <=> Unseen(other)
      /\ Build(Content, patch)' = Build(Content, patch)
  BY <1>1, SourceStays
<1>3. Unseen(id) => unseen'
  <2>1. Unseen(id) \in BOOLEAN
    BY DEF Unseen
  <2>2. QED  BY <2>1, Zenon DEF Begin
<1>4. Reads(id)'
  BY <1>2, <1>3 DEF Reads
<1>5. RunReads'
  BY <1>1, <1>2, <1>4 DEF RunReads, Stamp
<1>6. RunBuilds' /\ StampInv'
  BY <1>1 DEF RunBuilds, StampInv
<1>7. LinkedIsCurrent'
  BY <1>1 DEF LibraryInv, LinkedIsCurrent
<1>8. QED  BY <1>5, <1>6, <1>7 DEF LibraryInv

LEMMA BuildKeeps == ASSUME Typed, LibraryInv, Copy \/ Patch PROVE LibraryInv'
<1>1. /\ pc # "idle" /\ pc' # "idle" /\ library' = library /\ linked' = linked
      /\ UNCHANGED <<target, source>> /\ stamp_contents' = stamp_contents /\ wanted' = wanted
      /\ moved' = moved /\ unseen' = unseen
  BY DEF Copy, Patch, run
<1>2. /\ Ids' = Ids /\ Content' = Content /\ patch' = patch
      /\ \A id : Unseen(id)' <=> Unseen(id)
      /\ Build(Content, patch)' = Build(Content, patch)
  BY <1>1, SourceStays
<1>3. RunReads'
  BY <1>1, <1>2, ReadsStay DEF LibraryInv, RunReads
<1>4. ~moved => wanted = Build(Content, patch)
  BY <1>1 DEF LibraryInv, RunReads
<1>5. CASE Copy
  <2>1. wanted.source = Content \/ moved
    BY <1>4 DEF Build, BuildNative, BuildCross
  <2>2. ~moved => builddir' = [source |-> Content, patch |-> None]
    BY <1>5, <2>1 DEF Copy, Content
  <2>3. RunBuilds'
    BY <1>1, <1>2, <1>5, <2>2 DEF LibraryInv, RunBuilds, Copy
  <2>4. QED  BY <1>1, <1>3, <2>3 DEF LibraryInv, StampInv, LinkedIsCurrent
<1>6. CASE Patch
  <2>1. pc = "patch" /\ pc' = "install" /\ library = None
    BY <1>6 DEF Patch, LibraryInv, RunBuilds
  <2>2. ~moved => builddir.source = Content
    BY <2>1 DEF LibraryInv, RunBuilds
  <2>3. ~moved => builddir' = wanted
    BY <1>4, <1>6, <2>2 DEF Patch
  <2>4. RunBuilds'
    BY <1>1, <2>1, <2>3 DEF RunBuilds
  <2>5. QED  BY <1>1, <1>3, <2>4 DEF LibraryInv, StampInv, LinkedIsCurrent
<1>7. QED  BY <1>5, <1>6

LEMMA InstallKeeps == ASSUME Typed, LibraryInv, Install PROVE LibraryInv'
<1>1. /\ pc = "install" /\ library' = builddir /\ linked' = linked /\ moved' = moved
      /\ unseen' = unseen /\ UNCHANGED <<target, source>>
      /\ \/ pc' = "stamp" /\ stamp_contents' = stamp_contents /\ wanted' = wanted
         \/ pc' = "idle" /\ torn'
  BY Zenon DEF Install, Ended, run
<1>2. /\ Ids' = Ids /\ Content' = Content /\ patch' = patch
      /\ \A id : Unseen(id)' <=> Unseen(id)
      /\ Build(Content, patch)' = Build(Content, patch)
  BY <1>1, SourceStays
<1>3. RunReads'
  BY <1>1, <1>2, ReadsStay DEF LibraryInv, RunReads
<1>4. RunBuilds'
  BY <1>1 DEF LibraryInv, RunBuilds
<1>5. StampInv' /\ LinkedIsCurrent'
  BY <1>1 DEF LibraryInv, StampInv, LinkedIsCurrent
<1>6. QED  BY <1>3, <1>4, <1>5 DEF LibraryInv

LEMMA StampKeeps == ASSUME Typed, LibraryInv, WriteStamp PROVE LibraryInv'
<1>1. /\ pc = "stamp" /\ pc' = "idle" /\ library' = library /\ moved' = moved
      /\ unseen' = unseen /\ UNCHANGED <<target, source>>
      /\ target = "native" => stamp' = stamp_contents
  BY DEF WriteStamp, Ended
<1>2. linked'.library = library' /\ linked'.wanted = wanted /\ linked'.moved = moved'
      /\ linked'.unseen = unseen
  BY Zenon DEF WriteStamp, Link
<1>3. ~moved => wanted = Build(Content, patch) /\ library = wanted
  BY <1>1 DEF LibraryInv, RunReads, RunBuilds
<1>4. StampInv'
  <2> SUFFICES ASSUME target = "native", ~moved, ~unseen, Trusted(stamp_contents.id)
               PROVE  library = BuildNative(stamp_contents.id.rev, stamp_contents.patch)
    BY <1>1 DEF StampInv, Trusted, BuildNative
  <2>1. PICK id \in Ids : ~Unseen(id) /\ stamp_contents = Stamp(id, patch)
    BY <1>1 DEF LibraryInv, RunReads, Reads
  <2>2. stamp_contents.id = id /\ stamp_contents.patch = patch
    BY <2>1 DEF Stamp
  <2>3. id.rev = Content
    BY <2>1, <2>2, IdNames
  <2>4. QED  BY <1>3, <2>2, <2>3 DEF Build
<1>5. LinkedIsCurrent'
  BY <1>1, <1>2, <1>3 DEF LinkedIsCurrent
<1>6. RunReads' /\ RunBuilds'
  BY <1>1 DEF RunReads, RunBuilds
<1>7. QED  BY <1>4, <1>5, <1>6 DEF LibraryInv

LEMMA FailKeeps == ASSUME Typed, LibraryInv, Fail PROVE LibraryInv'
<1>1. /\ pc # "idle" /\ pc' = "idle" /\ library' = library /\ linked' = linked
      /\ UNCHANGED <<target, source>> /\ moved' = moved /\ unseen' = unseen /\ stamp' = stamp
  BY DEF Fail, Ended, outdir
<1>2. pc = "stamp" => torn'
  <2>1. (pc = "stamp") \in BOOLEAN
    OBVIOUS
  <2>2. QED  BY <2>1, Zenon DEF Fail<1>3. pc # "stamp" => library' = None
  BY <1>1 DEF Typed, LibraryInv, RunBuilds
<1>4. StampInv'
  BY <1>1, <1>2, <1>3 DEF StampInv
<1>5. RunReads' /\ RunBuilds' /\ LinkedIsCurrent'
  BY <1>1 DEF RunReads, RunBuilds, LibraryInv, LinkedIsCurrent
<1>6. QED  BY <1>4, <1>5 DEF LibraryInv

\* The developer changes files under a run, which is then of no account, or
\* between two runs, when nobody relies on them.
LEMMA ChangeKeeps ==
  ASSUME Typed, LibraryInv, Edit \/ EditPatch \/ Commit \/ Checkout \/ SetMode
  PROVE  LibraryInv'
<1>1. /\ pc' = pc /\ library' = library /\ stamp' = stamp /\ builddir' = builddir
      /\ wanted' = wanted /\ linked' = linked /\ torn' = torn /\ target' = target
      /\ unseen' = unseen
  BY DEF Edit, EditPatch, Commit, Checkout, SetMode, FilesChange, EnvironmentChange, Change, run,
     outdir
<1>2. \/ pc # "idle" /\ moved'
      \/ pc = "idle" /\ (moved' <=> moved)
  <2>1. (pc # "idle") \in BOOLEAN
    OBVIOUS
  <2>2. CASE Edit \/ EditPatch \/ Commit
    BY <2>1, <2>2, Zenon DEF Edit, EditPatch, Commit, FilesChange
  <2>3. CASE Checkout \/ SetMode
    BY <2>3, Zenon DEF Checkout, SetMode, EnvironmentChange
  <2>4. QED  BY <2>2, <2>3
<1>3. StampInv'
  BY <1>1, <1>2 DEF LibraryInv, StampInv, Trusted, BuildNative
<1>4. RunReads' /\ RunBuilds'
  BY <1>1, <1>2 DEF LibraryInv, RunReads, RunBuilds
<1>5. LinkedIsCurrent'
  BY <1>1 DEF LibraryInv, LinkedIsCurrent
<1>6. QED  BY <1>3, <1>4, <1>5 DEF LibraryInv

LEMMA CleanKeeps == ASSUME Typed, LibraryInv, Clean PROVE LibraryInv'
<1>1. pc = "idle" /\ pc' = "idle" /\ library' = None /\ linked' = linked /\ target' = target
  BY DEF Clean
<1>2. QED  BY <1>1 DEF LibraryInv, RunReads, RunBuilds, StampInv, LinkedIsCurrent

LEMMA IdleKeeps == ASSUME LibraryInv, UNCHANGED vars PROVE LibraryInv'
<1>1. /\ UNCHANGED <<target, source>> /\ pc' = pc /\ library' = library /\ stamp' = stamp
      /\ builddir' = builddir /\ wanted' = wanted /\ stamp_contents' = stamp_contents
      /\ linked' = linked /\ torn' = torn /\ moved' = moved /\ target' = target
      /\ unseen' = unseen
  BY DEF vars, run, outdir
<1>2. /\ Ids' = Ids /\ Content' = Content /\ patch' = patch
      /\ \A id : Unseen(id)' <=> Unseen(id)
      /\ Build(Content, patch)' = Build(Content, patch)
  BY <1>1, SourceStays
<1>3. RunReads' /\ RunBuilds'
  BY <1>1, <1>2, ReadsStay DEF LibraryInv, RunReads, RunBuilds
<1>4. StampInv' /\ LinkedIsCurrent'
  BY <1>1 DEF LibraryInv, StampInv, LinkedIsCurrent, Trusted, BuildNative
<1>5. QED  BY <1>3, <1>4 DEF LibraryInv

\* build_libsigrok: a run links the library of the source and the patch that
\* were current when it began, built in this run or in an earlier one, unless
\* files changed under the run that built it, that run was cut short between
\* its install and its stamp, or `git status` failed on a dirty tree in one of
\* the two.
THEOREM LinksCurrent == Spec => []LinkedIsCurrent
<1>1. Init => Typed /\ LibraryInv
  BY DEF Init, Typed, LibraryInv, RunReads, RunBuilds, StampInv, LinkedIsCurrent
<1>2. Typed /\ LibraryInv /\ [Next]_vars => LibraryInv'
  BY CachedKeeps, BeginKeeps, BuildKeeps, InstallKeeps, StampKeeps, FailKeeps, ChangeKeeps,
     CleanKeeps, IdleKeeps DEF Next
<1>3. LibraryInv => LinkedIsCurrent
  BY DEF LibraryInv
<1>4. QED  BY <1>1, <1>2, <1>3, TypeStep, PTL DEF Spec
=============================================================================
