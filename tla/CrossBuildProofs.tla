--------------------------- MODULE CrossBuildProofs ---------------------------
(***************************************************************************)
(* Proofs that bootstrap leaves a whole sysroot behind, and that of the    *)
(* versions it was pinned to, for any number of builds, packages, versions *)
(* of the repository and interruptions.                                    *)
(*                                                                         *)
(* The sentinel is only one file of one package, so what a build relies on *)
(* when it finds it has to come from the run that put it there: a run      *)
(* begins without the sentinel and extracts a list of packages of one      *)
(* version from its beginning, and whoever is cut short before the end     *)
(* either has extracted nothing, and the sentinel is still missing, or is  *)
(* known as torn.                                                          *)
(***************************************************************************)
EXTENDS CrossBuild, SequenceTheorems, TLAPS

Steps    == {"check", "download", "downloading", "query", "extract", "unpack", "record",
             "recording", "library", "configure", "strip", "done"}
Versions == 1 .. MaxVersion

FlagsTyped ==
  /\ cold \in [Builds -> BOOLEAN] /\ glib_pc \in [Builds -> BOOLEAN]
  /\ torn \in [Builds -> BOOLEAN] /\ short \in [Builds -> BOOLEAN]

Typed ==
  /\ repo \in Versions /\ db \in 0 .. MaxVersion /\ manifest \in Seq(Files)
  /\ step \in [Builds -> Steps] /\ files \in [Builds -> Seq(Files)]
  /\ at \in [Builds -> Nat \ {0}] /\ pin \in [Builds -> 0 .. MaxVersion]
  /\ sysroot \in [Builds -> [Packages -> 0 .. Torn]]
  /\ FlagsTyped

\* A list of packages as pacman resolves them at version v, or its beginning.
Lists(list, v) == Len(list) <= N /\ \A i \in 1 .. Len(list) : list[i] = <<i, v>>

ManifestInv == \E v \in Versions : Lists(manifest, v)

\* What an extraction has done of its list, and what it knows of the list.
Extracts(b) ==
  \E v \in Versions :
    /\ Lists(files[b], v) /\ at[b] <= Len(files[b]) + 1
    /\ \A p \in Packages : p < at[b] => sysroot[b][p] = v
    /\ cold[b] \/ ~short[b] \/ pin[b] # 0 => Len(files[b]) = N
    /\ pin[b] # 0 => pin[b] = v
    /\ step[b] = "unpack" => at[b] <= Len(files[b])
    /\ step[b] = "extract" /\ at[b] = 1 => ~glib_pc[b]

\* What the two properties say of a sysroot.
Sound(b) ==
  /\ Complete(b) \/ torn[b] \/ short[b]
  /\ pin[b] # 0 /\ ~torn[b] => \A p \in Packages : sysroot[b][p] = pin[b]

BuildInv(b) ==
  /\ step[b] \in {"download", "downloading", "query"} =>
       cold[b] /\ ~short[b] /\ pin[b] = 0 /\ ~glib_pc[b]
  /\ step[b] \in {"downloading", "query"} => db # 0
  /\ step[b] \in {"extract", "unpack"} => Extracts(b)
  /\ step[b] \in {"record", "recording"} =>
       Len(files[b]) = N /\ \E v \in Versions : Lists(files[b], v)
  /\ Bootstrapped(b) \/ (step[b] = "check" /\ glib_pc[b]) => Sound(b)

SysrootInv == ManifestInv /\ \A b \in Builds : BuildInv(b)

-----------------------------------------------------------------------------
LEMMA Constants == /\ N \in Nat \ {0} /\ Glib \in 1 .. N /\ Packages = 1 .. N
                   /\ MaxVersion \in Nat \ {0} /\ Torn = MaxVersion + 1
  BY PackagesAssumption, VersionAssumption DEF Packages, Torn

LEMMA ResolvedLists ==
  ASSUME NEW v \in Versions
  PROVE  Resolved(v) \in Seq(Files) /\ Len(Resolved(v)) = N /\ Lists(Resolved(v), v)
<1>1. \A i \in 1 .. N : <<i, v>> \in Files
  BY Constants DEF Files, Versions
<1>2. Resolved(v) \in [1 .. N -> Files] /\ N \in Nat
  BY <1>1, Constants DEF Resolved
<1>3. Resolved(v) \in Seq(Files)
  BY <1>2
<1>4. Len(Resolved(v)) = N
  BY <1>2, <1>3
<1>5. QED  BY <1>3, <1>4, Constants DEF Lists, Resolved

\* Whatever is listed once is listed in its beginning.
LEMMA BeginningLists ==
  ASSUME NEW list \in Seq(Files), NEW v \in Versions, Lists(list, v), NEW k \in 0 .. Len(list)
  PROVE  SubSeq(list, 1, k) \in Seq(Files) /\ Lists(SubSeq(list, 1, k), v)
<1>1. /\ SubSeq(list, 1, k) \in Seq(Files) /\ Len(SubSeq(list, 1, k)) = k
      /\ \A i \in 1 .. k : SubSeq(list, 1, k)[i] = list[i]
  BY SubSeqProperties
<1>2. QED  BY <1>1, Constants DEF Lists

LEMMA EmptyLists ==
  ASSUME NEW v PROVE NoManifest \in Seq(Files) /\ Len(NoManifest) = 0 /\ Lists(NoManifest, v)
  BY EmptySeq, Constants DEF NoManifest, Lists

-----------------------------------------------------------------------------
LEMMA TypeInit == Init => Typed
<1> SUFFICES ASSUME Init PROVE Typed
  OBVIOUS
<1> USE DEF Init
<1>1. FlagsTyped
  BY DEF FlagsTyped
<1>2. <<>> \in Seq(Files)
  BY EmptySeq
<1>3. manifest \in Seq(Files) /\ files \in [Builds -> Seq(Files)]
  BY <1>2, Zenon DEF NoManifest
<1>4. repo \in Versions /\ db \in 0 .. MaxVersion
  BY Constants DEF Versions
<1>5. /\ step \in [Builds -> Steps] /\ at \in [Builds -> Nat \ {0}]
      /\ pin \in [Builds -> 0 .. MaxVersion]
  BY Constants DEF Steps
<1>6. sysroot \in [Builds -> [Packages -> 0 .. Torn]]
  BY Constants
<1>7. QED  BY <1>1, <1>3, <1>4, <1>5, <1>6 DEF Typed

LEMMA FlagsStep == FlagsTyped /\ [Next]_vars => FlagsTyped'
<1> SUFFICES ASSUME FlagsTyped, [Next]_vars PROVE FlagsTyped'
  OBVIOUS
<1> USE DEF FlagsTyped
<1>1. CASE UNCHANGED vars
  BY <1>1, Zenon DEF vars, run, out, past
<1>2. CASE RepoMoves \/ RemovePackage \/ SpoilArchive
  BY <1>2, Zenon DEF RepoMoves, RemovePackage, SpoilArchive, run, out, past
<1>3. ASSUME NEW b \in Builds, Interrupt(b) \/ Panic(b)
      PROVE  FlagsTyped'
  BY <1>3, Zenon DEF Interrupt, Panic, Rerun, out
<1>4. ASSUME NEW b \in Builds, InterruptDownload(b) \/ CargoClean(b)
      PROVE  FlagsTyped'
  BY <1>4, Zenon DEF InterruptDownload, CargoClean, out, past
<1>5. ASSUME NEW b \in Builds,
             \/ Cached(b) \/ DownloadBegin(b) \/ DownloadEnd(b) \/ Query(b) \/ Verify(b)
             \/ RecordBegin(b) \/ RecordEnd(b) \/ LibraryCached(b)
      PROVE  FlagsTyped'
  BY <1>5, Zenon DEF Cached, DownloadBegin, DownloadEnd, Query, Verify, RecordBegin, RecordEnd,
     LibraryCached, out, past
<1>6. ASSUME NEW b \in Builds, FastPath(b) \/ ColdPath(b)
      PROVE  FlagsTyped'
  <2>1. (Len(manifest) < N) \in BOOLEAN
    OBVIOUS
  <2>2. QED  BY <1>6, <2>1, Zenon DEF FastPath, ColdPath, out
<1>7. ASSUME NEW b \in Builds, ExtractBegin(b)
      PROVE  FlagsTyped'
  BY <1>7, Zenon DEF ExtractBegin, past
<1>8. ASSUME NEW b \in Builds, ExtractEnd(b)
      PROVE  FlagsTyped'
  BY <1>8, Zenon DEF ExtractEnd, past
<1>9. ASSUME NEW b \in Builds, Fetch(b) \/ Install(b) \/ Strip(b)
      PROVE  FlagsTyped'
  BY <1>9, Zenon DEF Fetch, Install, Strip, out, past
<1>10. QED
  BY <1>1, <1>2, <1>3, <1>4, <1>5, <1>6, <1>7, <1>8, <1>9 DEF Next, Step

\* What is at hand in an extraction.
LEMMA HereIs ==
  ASSUME Typed, NEW b \in Builds, at[b] <= Len(files[b])
  PROVE  Here(b) \in Files /\ Here(b)[1] \in Packages /\ Here(b)[2] \in Versions
<1>1. files[b] \in Seq(Files) /\ at[b] \in 1 .. Len(files[b])
  BY LenProperties DEF Typed
<1>2. Here(b) \in Files
  BY <1>1, ElementOfSeq DEF Here
<1>3. QED  BY <1>2 DEF Files, Versions

LEMMA FilesStep ==
  Typed /\ SysrootInv /\ [Next]_vars =>
    manifest' \in Seq(Files) /\ files' \in [Builds -> Seq(Files)]
<1> SUFFICES ASSUME Typed, SysrootInv, [Next]_vars
             PROVE  manifest' \in Seq(Files) /\ files' \in [Builds -> Seq(Files)]
  OBVIOUS
<1>1. manifest \in Seq(Files) /\ files \in [Builds -> Seq(Files)] /\ <<>> \in Seq(Files)
  BY EmptySeq DEF Typed
<1>2. CASE UNCHANGED vars \/ RepoMoves \/ RemovePackage \/ SpoilArchive
  BY <1>1, <1>2, Zenon DEF vars, shared, run, RepoMoves, RemovePackage, SpoilArchive
<1>3. ASSUME NEW b \in Builds, Interrupt(b) \/ Panic(b) \/ InterruptDownload(b) \/ CargoClean(b)
      PROVE  manifest' \in Seq(Files) /\ files' \in [Builds -> Seq(Files)]
  BY <1>1, <1>3, Zenon DEF Interrupt, Panic, Rerun, InterruptDownload, CargoClean, shared
<1>4. ASSUME NEW b \in Builds,
             \/ Cached(b) \/ ColdPath(b) \/ DownloadBegin(b) \/ DownloadEnd(b)
             \/ ExtractBegin(b) \/ ExtractEnd(b) \/ Verify(b) \/ LibraryCached(b)
             \/ Fetch(b) \/ Install(b) \/ Strip(b)
      PROVE  manifest' \in Seq(Files) /\ files' \in [Builds -> Seq(Files)]
  BY <1>1, <1>4, Zenon DEF Cached, ColdPath, DownloadBegin, DownloadEnd, ExtractBegin,
     ExtractEnd, Verify, LibraryCached, Fetch, Install, Strip, shared
<1>5. ASSUME NEW b \in Builds, FastPath(b) \/ RecordEnd(b)
      PROVE  manifest' \in Seq(Files) /\ files' \in [Builds -> Seq(Files)]
  BY <1>1, <1>5, Zenon DEF FastPath, RecordEnd, NoManifest, shared
<1>6. ASSUME NEW b \in Builds, Query(b)
      PROVE  manifest' \in Seq(Files) /\ files' \in [Builds -> Seq(Files)]
  <2>1. db \in Versions
    BY <1>6 DEF Query, Goto, SysrootInv, BuildInv, Typed, Versions
  <2>2. Resolved(db) \in Seq(Files)
    BY <2>1, ResolvedLists
  <2>3. QED  BY <1>1, <1>6, <2>2, Zenon DEF Query, shared
<1>7. ASSUME NEW b \in Builds, RecordBegin(b)
      PROVE  manifest' \in Seq(Files) /\ files' \in [Builds -> Seq(Files)]
  <2>1. PICK k \in 0 .. N - 1 : manifest' = SubSeq(files[b], 1, k)
    BY <1>7 DEF RecordBegin
  <2>2. PICK v \in Versions : Lists(files[b], v)
    BY <1>7 DEF RecordBegin, Goto, SysrootInv, BuildInv
  <2>3. k \in 0 .. Len(files[b])
    BY <1>7, Constants DEF RecordBegin, Goto, SysrootInv, BuildInv
  <2>4. manifest' \in Seq(Files)
    BY <1>1, <2>1, <2>2, <2>3, BeginningLists
  <2>5. QED  BY <1>1, <1>7, <2>4, Zenon DEF RecordBegin
<1>8. QED
  BY <1>2, <1>3, <1>4, <1>5, <1>6, <1>7 DEF Next, Step

LEMMA TypeStep == Typed /\ SysrootInv /\ [Next]_vars => Typed'
<1> SUFFICES ASSUME Typed, SysrootInv, [Next]_vars PROVE Typed'
  OBVIOUS
<1>1. FlagsTyped' /\ manifest' \in Seq(Files) /\ files' \in [Builds -> Seq(Files)]
  BY FlagsStep, FilesStep DEF Typed
<1>2. repo' \in Versions /\ db' \in 0 .. MaxVersion
  <2>1. CASE RepoMoves
    BY <2>1, Constants DEF Typed, RepoMoves, Versions
  <2>2. CASE \E b \in Builds : DownloadBegin(b)
    BY <2>2, Constants DEF Typed, DownloadBegin, Versions
  <2>3. CASE UNCHANGED <<repo, db>>
    BY <2>3 DEF Typed
  <2>4. \/ RepoMoves \/ \E b \in Builds : DownloadBegin(b)
        \/ UNCHANGED <<repo, db>>
    BY Zenon DEF Next, Step, Cached, FastPath, ColdPath, DownloadEnd, Query, ExtractBegin,
       ExtractEnd, Verify, RecordBegin, RecordEnd, LibraryCached, Fetch, Install, Strip, Panic,
       Rerun, Interrupt, InterruptDownload, CargoClean, RemovePackage, SpoilArchive, shared, vars
  <2>5. QED  BY <2>1, <2>2, <2>3, <2>4
<1>3. step' \in [Builds -> Steps]
  <2>1. \A b \in Builds, new \in Steps : [step EXCEPT ![b] = new] \in [Builds -> Steps]
    BY DEF Typed
  <2>2. \/ step' = step
        \/ \E b \in Builds, new \in Steps : step' = [step EXCEPT ![b] = new]
    BY DEF Next, Step, Cached, FastPath, ColdPath, DownloadBegin, DownloadEnd, Query,
       ExtractBegin, ExtractEnd, Verify, RecordBegin, RecordEnd, LibraryCached, Fetch, Install,
       Strip, Panic, Rerun, Interrupt, InterruptDownload, CargoClean, RepoMoves, RemovePackage,
       SpoilArchive, run, vars, Goto, Steps
  <2>3. QED  BY <2>1, <2>2, Zenon DEF Typed
<1>4. at' \in [Builds -> Nat \ {0}]
  BY DEF Typed, Next, Step, Cached, FastPath, ColdPath, DownloadBegin, DownloadEnd, Query,
     ExtractBegin, ExtractEnd, Verify, RecordBegin, RecordEnd, LibraryCached, Fetch, Install,
     Strip, Panic, Rerun, Interrupt, InterruptDownload, CargoClean, RepoMoves, RemovePackage,
     SpoilArchive, run, vars
<1>5. pin' \in [Builds -> 0 .. MaxVersion]
  <2>1. \A b \in Builds : Pins(b) => pin' \in [Builds -> 0 .. MaxVersion]
    <3> SUFFICES ASSUME NEW b \in Builds, Pins(b) PROVE pin' \in [Builds -> 0 .. MaxVersion]
      OBVIOUS
    <3>1. Len(manifest) = N => manifest[1] \in Files
      BY Constants, ElementOfSeq DEF Typed
    <3>2. Len(manifest) = N => manifest[1][2] \in 0 .. MaxVersion
      BY <3>1 DEF Files
    <3> DEFINE v == IF Len(manifest) = N /\ ToSet(manifest) \subseteq cache
                      THEN manifest[1][2] ELSE 0
    <3>3. v \in 0 .. MaxVersion
      BY <3>2, Constants
    <3>4. pin' = [pin EXCEPT ![b] = v]
      BY Zenon DEF Pins
    <3> HIDE DEF v
    <3>5. QED  BY <3>3, <3>4 DEF Typed
  <2>2. \/ pin' = pin \/ \E b \in Builds : Pins(b)
        \/ \E b \in Builds : pin' = [pin EXCEPT ![b] = 0]
    BY Zenon DEF Next, Step, Cached, FastPath, ColdPath, DownloadBegin, DownloadEnd, Query,
       ExtractBegin, ExtractEnd, Verify, RecordBegin, RecordEnd, LibraryCached, Fetch, Install,
       Strip, Panic, Rerun, Interrupt, InterruptDownload, CargoClean, RepoMoves, RemovePackage,
       SpoilArchive, past, vars
  <2>3. \A b \in Builds : [pin EXCEPT ![b] = 0] \in [Builds -> 0 .. MaxVersion]
    BY Constants DEF Typed
  <2>4. QED  BY <2>1, <2>2, <2>3, Zenon DEF Typed
<1>6. sysroot' \in [Builds -> [Packages -> 0 .. Torn]]
  <2>1. ASSUME NEW b \in Builds, ExtractBegin(b)
        PROVE  sysroot' \in [Builds -> [Packages -> 0 .. Torn]]
    <3>1. Here(b)[1] \in Packages /\ Torn \in 0 .. Torn
      BY <2>1, HereIs, Constants DEF ExtractBegin
    <3>2. QED  BY <2>1, <3>1 DEF ExtractBegin, Typed
  <2>2. ASSUME NEW b \in Builds, ExtractEnd(b)
        PROVE  sysroot' \in [Builds -> [Packages -> 0 .. Torn]]
    <3>1. at[b] <= Len(files[b])
      BY <2>2 DEF ExtractEnd, Goto, SysrootInv, BuildInv, Extracts
    <3>2. Here(b)[1] \in Packages /\ Here(b)[2] \in 0 .. Torn
      BY <3>1, HereIs, Constants DEF Versions
    <3>3. QED  BY <2>2, <3>2 DEF ExtractEnd, Typed
  <2>3. ASSUME NEW b \in Builds, CargoClean(b)
        PROVE  sysroot' \in [Builds -> [Packages -> 0 .. Torn]]
    <3>1. [p \in Packages |-> 0] \in [Packages -> 0 .. Torn]
      BY Constants
    <3>2. QED  BY <2>3, <3>1, Zenon DEF CargoClean, Typed
  <2>4. \/ \E b \in Builds : ExtractBegin(b) \/ ExtractEnd(b) \/ CargoClean(b)
        \/ sysroot' = sysroot
    BY Zenon DEF Next, Step, Cached, FastPath, ColdPath, DownloadBegin, DownloadEnd, Query,
       Verify, RecordBegin, RecordEnd, LibraryCached, Fetch, Install, Strip, Panic, Rerun,
       Interrupt, InterruptDownload, RepoMoves, RemovePackage, SpoilArchive, out, vars
  <2>5. QED  BY <2>1, <2>2, <2>3, <2>4 DEF Typed
<1>7. QED  BY <1>1, <1>2, <1>3, <1>4, <1>5, <1>6 DEF Typed

-----------------------------------------------------------------------------
(* A build shares nothing with the others but the cache.                   *)

Acts(b) == Step(b) \/ Interrupt(b) \/ InterruptDownload(b) \/ CargoClean(b)

Stays(c) ==
  /\ step'[c] = step[c] /\ files'[c] = files[c] /\ at'[c] = at[c] /\ cold'[c] = cold[c]
  /\ sysroot'[c] = sysroot[c] /\ glib_pc'[c] = glib_pc[c] /\ torn'[c] = torn[c]
  /\ short'[c] = short[c] /\ pin'[c] = pin[c]

LEMMA OthersStay ==
  ASSUME Typed, NEW b \in Builds, Acts(b), NEW c \in Builds \ {b}
  PROVE  Stays(c)
<1> USE DEF Typed, FlagsTyped, Stays
<1>1. CASE Interrupt(b) \/ Panic(b)
  BY <1>1, Zenon DEF Interrupt, Panic, Rerun, out
<1>2. CASE InterruptDownload(b) \/ CargoClean(b)
  BY <1>2, Zenon DEF InterruptDownload, CargoClean, Goto, out, past
<1>3. CASE \/ Cached(b) \/ DownloadBegin(b) \/ DownloadEnd(b) \/ Verify(b)
           \/ RecordBegin(b) \/ RecordEnd(b) \/ LibraryCached(b)
  BY <1>3, Zenon DEF Cached, DownloadBegin, DownloadEnd, Verify, RecordBegin, RecordEnd,
     LibraryCached, Goto, out, past
<1>4. CASE FastPath(b) \/ ColdPath(b)
  BY <1>4, Zenon DEF FastPath, ColdPath, Pins, Goto, out
<1>5. CASE Query(b)
  BY <1>5, Zenon DEF Query, Goto, out, past
<1>6. CASE ExtractBegin(b)
  BY <1>6, Zenon DEF ExtractBegin, Goto, past
<1>7. CASE ExtractEnd(b)
  BY <1>7, Zenon DEF ExtractEnd, Goto, past
<1>8. CASE Fetch(b) \/ Install(b) \/ Strip(b)
  BY <1>8, Zenon DEF Fetch, Install, Strip, Goto, out, past
<1>9. QED
  BY <1>1, <1>2, <1>3, <1>4, <1>5, <1>6, <1>7, <1>8 DEF Acts, Step

\* pacman's database is never lost.
LEMMA DatabaseStays == Typed /\ [Next]_vars /\ db # 0 => db' # 0
  BY Constants DEF Typed, Versions, Next, Step, Cached, FastPath, ColdPath, DownloadBegin,
     DownloadEnd, Query, ExtractBegin, ExtractEnd, Verify, RecordBegin, RecordEnd,
     LibraryCached, Fetch, Install, Strip, Panic, Rerun, Interrupt, InterruptDownload,
     CargoClean, RepoMoves, RemovePackage, SpoilArchive, shared, vars

LEMMA StaysInv ==
  ASSUME NEW c \in Builds, BuildInv(c), Stays(c), db # 0 => db' # 0
  PROVE  BuildInv(c)'
<1> USE DEF Stays
<1>1. Extracts(c) /\ step[c] \in {"extract", "unpack"} => Extracts(c)'
  BY Zenon DEF Extracts
<1>2. Bootstrapped(c)' <=> Bootstrapped(c)
  BY Zenon DEF Bootstrapped
<1>3. Sound(c) => Sound(c)'
  BY Zenon DEF Sound, Complete
<1>4. QED  BY <1>1, <1>2, <1>3, Zenon DEF BuildInv

-----------------------------------------------------------------------------
(* The manifest is the beginning of what a cold build has resolved. *)

LEMMA ManifestKept == Typed /\ SysrootInv /\ [Next]_vars => ManifestInv'
<1> SUFFICES ASSUME Typed, SysrootInv, [Next]_vars PROVE ManifestInv'
  OBVIOUS
<1>1. ASSUME NEW b \in Builds, RecordBegin(b) PROVE ManifestInv'
  <2>1. PICK k \in 0 .. N - 1 : manifest' = SubSeq(files[b], 1, k)
    BY <1>1 DEF RecordBegin
  <2>2. PICK v \in Versions : Lists(files[b], v)
    BY <1>1 DEF RecordBegin, Goto, SysrootInv, BuildInv
  <2>3. k \in 0 .. Len(files[b]) /\ files[b] \in Seq(Files)
    BY <1>1, Constants DEF RecordBegin, Goto, SysrootInv, BuildInv, Typed
  <2>4. Lists(manifest', v)
    BY <2>1, <2>2, <2>3, BeginningLists
  <2>5. QED  BY <2>4 DEF ManifestInv, Lists
<1>2. ASSUME NEW b \in Builds, RecordEnd(b) PROVE ManifestInv'
  <2>1. PICK v \in Versions : Lists(files[b], v)
    BY <1>2 DEF RecordEnd, Goto, SysrootInv, BuildInv
  <2>2. Lists(NoManifest, v)
    BY EmptyLists
  <2>3. QED  BY <1>2, <2>1, <2>2, Zenon DEF RecordEnd, ManifestInv
<1>3. \/ \E b \in Builds : RecordBegin(b) \/ RecordEnd(b)
      \/ manifest' = manifest
  BY Zenon DEF Next, Step, Cached, FastPath, ColdPath, DownloadBegin, DownloadEnd, Query,
     ExtractBegin, ExtractEnd, Verify, LibraryCached, Fetch, Install, Strip, Panic, Rerun,
     Interrupt, InterruptDownload, CargoClean, RepoMoves, RemovePackage, SpoilArchive, shared,
     vars
<1>4. QED  BY <1>1, <1>2, <1>3 DEF SysrootInv, ManifestInv, Lists

-----------------------------------------------------------------------------
(* A step of a build, and what it leaves of the build's own invariant. *)

\* A run that ends without the sentinel, or with one it can rely on, or torn.
LEMMA RerunKeeps ==
  ASSUME Typed, NEW b \in Builds, BuildInv(b), Rerun(b)
  PROVE  BuildInv(b)'
<1> USE DEF Typed, FlagsTyped
<1>1. /\ step'[b] = "check" /\ glib_pc'[b] = glib_pc[b] /\ short'[b] = short[b]
      /\ pin'[b] = pin[b] /\ sysroot'[b] = sysroot[b]
  BY Zenon DEF Rerun, out
<1>2. torn'[b] <=> torn[b] \/ step[b] = "unpack" \/ (step[b] = "extract" /\ at[b] > 1)
  <2>1. (at[b] > 1) \in BOOLEAN
    OBVIOUS
  <2>2. QED  BY <2>1, Zenon DEF Rerun
<1>3. CASE ~glib_pc[b]
  BY <1>1, <1>3 DEF BuildInv, Bootstrapped
<1>4. CASE glib_pc[b]
  <2>1. Sound(b) \/ step[b] \in {"extract", "unpack"}
    BY <1>4 DEF BuildInv, Bootstrapped, Steps
  <2>2. step[b] = "extract" => at[b] # 1
    BY <1>4 DEF BuildInv, Extracts
  <2>3. Sound(b)'
    BY <1>1, <1>2, <2>1, <2>2 DEF Sound, Complete
  <2>4. QED  BY <1>1, <2>3 DEF BuildInv, Bootstrapped
<1>5. QED  BY <1>3, <1>4

LEMMA FastKeeps ==
  ASSUME Typed, ManifestInv, NEW b \in Builds, BuildInv(b), FastPath(b)
  PROVE  BuildInv(b)'
<1> USE DEF Typed, FlagsTyped
<1>1. /\ step'[b] = "extract" /\ files'[b] = manifest /\ at'[b] = 1 /\ ~cold'[b]
      /\ ~glib_pc[b] /\ glib_pc'[b] = glib_pc[b]
      /\ manifest # <<>> /\ ToSet(manifest) \subseteq cache
  BY Zenon DEF FastPath, Goto, ValidManifest, NoManifest, out
<1>2. ~short'[b] => ~(Len(manifest) < N)
  <2>1. (Len(manifest) < N) \in BOOLEAN
    OBVIOUS
  <2>2. QED  BY <2>1, Zenon DEF FastPath
<1>3. pin'[b] = IF Len(manifest) = N /\ ToSet(manifest) \subseteq cache
                  THEN manifest[1][2] ELSE 0
  BY Zenon DEF FastPath, Pins
<1>4. PICK v \in Versions : Lists(manifest, v)
  BY DEF ManifestInv
<1>5. Len(manifest) \in Nat
  BY LenProperties
<1>6. pin'[b] # 0 => Len(manifest) = N /\ pin'[b] = v
  <2>1. SUFFICES ASSUME pin'[b] # 0 PROVE Len(manifest) = N /\ pin'[b] = v
    OBVIOUS
  <2>2. Len(manifest) = N /\ pin'[b] = manifest[1][2]
    BY <1>3, <2>1
  <2>3. manifest[1] = <<1, v>>
    <3>1. 1 \in 1 .. Len(manifest)
      BY <2>2, Constants
    <3>2. QED  BY <1>4, <3>1, Zenon DEF Lists
  <2>4. QED  BY <2>2, <2>3
<1>7. ~short'[b] => Len(manifest) = N
  BY <1>2, <1>4, <1>5, Constants DEF Lists
<1>8. Extracts(b)'
  <2>1. Lists(files'[b], v) /\ at'[b] <= Len(files'[b]) + 1
    BY <1>1, <1>4, <1>5
  <2>2. \A p \in Packages : ~(p < at'[b])
    BY <1>1, Constants
  <2>3. cold'[b] \/ ~short'[b] \/ pin'[b] # 0 => Len(files'[b]) = N
    BY <1>1, <1>6, <1>7
  <2>4. QED  BY <1>1, <1>6, <2>1, <2>2, <2>3 DEF Extracts, Lists
<1>9. QED  BY <1>1, <1>8 DEF BuildInv, Bootstrapped

\* A manifest that is whole and valid is not resolved again.
LEMMA ColdKeeps ==
  ASSUME Typed, NEW b \in Builds, BuildInv(b), ColdPath(b)
  PROVE  BuildInv(b)'
<1> USE DEF Typed, FlagsTyped
<1>1. /\ step'[b] = "download" /\ cold'[b] /\ ~short'[b]
      /\ ~glib_pc[b] /\ glib_pc'[b] = glib_pc[b] /\ ~ValidManifest
      /\ pin'[b] = IF Len(manifest) = N /\ ToSet(manifest) \subseteq cache
                     THEN manifest[1][2] ELSE 0
  BY Zenon DEF ColdPath, Goto, Pins, out
<1>2. Len(manifest) = N => manifest # <<>>
  BY Constants
<1>3. pin'[b] = 0
  BY <1>1, <1>2 DEF ValidManifest, NoManifest
<1>4. QED  BY <1>1, <1>3 DEF BuildInv, Bootstrapped

LEMMA QueryKeeps ==
  ASSUME Typed, NEW b \in Builds, BuildInv(b), Query(b)
  PROVE  BuildInv(b)'
<1> USE DEF Typed, FlagsTyped
<1>1. /\ step[b] = "query" /\ step'[b] = "extract" /\ files'[b] = Resolved(db) /\ at'[b] = 1
      /\ cold'[b] = cold[b] /\ glib_pc'[b] = glib_pc[b] /\ short'[b] = short[b]
      /\ pin'[b] = pin[b]
  BY Zenon DEF Query, Goto, out, past
<1>2. db \in Versions /\ pin[b] = 0 /\ ~glib_pc[b]
  BY <1>1, Constants DEF BuildInv, Versions
<1>3. Len(files'[b]) = N /\ Lists(files'[b], db)
  BY <1>1, <1>2, ResolvedLists
<1>4. \A p \in Packages : ~(p < at'[b])
  BY <1>1, Constants
<1>5. Extracts(b)'
  <2>1. at'[b] <= Len(files'[b]) + 1
    BY <1>1, <1>3, Constants
  <2>2. pin'[b] = 0 /\ step'[b] # "unpack" /\ ~glib_pc'[b]
    BY <1>1, <1>2
  <2>3. QED  BY <1>2, <1>3, <1>4, <2>1, <2>2 DEF Extracts, Lists
<1>6. QED  BY <1>1, <1>5 DEF BuildInv, Bootstrapped

\* A package that is being extracted is the one after those that have been.
LEMMA ExtractBeginKeeps ==
  ASSUME Typed, NEW b \in Builds, BuildInv(b), ExtractBegin(b)
  PROVE  BuildInv(b)'
<1> USE DEF Typed, FlagsTyped
<1>1. /\ step[b] = "extract" /\ step'[b] = "unpack" /\ files'[b] = files[b] /\ at'[b] = at[b]
      /\ cold'[b] = cold[b] /\ short'[b] = short[b] /\ pin'[b] = pin[b]
      /\ at[b] <= Len(files[b])
  BY Zenon DEF ExtractBegin, Goto, past
<1>2. PICK v \in Versions :
        /\ Lists(files[b], v)
        /\ \A p \in Packages : p < at[b] => sysroot[b][p] = v
        /\ cold[b] \/ ~short[b] \/ pin[b] # 0 => Len(files[b]) = N
        /\ pin[b] # 0 => pin[b] = v
  BY <1>1 DEF BuildInv, Extracts
<1>3. at[b] \in 1 .. Len(files[b])
  BY <1>1, LenProperties
<1>4. Here(b)[1] = at[b]
  BY <1>2, <1>3 DEF Lists, Here
<1>5. sysroot'[b] = [sysroot[b] EXCEPT ![at[b]] = Torn]
  BY <1>4, Zenon DEF ExtractBegin
<1>6. \A p \in Packages : p < at'[b] => sysroot'[b][p] = v
  <2> SUFFICES ASSUME NEW p \in Packages, p < at[b] PROVE sysroot'[b][p] = v
    BY <1>1
  <2>1. p # at[b] /\ sysroot[b][p] = v
    BY <1>2, <1>3, Constants
  <2>2. QED  BY <1>5, <2>1
<1>7. Extracts(b)'
  <2>1. at'[b] <= Len(files'[b]) + 1 /\ at'[b] <= Len(files'[b])
    BY <1>1, <1>3
  <2>2. Lists(files'[b], v)
    BY <1>1, <1>2
  <2>3. /\ cold'[b] \/ ~short'[b] \/ pin'[b] # 0 => Len(files'[b]) = N
        /\ pin'[b] # 0 => pin'[b] = v
    BY <1>1, <1>2
  <2>4. step'[b] # "extract"
    BY <1>1
  <2>5. QED  BY <1>6, <2>1, <2>2, <2>3, <2>4 DEF Extracts, Lists
<1>8. QED  BY <1>1, <1>7 DEF BuildInv, Bootstrapped

LEMMA ExtractEndKeeps ==
  ASSUME Typed, NEW b \in Builds, BuildInv(b), ExtractEnd(b)
  PROVE  BuildInv(b)'
<1> USE DEF Typed, FlagsTyped
<1>1. /\ step[b] = "unpack" /\ step'[b] = "extract" /\ files'[b] = files[b]
      /\ at'[b] = at[b] + 1
      /\ cold'[b] = cold[b] /\ short'[b] = short[b] /\ pin'[b] = pin[b]
  BY Zenon DEF ExtractEnd, Goto, past
<1>2. PICK v \in Versions :
        /\ Lists(files[b], v) /\ at[b] <= Len(files[b])
        /\ \A p \in Packages : p < at[b] => sysroot[b][p] = v
        /\ cold[b] \/ ~short[b] \/ pin[b] # 0 => Len(files[b]) = N
        /\ pin[b] # 0 => pin[b] = v
  BY <1>1 DEF BuildInv, Extracts
<1>3. at[b] \in 1 .. Len(files[b])
  BY <1>2, LenProperties
<1>4. Here(b) = <<at[b], v>>
  BY <1>2, <1>3 DEF Lists, Here
<1>5. sysroot'[b] = [sysroot[b] EXCEPT ![at[b]] = v]
  <2>1. Here(b)[1] = at[b] /\ Here(b)[2] = v
    BY <1>4
  <2>2. QED  BY <2>1, Zenon DEF ExtractEnd
<1>6. \A p \in Packages : p < at'[b] => sysroot'[b][p] = v
  BY <1>1, <1>2, <1>5, Constants
<1>7. Extracts(b)'
  <2>1. at'[b] <= Len(files'[b]) + 1 /\ at'[b] # 1
    BY <1>1, <1>3
  <2>2. Lists(files'[b], v)
    BY <1>1, <1>2
  <2>3. /\ cold'[b] \/ ~short'[b] \/ pin'[b] # 0 => Len(files'[b]) = N
        /\ pin'[b] # 0 => pin'[b] = v
    BY <1>1, <1>2
  <2>4. step'[b] # "unpack"
    BY <1>1
  <2>5. QED  BY <1>6, <2>1, <2>2, <2>3, <2>4 DEF Extracts, Lists
<1>8. QED  BY <1>1, <1>7 DEF BuildInv, Bootstrapped

\* What has been extracted is the whole list, and it lists every package unless
\* its writer was cut short.
LEMMA VerifyKeeps ==
  ASSUME Typed, NEW b \in Builds, BuildInv(b), Verify(b)
  PROVE  BuildInv(b)'
<1> USE DEF Typed, FlagsTyped
<1>1. /\ step[b] = "extract" /\ step'[b] = (IF cold[b] THEN "record" ELSE "library")
      /\ files'[b] = files[b] /\ sysroot'[b] = sysroot[b]
      /\ short'[b] = short[b] /\ pin'[b] = pin[b] /\ torn'[b] = torn[b]
      /\ at[b] > Len(files[b])
  BY Zenon DEF Verify, Goto, out, past
<1>2. PICK v \in Versions :
        /\ Lists(files[b], v)
        /\ \A p \in Packages : p < at[b] => sysroot[b][p] = v
        /\ cold[b] \/ ~short[b] \/ pin[b] # 0 => Len(files[b]) = N
        /\ pin[b] # 0 => pin[b] = v
  BY <1>1 DEF BuildInv, Extracts
<1>3. Len(files[b]) = N => \A p \in Packages : sysroot[b][p] = v
  BY <1>1, <1>2, Constants
<1>4. Sound(b)'
  <2>1. pin'[b] # 0 => \A p \in Packages : sysroot'[b][p] = pin'[b]
    BY <1>1, <1>2, <1>3
  <2>2. Len(files[b]) = N => \A p \in Packages : sysroot'[b][p] \in 1 .. MaxVersion
    BY <1>1, <1>3 DEF Versions
  <2>3. QED  BY <1>1, <1>2, <2>1, <2>2 DEF Sound, Complete
<1>5. cold[b] => Len(files'[b]) = N /\ Lists(files'[b], v)
  BY <1>1, <1>2
<1>6. QED  BY <1>1, <1>4, <1>5 DEF BuildInv, Bootstrapped, Lists

\* The rest only passes on what bootstrap has left.
LEMMA FinishKeeps ==
  ASSUME Typed, NEW b \in Builds, BuildInv(b),
         \/ Cached(b) \/ RecordBegin(b) \/ RecordEnd(b)
         \/ LibraryCached(b) \/ Fetch(b) \/ Install(b) \/ Strip(b)
  PROVE  BuildInv(b)'
<1> USE DEF Typed, FlagsTyped
<1>1. /\ files'[b] = files[b] /\ sysroot'[b] = sysroot[b]
      /\ short'[b] = short[b] /\ pin'[b] = pin[b] /\ torn'[b] = torn[b]
  BY Zenon DEF Cached, RecordBegin, RecordEnd, LibraryCached, Fetch, Install, Strip, out, past
<1>2. /\ Bootstrapped(b) \/ (step[b] = "check" /\ glib_pc[b])
      /\ step'[b] \in {"recording", "library", "configure", "strip", "done"}
      /\ step'[b] = "recording" => step[b] = "record"
  BY DEF Cached, RecordBegin, RecordEnd, LibraryCached, Fetch, Install, Strip, Goto, Bootstrapped
<1>3. Sound(b)
  BY <1>2 DEF BuildInv
<1>4. Sound(b)'
  BY <1>1, <1>3, Zenon DEF Sound, Complete
<1>5. step'[b] = "recording" => Len(files'[b]) = N /\ \E v \in Versions : Lists(files'[b], v)
  BY <1>1, <1>2 DEF BuildInv, Lists
<1>6. QED  BY <1>2, <1>4, <1>5 DEF BuildInv, Lists

LEMMA DownloadKeeps ==
  ASSUME Typed, NEW b \in Builds, BuildInv(b),
         DownloadBegin(b) \/ DownloadEnd(b) \/ InterruptDownload(b)
  PROVE  BuildInv(b)'
<1> USE DEF Typed, FlagsTyped
<1>1. /\ glib_pc'[b] = glib_pc[b] /\ cold'[b] = cold[b]
      /\ short'[b] = short[b] /\ pin'[b] = pin[b]
      /\ step[b] \in {"download", "downloading"} /\ step'[b] \in {"downloading", "query", "check"}
  BY Zenon DEF DownloadBegin, DownloadEnd, InterruptDownload, Goto, out, past
<1>2. db' # 0
  BY Constants DEF DownloadBegin, DownloadEnd, InterruptDownload, Goto, BuildInv, Versions
<1>3. cold[b] /\ ~short[b] /\ pin[b] = 0 /\ ~glib_pc[b]
  BY <1>1 DEF BuildInv
<1>4. QED  BY <1>1, <1>2, <1>3 DEF BuildInv, Bootstrapped

LEMMA CleanKeeps ==
  ASSUME Typed, NEW b \in Builds, CargoClean(b)
  PROVE  BuildInv(b)'
<1>1. step'[b] = "check" /\ ~glib_pc'[b]
  BY Zenon DEF CargoClean, Typed, FlagsTyped
<1>2. QED  BY <1>1 DEF BuildInv, Bootstrapped

-----------------------------------------------------------------------------
LEMMA SysrootInit == Init => SysrootInv
<1> SUFFICES ASSUME Init PROVE SysrootInv
  OBVIOUS
<1>1. 1 \in Versions /\ Len(manifest) = 0
  BY EmptyLists, Constants DEF Init, Versions
<1>2. Lists(manifest, 1)
  BY <1>1, Constants DEF Lists
<1>3. \A b \in Builds : step[b] = "check" /\ ~glib_pc[b]
  BY Zenon DEF Init
<1>4. QED  BY <1>1, <1>2, <1>3 DEF SysrootInv, ManifestInv, BuildInv, Bootstrapped

LEMMA SysrootStep == Typed /\ SysrootInv /\ [Next]_vars => SysrootInv'
<1> SUFFICES ASSUME Typed, SysrootInv, [Next]_vars PROVE SysrootInv'
  OBVIOUS
<1>1. ManifestInv' /\ (db # 0 => db' # 0)
  BY ManifestKept, DatabaseStays
<1>2. ASSUME NEW b \in Builds, Acts(b), NEW c \in Builds
      PROVE  BuildInv(c)'
  <2>1. CASE c # b
    BY <1>1, <1>2, <2>1, OthersStay, StaysInv DEF SysrootInv
  <2>2. CASE c = b
    <3>1. BuildInv(b) /\ ManifestInv
      BY DEF SysrootInv
    <3>2. BuildInv(b)'
      BY <1>2, <3>1, RerunKeeps, FastKeeps, ColdKeeps, QueryKeeps, ExtractBeginKeeps,
         ExtractEndKeeps, VerifyKeeps, FinishKeeps, DownloadKeeps, CleanKeeps
         DEF Acts, Step, Interrupt, Panic
    <3>3. QED  BY <2>2, <3>2
  <2>3. QED  BY <2>1, <2>2
<1>3. ASSUME UNCHANGED vars \/ RepoMoves \/ RemovePackage \/ SpoilArchive, NEW c \in Builds
      PROVE  BuildInv(c)'
  <2>1. Stays(c)
    BY <1>3, Zenon DEF vars, RepoMoves, RemovePackage, SpoilArchive, run, out, past, Stays
  <2>2. QED  BY <1>1, <2>1, StaysInv DEF SysrootInv
<1>4. QED  BY <1>1, <1>2, <1>3 DEF Next, Acts, SysrootInv

LEMMA SysrootHeld == Spec => []SysrootInv
  BY TypeInit, TypeStep, SysrootInit, SysrootStep, PTL DEF Spec

\* bootstrap (windows.rs): whatever sentinel it goes by, it leaves every package
\* to configure and the linker, unless it was cut short while it extracted or
\* followed a manifest that was.
THEOREM SysrootIsWhole == Spec => []SysrootWhole
<1>1. SysrootInv => SysrootWhole
  BY DEF SysrootInv, BuildInv, Sound, SysrootWhole
<1>2. QED  BY <1>1, SysrootHeld, PTL

\* bootstrap (windows.rs): a build that begins with a whole manifest and its
\* packages gets that manifest's versions, wherever the repository is and
\* whatever other builds download and record meanwhile.
THEOREM VersionsPinned == Spec => []Pinned
<1>1. SysrootInv => Pinned
  BY DEF SysrootInv, BuildInv, Sound, Pinned
<1>2. QED  BY <1>1, SysrootHeld, PTL
=============================================================================
