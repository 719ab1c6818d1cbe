------------------------------ MODULE CrossBuild ------------------------------
(***************************************************************************)
(* The cross build for Windows: bootstrap fills a sysroot in OUT_DIR with  *)
(* MSYS2 packages, from the list that an earlier build recorded or as      *)
(* pacman resolves them now, and libsigrok is configured against it.       *)
(* Builds with an OUT_DIR each share a cache, which outlives cargo clean:  *)
(* packages, pacman's database and its lock, the manifest, and the archive *)
(* of libsigrok.  A build may be interrupted at any step and is then run   *)
(* again; the repository moves on, and somebody may empty the cache.       *)
(*                                                                         *)
(* Packages are numbered in pacman's order and all have the repository's   *)
(* version when they were resolved.  pacman fails when the lock is there,  *)
(* and gives a package its name when it has all of it.  How an archive in  *)
(* the cache can come to be cut short is DependencyBuild's subject: here   *)
(* it may be found so.                                                     *)
(***************************************************************************)
EXTENDS Naturals, Sequences, SequencesExt

CONSTANTS
  Builds,      \* builds, each with an OUT_DIR of its own
  N,           \* packages
  Glib,        \* the one whose file is the sentinel
  MaxVersion,  \* bound: versions of the repository
  MaxFails     \* bound: interruptions, and packages lost or spoilt in the cache

Packages == 1 .. N
Torn     == MaxVersion + 1

ASSUME PackagesAssumption == N \in Nat /\ Glib \in Packages /\ MaxFails \in Nat
ASSUME VersionAssumption  == MaxVersion \in Nat \ {0}

VARIABLES
  repo,                          \* the version that the mirrors have
  db, cache, manifest,           \* in the shared cache: pacman's version, files, recorded files
  lock, archive,                 \*   pacman's db.lck; the tarball of libsigrok
  step, files, at,               \* a build: what it does next, what it extracts, how far it is
  cold,                          \*   it has resolved the packages itself
  sysroot, glib_pc, libsigrok,   \* its OUT_DIR
  fails,
  torn,                          \* history: an extraction into this OUT_DIR was cut short
  short,                         \*   the manifest it follows had been cut short
  pin                            \*   the version of a whole manifest that it began with

shared == <<repo, db, cache, manifest, lock, archive>>
run    == <<step, files, at, cold>>
out    == <<sysroot, glib_pc, libsigrok>>
past   == <<torn, short, pin>>
vars   == <<shared, run, out, fails, past>>

\* A manifest with a line that is no package's file is as good as none.
NoManifest == <<>>

Resolved(v) == [p \in Packages |-> <<p, v>>]

Init ==
  /\ repo = 1 /\ db = 0 /\ cache = {} /\ manifest = NoManifest /\ fails = 0
  /\ lock = "free" /\ archive = "missing"
  /\ step = [b \in Builds |-> "check"] /\ files = [b \in Builds |-> <<>>]
  /\ at = [b \in Builds |-> 1] /\ cold = [b \in Builds |-> FALSE]
  /\ sysroot = [b \in Builds |-> [p \in Packages |-> 0]]
  /\ glib_pc = [b \in Builds |-> FALSE] /\ libsigrok = [b \in Builds |-> "missing"]
  /\ torn = [b \in Builds |-> FALSE] /\ short = torn /\ pin = [b \in Builds |-> 0]

-----------------------------------------------------------------------------
(* bootstrap *)

Goto(b, from, to) == step[b] = from /\ step' = [step EXCEPT ![b] = to]

\* Variant: the manifest is taken at its word.
ManifestTrusted == manifest # NoManifest

\* Variant: pacman is asked every time.
NeverValid == FALSE

\* valid_manifest: the recorded packages, if they are all there.
ValidManifest == manifest # NoManifest /\ ToSet(manifest) \subseteq cache

\* The sentinel is one file of one package.
Cached(b) ==
  /\ glib_pc[b] /\ Goto(b, "check", "library")
  /\ UNCHANGED <<shared, files, at, cold, out, fails, past>>

\* The pin is the manifest's version when there is nothing amiss with it.
Pins(b) == pin' = [pin EXCEPT ![b] = IF Len(manifest) = N /\ ToSet(manifest) \subseteq cache
                                       THEN manifest[1][2] ELSE 0]

FastPath(b) ==
  /\ ~glib_pc[b] /\ ValidManifest /\ Goto(b, "check", "extract")
  /\ files' = [files EXCEPT ![b] = manifest] /\ at' = [at EXCEPT ![b] = 1]
  /\ cold' = [cold EXCEPT ![b] = FALSE]
  /\ short' = [short EXCEPT ![b] = Len(manifest) < N] /\ Pins(b)
  /\ UNCHANGED <<shared, out, fails, torn>>

ColdPath(b) ==
  /\ ~glib_pc[b] /\ ~ValidManifest /\ Goto(b, "check", "download")
  /\ cold' = [cold EXCEPT ![b] = TRUE]
  /\ short' = [short EXCEPT ![b] = FALSE] /\ Pins(b)
  /\ UNCHANGED <<shared, files, at, out, fails, torn>>

\* pacman -Syw takes the lock, syncs its database and gets what is missing.
DownloadBegin(b) ==
  /\ lock = "free" /\ lock' = "held" /\ Goto(b, "download", "downloading")
  /\ db' = repo /\ UNCHANGED <<repo, cache, manifest, archive, files, at, cold, out, fails, past>>

DownloadEnd(b) ==
  /\ Goto(b, "downloading", "query") /\ lock' = "free"
  /\ cache' = cache \cup ToSet(Resolved(db))
  /\ UNCHANGED <<repo, db, manifest, archive, files, at, cold, out, fails, past>>

\* pacman -Sp looks at the database, which another build may have synced since.
Query(b) ==
  /\ Goto(b, "query", "extract")
  /\ files' = [files EXCEPT ![b] = Resolved(db)] /\ at' = [at EXCEPT ![b] = 1]
  /\ UNCHANGED <<shared, cold, out, fails, past>>

Here(b) == files[b][at[b]]

\* A package in extraction is torn, the sentinel among its files or not.
ExtractBegin(b) ==
  /\ at[b] <= Len(files[b]) /\ Here(b) \in cache /\ Goto(b, "extract", "unpack")
  /\ sysroot' = [sysroot EXCEPT ![b][Here(b)[1]] = Torn]
  /\ \E found \in BOOLEAN :
       glib_pc' = [glib_pc EXCEPT ![b] = @ \/ (Here(b)[1] = Glib /\ found)]
  /\ UNCHANGED <<shared, files, at, cold, libsigrok, fails, past>>

\* Variant: extraction ends when the sentinel is there.
ExtractUntilSentinel(b) ==
  /\ Goto(b, "unpack", "extract")
  /\ sysroot' = [sysroot EXCEPT ![b][Here(b)[1]] = Here(b)[2]]
  /\ glib_pc' = [glib_pc EXCEPT ![b] = @ \/ Here(b)[1] = Glib]
  /\ at' = [at EXCEPT ![b] = IF glib_pc'[b] THEN Len(files[b]) + 1 ELSE @ + 1]
  /\ UNCHANGED <<shared, files, cold, libsigrok, fails, past>>

ExtractEnd(b) ==
  /\ Goto(b, "unpack", "extract")
  /\ sysroot' = [sysroot EXCEPT ![b][Here(b)[1]] = Here(b)[2]]
  /\ glib_pc' = [glib_pc EXCEPT ![b] = @ \/ Here(b)[1] = Glib]
  /\ at' = [at EXCEPT ![b] = @ + 1]
  /\ UNCHANGED <<shared, files, cold, libsigrok, fails, past>>

Verify(b) ==
  /\ at[b] > Len(files[b]) /\ glib_pc[b]
  /\ Goto(b, "extract", IF cold[b] THEN "record" ELSE "library")
  /\ UNCHANGED <<shared, files, at, cold, out, fails, past>>

\* fs::write truncates the manifest, and has written some of it when it fails:
\* some lines, none of them (as good as: one of them cut).
RecordBegin(b) ==
  /\ Goto(b, "record", "recording")
  /\ \E k \in 0 .. N - 1 : manifest' = SubSeq(files[b], 1, k)
  /\ UNCHANGED <<repo, db, cache, lock, archive, files, at, cold, out, fails, past>>

\* Where another build has written its own since, the longer one sticks out.
RecordEnd(b) ==
  /\ Goto(b, "recording", "library")
  /\ \/ manifest' = files[b]
     \/ Len(manifest) = N /\ manifest # files[b] /\ manifest' = NoManifest
  /\ UNCHANGED <<repo, db, cache, lock, archive, files, at, cold, out, fails, past>>

-----------------------------------------------------------------------------
(* build_libsigrok_cross, and what happens to builds and to the cache. *)

Complete(b) == \A p \in Packages : sysroot[b][p] \in 1 .. MaxVersion

LibraryCached(b) ==
  /\ libsigrok[b] # "missing" /\ Goto(b, "library", "done")
  /\ UNCHANGED <<shared, files, at, cold, out, fails, past>>

\* fetch: what is in the cache is taken for the archive.
Fetch(b) ==
  /\ libsigrok[b] = "missing" /\ Goto(b, "library", "configure")
  /\ archive' = IF archive = "missing" THEN "whole" ELSE archive
  /\ UNCHANGED <<repo, db, cache, manifest, lock, files, at, cold, out, fails, past>>

\* The archive is extracted, configure finds its libraries, and make install
\* puts libsigrok.a there.
Install(b) ==
  /\ archive = "whole" /\ Complete(b) /\ Goto(b, "configure", "strip")
  /\ libsigrok' = [libsigrok EXCEPT ![b] = "unstripped"]
  /\ UNCHANGED <<shared, files, at, cold, sysroot, glib_pc, fails, past>>

\* The VXI objects are taken out of the archive.
Strip(b) ==
  /\ Goto(b, "strip", "done")
  /\ libsigrok' = [libsigrok EXCEPT ![b] = "stripped"]
  /\ UNCHANGED <<shared, files, at, cold, sysroot, glib_pc, fails, past>>

\* A build ends and is run again, with what is on disk.
Rerun(b) ==
  /\ step' = [step EXCEPT ![b] = "check"] /\ files' = [files EXCEPT ![b] = <<>>]
  /\ at' = [at EXCEPT ![b] = 1] /\ cold' = [cold EXCEPT ![b] = FALSE]
  /\ torn' = [torn EXCEPT ![b] = @ \/ step[b] = "unpack" \/ (step[b] = "extract" /\ at[b] > 1)]
  /\ UNCHANGED <<shared, out, short, pin>>

\* pacman finds a lock, a package or the sentinel is missing, or the extraction
\* of libsigrok or its configure fails.
Panic(b) ==
  /\ \/ step[b] = "download" /\ lock # "free"
     \/ step[b] = "extract" /\ at[b] <= Len(files[b]) /\ Here(b) \notin cache
     \/ step[b] = "extract" /\ at[b] > Len(files[b]) /\ ~glib_pc[b]
     \/ step[b] = "configure" /\ (archive # "whole" \/ ~Complete(b))
  /\ Rerun(b) /\ UNCHANGED fails

Fail == fails < MaxFails /\ fails' = fails + 1

Interrupt(b) == step[b] \notin {"check", "downloading", "done"} /\ Fail /\ Rerun(b)

\* pacman fails or is interrupted: its database is the new one, the packages are
\* not there.  It takes its lock away, unless it is killed.
InterruptDownload(b) ==
  /\ Goto(b, "downloading", "check") /\ Fail /\ lock' \in {"free", "stale"}
  /\ UNCHANGED <<repo, db, cache, manifest, archive, files, at, cold, out, past>>

RepoMoves ==
  /\ repo < MaxVersion /\ repo' = repo + 1
  /\ UNCHANGED <<db, cache, manifest, lock, archive, run, out, fails, past>>

\* Somebody clears the cache of a package.
RemovePackage ==
  /\ Fail /\ \E f \in cache : cache' = cache \ {f}
  /\ UNCHANGED <<repo, db, manifest, lock, archive, run, out, past>>

\* Two builds, of whatever kind, met in the download of the archive, and one of
\* them has given its name to what the other one was writing.
SpoilArchive ==
  /\ archive = "missing" /\ Fail /\ archive' = "cut"
  /\ UNCHANGED <<repo, db, cache, manifest, lock, run, out, past>>

\* cargo clean takes the OUT_DIR.
CargoClean(b) ==
  /\ step[b] = "done" /\ Fail
  /\ step' = [step EXCEPT ![b] = "check"]
  /\ sysroot' = [sysroot EXCEPT ![b] = [p \in Packages |-> 0]]
  /\ glib_pc' = [glib_pc EXCEPT ![b] = FALSE] /\ libsigrok' = [libsigrok EXCEPT ![b] = "missing"]
  /\ torn' = [torn EXCEPT ![b] = FALSE] /\ short' = [short EXCEPT ![b] = FALSE]
  /\ pin' = [pin EXCEPT ![b] = 0]
  /\ UNCHANGED <<shared, files, at, cold>>

Step(b) ==
  \/ Cached(b) \/ FastPath(b) \/ ColdPath(b) \/ DownloadBegin(b) \/ DownloadEnd(b) \/ Query(b)
  \/ ExtractBegin(b) \/ ExtractEnd(b) \/ Verify(b) \/ RecordBegin(b) \/ RecordEnd(b)
  \/ LibraryCached(b) \/ Fetch(b) \/ Install(b) \/ Strip(b) \/ Panic(b)

Next ==
  \/ \E b \in Builds : Step(b) \/ Interrupt(b) \/ InterruptDownload(b) \/ CargoClean(b)
  \/ RepoMoves \/ RemovePackage \/ SpoilArchive

\* Builds are run again until they succeed.
Spec == Init /\ [][Next]_vars /\ \A b \in Builds : WF_vars(Step(b))

-----------------------------------------------------------------------------
(* Properties *)

Files == Packages \X (1 .. MaxVersion)

\* The manifest is some of what was resolved once, from its beginning.
TypeOK ==
  /\ repo \in 1 .. MaxVersion /\ db \in 0 .. repo /\ cache \subseteq Files
  /\ \E v \in 1 .. MaxVersion : IsPrefix(manifest, Resolved(v))
  /\ \A b \in Builds :
       /\ step[b] \in {"check", "download", "downloading", "query", "extract", "unpack",
                       "record", "recording", "library", "configure", "strip", "done"}
       /\ files[b] = <<>> \/ \E v \in 1 .. MaxVersion : IsPrefix(files[b], Resolved(v))
       /\ at[b] \in 1 .. N + 1 /\ sysroot[b] \in [Packages -> 0 .. Torn]
       /\ libsigrok[b] \in {"missing", "unstripped", "stripped"}
       /\ step[b] \in {"library", "configure", "strip", "done"} => glib_pc[b]
       /\ step[b] = "downloading" => lock = "held" /\ \A c \in Builds \ {b} : step[c] # step[b]
  /\ lock = "held" => \E b \in Builds : step[b] = "downloading"
  /\ lock \in {"free", "held", "stale"} /\ archive \in {"missing", "whole", "cut"}

Bootstrapped(b) ==
  step[b] \in {"record", "recording", "library", "configure", "strip", "done"}

\* What bootstrap leaves to configure and to the linker is every package, all of
\* it, though the sentinel speaks for one file of one of them: unless it was
\* interrupted while it extracted, or followed a manifest whose writer was.
SysrootWhole == \A b \in Builds : Bootstrapped(b) => Complete(b) \/ torn[b] \/ short[b]

\* "Two cold builds of the same commit get byte-identical sysroots": one that
\* begins with a whole manifest and its packages gets that manifest's versions,
\* wherever the repository is and whatever other builds record meanwhile.
Pinned ==
  \A b \in Builds : Bootstrapped(b) /\ pin[b] # 0 /\ ~torn[b] =>
    \A p \in Packages : sysroot[b][p] = pin[b]

\* What another run of the same build finds as it was: an archive that is not
\* whole, and the lock of a pacman that was killed.
Spoilt == archive = "cut" \/ lock = "stale"

\* The build is repeated and succeeds, packages or database gone stale or
\* missing, and pacman refused while another build holds its lock; with the same
\* two exceptions, and what is spoilt in the cache, which repetition may not get
\* over.
Recovers ==
  \A b \in Builds : (step[b] = "check") ~> (step[b] = "done" \/ torn[b] \/ short[b] \/ Spoilt)

\* msys2.rs calls bootstrap "idempotent": its sysroot is there after enough runs,
\* whatever became of the runs before.  A lock that nobody takes away stops it.
Idempotent == \A b \in Builds : (step[b] = "check") ~> glib_pc[b]
=============================================================================
