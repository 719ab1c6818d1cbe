---------------------------- MODULE LibsigrokBuild ----------------------------
(***************************************************************************)
(* The build script's cache of libsigrok.a: one run of build_libsigrok     *)
(* after another in the same OUT_DIR, any of which may fail or be killed   *)
(* at any step, while the developer edits, commits, checks out and changes *)
(* the bridge patch or the environment.  The stamp file holds the identity *)
(* of the source and the patch, and a run whose stamp and library are in   *)
(* place links the library as it is.  A cross build to Windows             *)
(* (build_libsigrok_cross) has a library as its only sentinel.             *)
(*                                                                         *)
(* A commit stands for its content; a working tree is a content too, dirty *)
(* when it is not that of HEAD.                                            *)
(***************************************************************************)
EXTENDS Naturals

CONSTANTS
  Commits,     \* contents of the libsigrok source
  Patches,     \* contents of libsigrok-bridge-fixes.patch
  Patched,     \* the sources that already have what the patch adds
  MaxChanges,  \* bound: changes the developer makes
  None

ASSUME CommitsAssumption == Patched \subseteq Commits /\ None \notin Commits \cup Patches
ASSUME ChangesAssumption == MaxChanges \in Nat

VARIABLES
  target,            \* "native" or "cross"
  mode,              \* "src" (with git), "unknown" (without), "tarball"
  head, tree, patch, \* HEAD or LIBSIGROK_COMMIT, the working tree, the patch file
  pc, stamp_contents, wanted,   \* this run
  builddir, library, stamp,     \* OUT_DIR
  linked,                       \* what the last run that ended links
  \* history
  changes,
  torn,              \* the library's run ended between its install and its stamp
  moved,             \* source or patch changed during the library's run
  unseen             \* the library's run took a dirty tree for the commit

source == <<mode, head, tree, patch>>
run    == <<stamp_contents, wanted>>
outdir == <<builddir, library, stamp>>
vars   == <<target, source, pc, run, outdir, linked, changes, torn, moved, unseen>>

\* What a build of content c with patch p yields: a source that already has
\* the changes is not patched.
BuildNative(c, p) == [source |-> c, patch |-> IF c \in Patched THEN None ELSE p]

\* A cross build knows of no patch.
BuildCross(c) == [source |-> c, patch |-> None]

Build(c, p) == IF target = "cross" THEN BuildCross(c) ELSE BuildNative(c, p)

Id(kind, rev, dirty) == [kind |-> kind, rev |-> rev, dirty |-> dirty]

UnknownId == Id("unknown", None, FALSE)

\* The identities that a run may read.  Where `git rev-parse` fails there is none;
\* where only `git status` fails, the tree is not said to be dirty.
Ids == CASE mode = "tarball" -> {Id("tarball", head, FALSE)}
         [] mode = "src"     -> {Id("src", head, d) : d \in {tree # head, FALSE}} \cup {UnknownId}
         [] mode = "unknown" -> {UnknownId}

\* A dirty tree that passes for its commit.
Unseen(id) == id.kind = "src" /\ tree # head /\ ~id.dirty

\* A cross build takes no local source: its mode stays "tarball".
Content == IF mode = "tarball" THEN head ELSE tree

Stamp(id, p) == [id |-> id, patch |-> p]

\* Variant: the identity of a dirty tree is trusted.
TrustDirty(id) == id.kind = "unknown"

\* The source "identity can't be trusted to change on edits (dirty / unknown)".
ForceRebuild(id) == id.kind = "unknown" \/ id.dirty

Init ==
  /\ target \in {"native", "cross"} /\ mode = "tarball"
  /\ head \in Commits /\ tree = head /\ patch \in Patches
  /\ pc = "idle" /\ stamp_contents = None /\ wanted = None
  /\ builddir = None /\ library = None /\ stamp = None
  /\ linked = None /\ changes = 0 /\ torn = FALSE /\ moved = FALSE /\ unseen = FALSE

-----------------------------------------------------------------------------
(***************************************************************************)
(* One run of the build script.                                            *)
(***************************************************************************)
Link(w, u) ==
  linked' = [library |-> library', wanted |-> w, torn |-> torn', moved |-> moved, unseen |-> u]

\* The end of a run: its locals are gone.
Ended == pc' = "idle" /\ stamp_contents' = None /\ wanted' = None

UpToDateNative(id) == ~ForceRebuild(id) /\ library # None /\ stamp = Stamp(id, patch)

\* Only the library is looked for.
UpToDateCross == library # None

UpToDate(id) == IF target = "cross" THEN UpToDateCross ELSE UpToDateNative(id)

Cached(id) ==
  /\ pc = "idle" /\ UpToDate(id)
  /\ UNCHANGED <<target, source, pc, run, outdir, changes, torn, moved, unseen>>
  /\ Link(Build(Content, patch), unseen \/ Unseen(id))

\* The identity and the patch are read; the stale library and the old build
\* directory are removed.
Begin(id) ==
  /\ pc = "idle" /\ ~UpToDate(id) /\ pc' = "copy"
  /\ stamp_contents' = Stamp(id, patch) /\ wanted' = Build(Content, patch)
  /\ library' = None /\ builddir' = None
  /\ torn' = FALSE /\ moved' = FALSE /\ unseen' = Unseen(id)
  /\ UNCHANGED <<target, source, stamp, linked, changes>>

\* copy_tree, or fetch and extract of the commit's archive.
Copy ==
  /\ pc = "copy" /\ pc' = "patch"
  /\ builddir' = [source |-> IF mode = "tarball" THEN wanted.source ELSE tree, patch |-> None]
  /\ UNCHANGED <<target, source, run, library, stamp, linked, changes, torn, moved, unseen>>

\* The VXI-11 edit, then the patch unless its changes are there.
Patch ==
  /\ pc = "patch" /\ pc' = "install"
  /\ builddir' = Build(builddir.source, patch)
  /\ UNCHANGED <<target, source, run, library, stamp, linked, changes, torn, moved, unseen>>

\* autogen, configure, make and make install, which may fail after it has
\* installed the library.
Install ==
  /\ pc = "install" /\ library' = builddir
  /\ \/ pc' = "stamp" /\ UNCHANGED <<run, torn>>
     \/ Ended /\ torn' = TRUE
  /\ UNCHANGED <<target, source, builddir, stamp, linked, changes, moved, unseen>>

\* The archive and libsigrok.pc are edited, and the stamp is written.
WriteStamp ==
  /\ pc = "stamp" /\ Ended /\ torn' = FALSE
  /\ stamp' = IF target = "native" THEN stamp_contents ELSE stamp
  /\ UNCHANGED <<target, source, builddir, library, changes, moved, unseen>>
  /\ Link(wanted, unseen)

\* A step fails (the script panics), or the build is interrupted.
Fail ==
  /\ pc # "idle" /\ Ended /\ torn' = (torn \/ pc = "stamp")
  /\ UNCHANGED <<target, source, outdir, linked, changes, moved, unseen>>

-----------------------------------------------------------------------------
(***************************************************************************)
(* The developer.                                                          *)
(***************************************************************************)
Change == /\ changes < MaxChanges /\ changes' = changes + 1
          /\ UNCHANGED <<target, pc, run, outdir, linked, torn, unseen>>

FilesChange == Change /\ moved' = (moved \/ pc # "idle")

EnvironmentChange == Change /\ pc = "idle" /\ UNCHANGED moved

Edit == /\ FilesChange /\ tree' \in Commits /\ UNCHANGED <<mode, head, patch>>

EditPatch == FilesChange /\ patch' \in Patches /\ UNCHANGED <<mode, head, tree>>

Commit == FilesChange /\ mode = "src" /\ head' = tree /\ UNCHANGED <<mode, tree, patch>>

\* git checkout, or another LIBSIGROK_COMMIT; the environment of a run is fixed.
Checkout ==
  /\ EnvironmentChange /\ head' \in Commits
  /\ tree' = IF mode = "src" THEN head' ELSE tree
  /\ UNCHANGED <<mode, patch>>

\* A local source appears or goes, with or without git.
SetMode ==
  /\ EnvironmentChange /\ target = "native" /\ mode' \in {"src", "unknown", "tarball"}
  /\ UNCHANGED <<head, tree, patch>>

\* cargo clean.
Clean ==
  /\ pc = "idle" /\ library # None
  /\ builddir' = None /\ library' = None /\ stamp' = None
  /\ torn' = FALSE /\ moved' = FALSE /\ unseen' = FALSE
  /\ UNCHANGED <<target, source, pc, run, linked, changes>>

Next ==
  \/ \E id \in Ids : Cached(id) \/ Begin(id)
  \/ Copy \/ Patch \/ Install \/ WriteStamp \/ Fail
  \/ Edit \/ EditPatch \/ Commit \/ Checkout \/ SetMode \/ Clean

Spec == Init /\ [][Next]_vars
-----------------------------------------------------------------------------
(***************************************************************************)
(* Properties                                                              *)
(***************************************************************************)
Sources == [source : Commits, patch : Patches \cup {None}]

TypeOK ==
  /\ target \in {"native", "cross"} /\ mode \in {"src", "unknown", "tarball"}
  /\ head \in Commits /\ tree \in Commits /\ patch \in Patches
  /\ pc \in {"idle", "copy", "patch", "install", "stamp"}
  /\ pc = "idle" <=> wanted = None
  /\ wanted \in Sources \cup {None} /\ builddir \in Sources \cup {None}
  /\ library \in Sources \cup {None}
  /\ pc \in {"copy", "patch", "install"} => library = None
  /\ pc \in {"patch", "install", "stamp"} => builddir # None
  /\ changes \in 0 .. MaxChanges /\ {torn, moved, unseen} \subseteq BOOLEAN

\* A run that ends, with or without building, links the library of the source
\* and the patch that were current when it began, unless files changed under
\* the run that built it, that run ended between its install and its stamp, or
\* one of the two had a dirty tree passed off as its commit by a failing git.
LinkedIsCurrent ==
  (target = "native" /\ linked # None /\ ~linked.torn /\ ~linked.moved /\ ~linked.unseen)
     => linked.library = linked.wanted

\* "used in the build stamp so a changed source rebuilds libsigrok"
\* (libsigrok_src_rev): the same whatever became of the earlier runs.
ChangedSourceRebuilds ==
  (target = "native" /\ linked # None /\ ~linked.moved /\ ~linked.unseen)
     => linked.library = linked.wanted

\* "git rev-parse HEAD (+ -dirty)" (libsigrok_src_rev): the same whatever git
\* answers.
DirtyRebuilds ==
  (target = "native" /\ linked # None /\ ~linked.torn /\ ~linked.moved)
     => linked.library = linked.wanted

\* "Override LIBSIGROK_COMMIT to track a different upstream libsigrok SHA"
\* (build.rs), for a cross build.
CrossTracksCommit ==
  (target = "cross" /\ linked # None) => linked.library = linked.wanted
=============================================================================
