---------------------------- MODULE DependencyBuild ----------------------------
(***************************************************************************)
(* build_all: the dependencies of libsigrok are built one after another,   *)
(* each by a function that returns at once if its library is installed,    *)
(* and otherwise fetches the archive, unpacks it, configures, makes and    *)
(* installs.  A run of the build script may be interrupted at any step;    *)
(* the next one starts over with what the file system holds.  Builds in    *)
(* directories of their own share the archives, and the name under which   *)
(* fetch downloads one.                                                    *)
(*                                                                         *)
(* A file or directory is missing, "partial" (its writer was interrupted)  *)
(* or "whole".  A build directory that is partial does not configure.      *)
(***************************************************************************)
EXTENDS Naturals

CONSTANTS
  Builds,    \* builds, each with an OUT_DIR of its own
  N,         \* the number of libraries; they are numbered in build_all's order
  Cleaning,  \* those whose function removes the build directory first: libffi
  MaxFails,  \* bound: runs that are interrupted
  Nobody

Libs == 1 .. N

ASSUME LibsAssumption == N \in Nat /\ Cleaning \subseteq Libs /\ MaxFails \in Nat
                         /\ Nobody \notin Builds

VARIABLES
  next,      \* the library a build is at; past the end when it has succeeded
  step,      \* what it does there
  fd,        \* the file that its download writes: "tmp", "tarball" or "gone"
  tmp, tarball,         \* in the shared cache, per library: a file has a state and the
                        \*   build that emptied it last
  builddir, installed,  \* per build and library
  fails,
  met,       \* history: libraries that two builds downloaded at a time
  poisoned   \*   and one of these downloads was cut short while the other used its file

cached == <<tmp, tarball>>
built  == <<builddir, installed>>
vars   == <<next, step, fd, cached, built, fails, met, poisoned>>

File(state, by) == [state |-> state, by |-> by]
NoFile          == File("missing", Nobody)
PerLib(x)       == [l \in Libs |-> x]
PerBuild(x)     == [b \in Builds |-> x]

Init ==
  /\ next = PerBuild(1) /\ step = PerBuild("check") /\ fd = PerBuild("gone")
  /\ tmp = PerLib(NoFile) /\ tarball = PerLib(NoFile)
  /\ builddir = PerBuild(PerLib("missing")) /\ installed = PerBuild(PerLib("missing"))
  /\ fails = 0 /\ met = {} /\ poisoned = {}

-----------------------------------------------------------------------------
\* Build b is at step s of library l.
At(b, l, s) == next[b] = l /\ step[b] = s

To(b, s)   == step' = [step EXCEPT ![b] = s] /\ UNCHANGED <<next, fails, poisoned>>
Goto(b, s) == To(b, s) /\ UNCHANGED met
NextLib(b) == /\ step' = [step EXCEPT ![b] = "check"] /\ next' = [next EXCEPT ![b] = @ + 1]
              /\ UNCHANGED <<fails, met, poisoned>>

\* The sentinel is the installed archive, whatever else was to be installed.
Skip(b, l) ==
  /\ At(b, l, "check") /\ installed[b][l] # "missing" /\ NextLib(b)
  /\ UNCHANGED <<fd, cached, built>>

Check(b, l) ==
  /\ At(b, l, "check") /\ installed[b][l] = "missing" /\ Goto(b, "fetch")
  /\ UNCHANGED <<fd, cached, built>>

\* fetch: an archive that exists is not downloaded again.
Fetch(b, l) ==
  /\ At(b, l, "fetch")
  /\ Goto(b, IF tarball[l].state = "missing" THEN "curl" ELSE "clean")
  /\ UNCHANGED <<fd, cached, built>>

Downloading(b, l) == At(b, l, "download") \/ At(b, l, "rename")
Others(b, l)      == \E c \in Builds \ {b} : Downloading(c, l)
Meet(b, l)        == met' = IF Others(b, l) THEN met \cup {l} ELSE met

\* Variant: the archive is downloaded under its own name.
DownloadInPlace(b, l) ==
  /\ At(b, l, "curl") /\ To(b, "download") /\ Meet(b, l)
  /\ fd' = [fd EXCEPT ![b] = "tarball"]
  /\ tarball' = [tarball EXCEPT ![l] = File("partial", b)]
  /\ UNCHANGED <<tmp, built>>

\* curl empties the file if it is there, whoever else writes it.
Download(b, l) ==
  /\ At(b, l, "curl") /\ To(b, "download") /\ Meet(b, l)
  /\ fd' = [fd EXCEPT ![b] = "tmp"]
  /\ tmp' = [tmp EXCEPT ![l] = File("partial", b)]
  /\ UNCHANGED <<tarball, built>>

\* A file is whole when the build that emptied it last has written all of it,
\* under whatever name it has by then.
Written(file, b) == IF file.by = b THEN [file EXCEPT !.state = "whole"] ELSE file

Downloaded(b, l) ==
  /\ At(b, l, "download") /\ Goto(b, "rename")
  /\ tmp' = IF fd[b] = "tmp" THEN [tmp EXCEPT ![l] = Written(@, b)] ELSE tmp
  /\ tarball' = IF fd[b] = "tarball" THEN [tarball EXCEPT ![l] = Written(@, b)] ELSE tarball
  /\ fd' = [fd EXCEPT ![b] = "gone"]
  /\ UNCHANGED built

\* What becomes of the open files of library l when tmp gets another place.
Moved(l, place) == [b \in Builds |-> IF next[b] # l \/ step[b] # "download" THEN fd[b]
                                     ELSE IF fd[b] = "tmp" THEN place
                                     ELSE IF place = "tarball" THEN "gone" ELSE fd[b]]

\* The download gets its final name, and with it whoever still writes it.
Rename(b, l) ==
  /\ At(b, l, "rename") /\ tmp[l] # NoFile /\ Goto(b, "clean")
  /\ tarball' = [tarball EXCEPT ![l] = tmp[l]] /\ tmp' = [tmp EXCEPT ![l] = NoFile]
  /\ fd' = Moved(l, "tarball")
  /\ UNCHANGED built

\* Variant: no function removes the build directory first.
CleanNothing(b, l) == At(b, l, "clean") /\ Goto(b, "extract") /\ UNCHANGED <<fd, cached, built>>

\* build_libffi removes the build directory; the others take what is there.
Clean(b, l) ==
  /\ At(b, l, "clean") /\ Goto(b, "extract")
  /\ builddir' = IF l \in Cleaning THEN [builddir EXCEPT ![b][l] = "missing"] ELSE builddir
  /\ UNCHANGED <<fd, cached, installed>>

ExtractSkipped(b, l) ==
  /\ At(b, l, "extract") /\ builddir[b][l] # "missing" /\ Goto(b, "make")
  /\ UNCHANGED <<fd, cached, built>>

ExtractBegin(b, l) ==
  /\ At(b, l, "extract") /\ builddir[b][l] = "missing" /\ Goto(b, "unpack")
  /\ builddir' = [builddir EXCEPT ![b][l] = "partial"]
  /\ UNCHANGED <<fd, cached, installed>>

ExtractEnd(b, l) ==
  /\ At(b, l, "unpack") /\ tarball[l].state = "whole" /\ Goto(b, "make")
  /\ builddir' = [builddir EXCEPT ![b][l] = "whole"]
  /\ UNCHANGED <<fd, cached, installed>>

\* configure and make, then the archive is installed before the rest.
InstallBegin(b, l) ==
  /\ At(b, l, "make") /\ builddir[b][l] = "whole" /\ Goto(b, "install")
  /\ installed' = [installed EXCEPT ![b][l] = "partial"]
  /\ UNCHANGED <<fd, cached, builddir>>

InstallEnd(b, l) ==
  /\ At(b, l, "install") /\ NextLib(b)
  /\ installed' = [installed EXCEPT ![b][l] = "whole"]
  /\ UNCHANGED <<fd, cached, builddir>>

\* A run starts over, with the files as they are.
Restart(b) == next' = [next EXCEPT ![b] = 1] /\ step' = [step EXCEPT ![b] = "check"]

\* The download has been taken away, tar meets the end of a partial archive, or
\* configure does not find its sources.
Panic(b, l) ==
  /\ \/ At(b, l, "rename") /\ tmp[l] = NoFile
     \/ At(b, l, "unpack") /\ tarball[l].state # "whole"
     \/ At(b, l, "make") /\ builddir[b][l] # "whole"
  /\ Restart(b) /\ UNCHANGED <<fd, cached, built, fails, met, poisoned>>

\* The file that b was the last to empty is the archive, or another build will
\* make it that.
InUse(b, l) ==
  /\ l \in met
  /\ \/ fd[b] = "tarball" /\ tarball[l].by = b
     \/ fd[b] = "tmp" /\ tmp[l].by = b /\ Others(b, l)

Fail(b, l) ==
  /\ next[b] = l /\ fails < MaxFails /\ fails' = fails + 1 /\ Restart(b)
  /\ poisoned' = IF InUse(b, l) THEN poisoned \cup {l} ELSE poisoned
  /\ UNCHANGED <<built, met>>

\* Any run may be interrupted, or fail for a reason outside.
Interrupt(b, l) == Fail(b, l) /\ fd' = [fd EXCEPT ![b] = "gone"] /\ UNCHANGED cached

\* fetch removes the download of a curl that failed, and with it anybody's.
CurlFails(b, l) ==
  /\ At(b, l, "download") /\ Fail(b, l)
  /\ tmp' = [tmp EXCEPT ![l] = NoFile] /\ fd' = [Moved(l, "gone") EXCEPT ![b] = "gone"]
  /\ UNCHANGED tarball

Step(b, l) ==
  \/ Skip(b, l) \/ Check(b, l) \/ Fetch(b, l) \/ Download(b, l) \/ Downloaded(b, l)
  \/ Rename(b, l) \/ Clean(b, l) \/ ExtractSkipped(b, l) \/ ExtractBegin(b, l)
  \/ ExtractEnd(b, l) \/ InstallBegin(b, l) \/ InstallEnd(b, l) \/ Panic(b, l)

Next == \E b \in Builds, l \in Libs : Step(b, l) \/ Interrupt(b, l) \/ CurlFails(b, l)

\* The developer runs a build again until it succeeds.
Spec == Init /\ [][Next]_vars /\ \A b \in Builds : WF_vars(\E l \in Libs : Step(b, l))

-----------------------------------------------------------------------------
(***************************************************************************)
(* Properties                                                              *)
(***************************************************************************)
States == {"missing", "partial", "whole"}
FileOf == [state : States, by : Builds \cup {Nobody}]

\* What a step relies on was done, in this run or an earlier one; a library is
\* begun when those before it are installed.
TypeOK ==
  /\ next \in [Builds -> 1 .. N + 1] /\ fails \in 0 .. MaxFails /\ met \cup poisoned \subseteq Libs
  /\ step \in [Builds -> {"check", "fetch", "curl", "download", "rename", "clean", "extract",
                          "unpack", "make", "install"}]
  /\ fd \in [Builds -> {"tmp", "tarball", "gone"}]
  /\ {tmp, tarball} \subseteq [Libs -> FileOf]
  /\ {builddir, installed} \subseteq [Builds -> [Libs -> States]]
  /\ \A b \in Builds :
       /\ \A l \in Libs : l < next[b] => installed[b][l] # "missing"
       /\ step[b] \in {"clean", "extract", "unpack"} => tarball[next[b]].state # "missing"
       /\ step[b] \in {"make", "install"} => builddir[b][next[b]] # "missing"

\* An archive in the cache, which outlives cargo clean and is never downloaded
\* again, is whole, or the build that writes it is still at it: two builds at
\* once do not leave half of one behind, unless one of them is cut short.
CacheWhole ==
  \A l \in Libs \ poisoned :
    tarball[l].state = "partial" =>
      LET b == tarball[l].by IN At(b, l, "download") /\ fd[b] = "tarball"

\* "Each build_<lib>(ctx) is idempotent" (deps.rs): after any interruptions, and
\* whatever another build does to the archives, the build run again installs a
\* library whose build directory is removed first.
CleaningInstalls ==
  \A b \in Builds, l \in Cleaning : (next[b] = l) ~> (installed[b][l] # "missing" \/ l \in poisoned)

\* It installs each of them.
Installs == \A b \in Builds, l \in Libs : (next[b] = l) ~> (installed[b][l] # "missing")

\* "It checks for a sentinel .a file": what is skipped or linked is complete.
SentinelWhole ==
  \A b \in Builds, l \in Libs : l < next[b] => installed[b][l] = "whole"

\* No archive in the cache is ever a partial one.
NeverPartial == \A l \in Libs : tarball[l].state # "partial"
=============================================================================
