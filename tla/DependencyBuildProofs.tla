------------------------ MODULE DependencyBuildProofs ------------------------
(***************************************************************************)
(* Proof that an archive in the cache is whole, or that the build that     *)
(* writes it is still at it, for any number of builds, libraries and       *)
(* interruptions.                                                          *)
(*                                                                         *)
(* The archive is what some build renames, and that is what the build that *)
(* emptied the download last has written of it.  So the same has to hold   *)
(* of the download, as long as there is a build that will rename it; and   *)
(* whoever writes a file that another build may rename has met it, which   *)
(* is what makes an interruption count.                                    *)
(***************************************************************************)
EXTENDS DependencyBuild, TLAPS

Steps  == {"check", "fetch", "curl", "download", "rename", "clean", "extract", "unpack", "make",
           "install"}
Places == {"tmp", "tarball", "gone"}

Typed ==
  /\ next \in [Builds -> Nat] /\ step \in [Builds -> Steps] /\ fd \in [Builds -> Places]
  /\ tmp \in [Libs -> FileOf] /\ tarball \in [Libs -> FileOf]

\* Somebody has emptied a file that is partial.
Authored == \A l \in Libs : /\ tmp[l].state = "partial" => tmp[l].by \in Builds
                            /\ tarball[l].state = "partial" => tarball[l].by \in Builds

\* The build that emptied a download writes it, as long as any build is at it.
DownloadHeld ==
  \A l \in Libs \ poisoned, c \in Builds :
    tmp[l].state = "partial" /\ Downloading(c, l) =>
      LET b == tmp[l].by IN At(b, l, "download") /\ fd[b] = "tmp"

\* Two builds at one download have met.
TwoMeet == \A b, c \in Builds, l \in Libs :
             b # c /\ Downloading(b, l) /\ Downloading(c, l) => l \in met

\* So have those of which one has renamed the file that the other writes.
RenamedMet == \A b \in Builds, l \in Libs :
                At(b, l, "download") /\ fd[b] = "tarball" => l \in met

Held == Authored /\ DownloadHeld /\ TwoMeet /\ RenamedMet /\ CacheWhole

\* Build b goes on, at work that is not a download, and not to one.
Works(b) ==
  /\ \A c \in Builds \ {b} : step'[c] = step[c] /\ next'[c] = next[c]
  /\ step[b] # "download" /\ step'[b] \notin {"download", "rename"}
  /\ UNCHANGED <<fd, tmp, tarball, met, poisoned>>

-----------------------------------------------------------------------------
LEMMA TypeInit == Init => Typed
  BY LibsAssumption DEF Init, Typed, PerBuild, PerLib, NoFile, File, FileOf, States, Steps, Places

LEMMA MovedType == ASSUME Typed, NEW l \in Libs, NEW place \in Places
                   PROVE  Moved(l, place) \in [Builds -> Places]
  BY DEF Typed, Moved, Places

LEMMA TypeStep == Typed /\ [Next]_vars => Typed'
<1> SUFFICES ASSUME Typed, [Next]_vars PROVE Typed'
  OBVIOUS
<1> USE DEF Typed
<1>1. CASE UNCHANGED vars
  BY <1>1 DEF vars, cached
<1>2. ASSUME NEW b \in Builds, NEW l \in Libs, Step(b, l) \/ Interrupt(b, l) \/ CurlFails(b, l)
      PROVE  Typed'
  <2>1. step' \in [Builds -> Steps] /\ next' \in [Builds -> Nat]
    BY <1>2 DEF Step, Skip, Check, Fetch, Download, Downloaded, Rename, Clean, ExtractSkipped,
       ExtractBegin, ExtractEnd, InstallBegin, InstallEnd, Panic, Interrupt, CurlFails, Fail,
       Restart, Goto, To, NextLib, Steps
  <2>2. NoFile \in FileOf /\ File("partial", b) \in FileOf
    BY DEF NoFile, File, FileOf, States
  <2>3. \A f \in FileOf : Written(f, b) \in FileOf
    BY DEF Written, FileOf, States
  <2>4. tmp' \in [Libs -> FileOf] /\ tarball' \in [Libs -> FileOf]
    BY <1>2, <2>2, <2>3 DEF Step, Skip, Check, Fetch, Download, Downloaded, Rename, Clean,
       ExtractSkipped, ExtractBegin, ExtractEnd, InstallBegin, InstallEnd, Panic, Interrupt,
       CurlFails, cached
  <2>5. fd' \in [Builds -> Places]
    <3>1. \A place \in Places : Moved(l, place) \in [Builds -> Places]
      BY MovedType
    <3>2. QED  BY <1>2, <3>1 DEF Step, Skip, Check, Fetch, Download, Downloaded, Rename, Clean,
                 ExtractSkipped, ExtractBegin, ExtractEnd, InstallBegin, InstallEnd, Panic,
                 Interrupt, CurlFails, Places
  <2>6. QED  BY <2>1, <2>4, <2>5
<1>3. QED  BY <1>1, <1>2 DEF Next

-----------------------------------------------------------------------------
(* Which steps are of no concern to a download.                            *)

LEMMA Kinds ==
  ASSUME Typed, NEW b \in Builds, NEW l \in Libs, Step(b, l)
  PROVE  Works(b) \/ Download(b, l) \/ Downloaded(b, l) \/ Rename(b, l)
<1> USE DEF Typed, Works, At, cached
<1>1. CASE Skip(b, l)
  BY <1>1 DEF Skip, NextLib
<1>2. CASE Check(b, l) \/ Clean(b, l) \/ ExtractSkipped(b, l) \/ ExtractBegin(b, l)
           \/ ExtractEnd(b, l) \/ InstallBegin(b, l)
  BY <1>2 DEF Check, Clean, ExtractSkipped, ExtractBegin, ExtractEnd, InstallBegin, Goto, To
<1>3. CASE Fetch(b, l)
  BY <1>3 DEF Fetch, Goto, To
<1>4. CASE InstallEnd(b, l)
  BY <1>4 DEF InstallEnd, NextLib
<1>5. CASE Panic(b, l)
  BY <1>5 DEF Panic, Restart
<1>6. QED  BY <1>1, <1>2, <1>3, <1>4, <1>5 DEF Step

LEMMA WorksHeld == ASSUME Typed, Typed', Held, NEW b \in Builds, Works(b) PROVE Held'
<1> USE DEF Works, Typed, At, Downloading
<1>1. Authored'     BY DEF Held, Authored
<1>2. DownloadHeld'
  <2> SUFFICES ASSUME NEW l \in Libs \ poisoned', NEW c \in Builds,
                      tmp'[l].state = "partial", Downloading(c, l)'
               PROVE  (At(tmp[l].by, l, "download") /\ fd[tmp[l].by] = "tmp")'
    BY DEF DownloadHeld
  <2>1. c # b /\ Downloading(c, l)
    OBVIOUS
  <2>2. tmp[l].by \in Builds
    BY DEF Held, Authored
  <2>3. At(tmp[l].by, l, "download") /\ fd[tmp[l].by] = "tmp"
    BY <2>1 DEF Held, DownloadHeld
  <2>4. QED  BY <2>2, <2>3
<1>3. TwoMeet'      BY DEF Held, TwoMeet
<1>4. RenamedMet'   BY DEF Held, RenamedMet
<1>5. CacheWhole'   BY DEF Held, Authored, CacheWhole
<1>6. QED  BY <1>1, <1>2, <1>3, <1>4, <1>5 DEF Held

(* A run that is cut short while somebody else may rename what it writes    *)
(* has met that build, so it is counted.                                   *)

LEMMA FailHeld ==
  ASSUME Typed, Typed', Held, NEW b \in Builds, NEW l \in Libs, Fail(b, l),
         Interrupt(b, l) \/ CurlFails(b, l)
  PROVE  Held'
<1> USE DEF Typed, At, Downloading
<1>1. /\ \A c \in Builds \ {b} : step'[c] = step[c] /\ next'[c] = next[c]
      /\ step'[b] = "check" /\ next[b] = l /\ met' = met
      /\ InUse(b, l) => l \in poisoned'
      /\ poisoned \subseteq poisoned'
  BY DEF Fail, Restart
<1>2. /\ tarball' = tarball
      /\ tmp' = tmp \/ tmp' = [tmp EXCEPT ![l] = NoFile]
      /\ tmp'[l] = NoFile \/ tmp'[l] = tmp[l]
      /\ \A m \in Libs \ {l} : tmp'[m] = tmp[m]
  BY DEF Interrupt, CurlFails, cached
\* Nobody's file comes to another place but that of a download taken away.
<1>3. \A c \in Builds \ {b} : \/ fd'[c] = fd[c]
                              \/ /\ next[c] = l /\ fd[c] = "tmp" /\ fd'[c] = "gone"
                                 /\ tmp'[l] = NoFile
  BY DEF Interrupt, CurlFails, Moved
<1>4. Authored'
  BY <1>2 DEF Held, Authored, NoFile, File
<1>5. DownloadHeld'
  <2> SUFFICES ASSUME NEW m \in Libs \ poisoned', NEW c \in Builds,
                      tmp'[m].state = "partial", Downloading(c, m)'
               PROVE  (At(tmp[m].by, m, "download") /\ fd[tmp[m].by] = "tmp")'
    BY DEF DownloadHeld
  <2>1. c # b /\ Downloading(c, m)
    BY <1>1
  <2>2. tmp'[m] = tmp[m] /\ tmp'[m] # NoFile
    BY <1>2 DEF NoFile, File
  <2>3. tmp[m].by \in Builds
    BY <2>2 DEF Held, Authored
  <2>4. At(tmp[m].by, m, "download") /\ fd[tmp[m].by] = "tmp"
    BY <1>1, <2>1, <2>2 DEF Held, DownloadHeld
  <2>5. tmp[m].by # b
    <3>1. SUFFICES ASSUME tmp[m].by = b PROVE FALSE
      OBVIOUS
    <3>2. m = l /\ Others(b, l) /\ fd[b] = "tmp"
      BY <3>1, <1>1, <2>1, <2>4 DEF Others
    <3>3. l \in met
      BY <3>1, <3>2, <2>1, <2>4 DEF Held, TwoMeet
    <3>4. QED  BY <3>1, <3>2, <3>3, <1>1 DEF InUse
  <2>6. QED  BY <2>2, <2>3, <2>4, <2>5, <1>1, <1>3
<1>6. TwoMeet'
  BY <1>1 DEF Held, TwoMeet
<1>7. RenamedMet'
  BY <1>1, <1>3 DEF Held, RenamedMet
<1>8. CacheWhole'
  <2> SUFFICES ASSUME NEW m \in Libs \ poisoned', tarball[m].state = "partial"
               PROVE  (At(tarball[m].by, m, "download") /\ fd[tarball[m].by] = "tarball")'
    BY <1>2 DEF CacheWhole
  <2>1. tarball[m].by \in Builds
    BY DEF Held, Authored
  <2>2. At(tarball[m].by, m, "download") /\ fd[tarball[m].by] = "tarball"
    BY <1>1 DEF Held, CacheWhole
  <2>3. tarball[m].by # b
    <3>1. SUFFICES ASSUME tarball[m].by = b PROVE FALSE
      OBVIOUS
    <3>2. m = l /\ l \in met
      BY <3>1, <2>2, <1>1 DEF Held, RenamedMet
    <3>3. QED  BY <3>1, <3>2, <2>2, <1>1 DEF InUse
  <2>4. QED  BY <1>1, <1>2, <1>3, <2>1, <2>2, <2>3
<1>9. QED  BY <1>4, <1>5, <1>6, <1>7, <1>8 DEF Held

-----------------------------------------------------------------------------
(* A download that begins takes the file from whoever wrote it; one that   *)
(* ends makes it whole if nobody has done so since.                        *)

LEMMA DownloadStarts ==
  ASSUME Typed, Typed', Held, NEW b \in Builds, NEW l \in Libs, Download(b, l)
  PROVE  Held'
<1> USE DEF Typed, At, Downloading
<1>1. /\ \A c \in Builds \ {b} : step'[c] = step[c] /\ next'[c] = next[c] /\ fd'[c] = fd[c]
      /\ step[b] = "curl" /\ step'[b] = "download" /\ next[b] = l /\ next'[b] = l
      /\ fd'[b] = "tmp" /\ poisoned' = poisoned /\ tarball' = tarball
      /\ tmp'[l].state = "partial" /\ tmp'[l].by = b
      /\ \A m \in Libs \ {l} : tmp'[m] = tmp[m]
  BY DEF Download, To, File
<1>2. met \subseteq met' /\ (Others(b, l) => l \in met')
  BY DEF Download, Meet
<1>3. Authored'
  BY <1>1 DEF Held, Authored
<1>4. DownloadHeld'
  <2> SUFFICES ASSUME NEW m \in Libs \ poisoned, NEW c \in Builds,
                      tmp'[m].state = "partial", Downloading(c, m)'
               PROVE  (At(tmp[m].by, m, "download") /\ fd[tmp[m].by] = "tmp")'
    BY <1>1 DEF DownloadHeld
  <2>1. CASE m = l
    BY <1>1, <2>1
  <2>2. CASE m # l
    <3>1. tmp'[m] = tmp[m] /\ Downloading(c, m)
      BY <1>1, <2>2
    <3>2. At(tmp[m].by, m, "download") /\ fd[tmp[m].by] = "tmp" /\ tmp[m].by \in Builds
      BY <3>1 DEF Held, DownloadHeld, Authored
    <3>3. QED  BY <1>1, <3>1, <3>2
  <2>3. QED  BY <2>1, <2>2
<1>5. TwoMeet'
  <2> SUFFICES ASSUME NEW c \in Builds, NEW d \in Builds, NEW m \in Libs, c # d,
                      Downloading(c, m)', Downloading(d, m)'
               PROVE  m \in met'
    BY DEF TwoMeet
  <2>1. CASE c # b /\ d # b
    BY <1>1, <1>2, <2>1 DEF Held, TwoMeet
  <2>2. CASE c = b \/ d = b
    <3>1. m = l /\ Others(b, l)
      BY <1>1, <2>2 DEF Others
    <3>2. QED  BY <3>1, <1>2
  <2>3. QED  BY <2>1, <2>2
<1>6. RenamedMet'
  BY <1>1, <1>2 DEF Held, RenamedMet
<1>7. CacheWhole'
  BY <1>1 DEF Held, Authored, CacheWhole
<1>8. QED  BY <1>3, <1>4, <1>5, <1>6, <1>7 DEF Held

LEMMA DownloadEnds ==
  ASSUME Typed, Typed', Held, NEW b \in Builds, NEW l \in Libs, Downloaded(b, l)
  PROVE  Held'
<1> USE DEF Typed, At, Downloading
<1>1. /\ \A c \in Builds \ {b} : step'[c] = step[c] /\ next'[c] = next[c] /\ fd'[c] = fd[c]
      /\ step[b] = "download" /\ step'[b] = "rename" /\ next[b] = l /\ next'[b] = l
      /\ fd'[b] = "gone" /\ poisoned' = poisoned /\ met' = met
      /\ \A m \in Libs \ {l} : tmp'[m] = tmp[m] /\ tarball'[m] = tarball[m]
  BY DEF Downloaded, Goto, To
<1>2. /\ tmp'[l].state = "partial" => tmp'[l] = tmp[l] /\ ~(tmp[l].by = b /\ fd[b] = "tmp")
      /\ tarball'[l].state = "partial" =>
           tarball'[l] = tarball[l] /\ ~(tarball[l].by = b /\ fd[b] = "tarball")
  BY DEF Downloaded, Written, FileOf
<1>3. Authored'
  BY <1>1, <1>2 DEF Held, Authored
<1>4. DownloadHeld'
  <2> SUFFICES ASSUME NEW m \in Libs \ poisoned, NEW c \in Builds,
                      tmp'[m].state = "partial", Downloading(c, m)'
               PROVE  (At(tmp[m].by, m, "download") /\ fd[tmp[m].by] = "tmp")'
    BY <1>1 DEF DownloadHeld
  <2>1. tmp'[m] = tmp[m] /\ Downloading(c, m)
    BY <1>1, <1>2
  <2>2. At(tmp[m].by, m, "download") /\ fd[tmp[m].by] = "tmp" /\ tmp[m].by \in Builds
    BY <2>1 DEF Held, DownloadHeld, Authored
  <2>3. tmp[m].by # b
    BY <1>1, <1>2, <2>1, <2>2
  <2>4. QED  BY <1>1, <2>1, <2>2, <2>3
<1>5. TwoMeet'
  BY <1>1 DEF Held, TwoMeet
<1>6. RenamedMet'
  BY <1>1 DEF Held, RenamedMet
<1>7. CacheWhole'
  <2> SUFFICES ASSUME NEW m \in Libs \ poisoned, tarball'[m].state = "partial"
               PROVE  (At(tarball[m].by, m, "download") /\ fd[tarball[m].by] = "tarball")'
    BY <1>1 DEF CacheWhole
  <2>1. tarball'[m] = tarball[m]
    BY <1>1, <1>2
  <2>2. /\ At(tarball[m].by, m, "download") /\ fd[tarball[m].by] = "tarball"
        /\ tarball[m].by \in Builds
    BY <2>1 DEF Held, CacheWhole, Authored
  <2>3. tarball[m].by # b
    BY <1>1, <1>2, <2>1, <2>2
  <2>4. QED  BY <1>1, <2>1, <2>2, <2>3
<1>8. QED  BY <1>3, <1>4, <1>5, <1>6, <1>7 DEF Held

\* What is renamed is whole, or its writer goes on with it in its new place.
LEMMA RenameHeld ==
  ASSUME Typed, Typed', Held, NEW b \in Builds, NEW l \in Libs, Rename(b, l)
  PROVE  Held'
<1> USE DEF Typed, At, Downloading
<1>1. /\ \A c \in Builds \ {b} : step'[c] = step[c] /\ next'[c] = next[c]
      /\ step[b] = "rename" /\ step'[b] = "clean" /\ next[b] = l /\ next'[b] = l
      /\ poisoned' = poisoned /\ met' = met
      /\ \A m \in Libs \ {l} : tmp'[m] = tmp[m] /\ tarball'[m] = tarball[m]
      /\ tmp'[l] = NoFile /\ tarball'[l] = tmp[l]
  BY DEF Rename, Goto, To
<1>2. \A c \in Builds : IF next[c] # l \/ step[c] # "download" THEN fd'[c] = fd[c]
                        ELSE IF fd[c] = "tmp" THEN fd'[c] = "tarball" ELSE fd'[c] = "gone"
  BY DEF Rename, Moved, Places
<1>3. Authored'
  BY <1>1 DEF Held, Authored, NoFile, File
<1>4. DownloadHeld'
  <2> SUFFICES ASSUME NEW m \in Libs \ poisoned, NEW c \in Builds,
                      tmp'[m].state = "partial", Downloading(c, m)'
               PROVE  (At(tmp[m].by, m, "download") /\ fd[tmp[m].by] = "tmp")'
    BY <1>1 DEF DownloadHeld
  <2>1. m # l /\ tmp'[m] = tmp[m] /\ Downloading(c, m)
    BY <1>1 DEF NoFile, File
  <2>2. At(tmp[m].by, m, "download") /\ fd[tmp[m].by] = "tmp" /\ tmp[m].by \in Builds
    BY <2>1 DEF Held, DownloadHeld, Authored
  <2>3. QED  BY <1>1, <1>2, <2>1, <2>2
<1>5. TwoMeet'
  BY <1>1 DEF Held, TwoMeet
<1>6. RenamedMet'
  <2> SUFFICES ASSUME NEW c \in Builds, NEW m \in Libs, At(c, m, "download")',
                      fd'[c] = "tarball"
               PROVE  m \in met
    BY <1>1 DEF RenamedMet
  <2>1. c # b /\ At(c, m, "download")
    BY <1>1
  <2>2. CASE m = l
    BY <1>1, <2>1, <2>2 DEF Held, TwoMeet
  <2>3. CASE m # l
    BY <1>2, <2>1, <2>3 DEF Held, RenamedMet
  <2>4. QED  BY <2>2, <2>3
<1>7. CacheWhole'
  <2> SUFFICES ASSUME NEW m \in Libs \ poisoned, tarball'[m].state = "partial"
               PROVE  (At(tarball[m].by, m, "download") /\ fd[tarball[m].by] = "tarball")'
    BY <1>1 DEF CacheWhole
  <2>1. CASE m = l
    <3>1. /\ At(tmp[l].by, l, "download") /\ fd[tmp[l].by] = "tmp" /\ tmp[l].by \in Builds
      BY <1>1, <2>1 DEF Held, DownloadHeld, Authored
    <3>2. QED  BY <1>1, <1>2, <2>1, <3>1
  <2>2. CASE m # l
    <3>1. /\ At(tarball[m].by, m, "download") /\ fd[tarball[m].by] = "tarball"
          /\ tarball[m].by \in Builds
      BY <1>1, <2>2 DEF Held, CacheWhole, Authored
    <3>2. QED  BY <1>1, <1>2, <2>2, <3>1
  <2>3. QED  BY <2>1, <2>2
<1>8. QED  BY <1>3, <1>4, <1>5, <1>6, <1>7 DEF Held

-----------------------------------------------------------------------------
LEMMA HeldInit == Init => Held
  BY DEF Init, Held, Authored, DownloadHeld, TwoMeet, RenamedMet, CacheWhole, PerLib, PerBuild,
         NoFile, File, Downloading, At

LEMMA HeldStep == Typed /\ Typed' /\ Held /\ [Next]_vars => Held'
<1> SUFFICES ASSUME Typed, Typed', Held, [Next]_vars PROVE Held'
  OBVIOUS
<1>1. CASE UNCHANGED vars
  BY <1>1 DEF vars, cached, Held, Authored, DownloadHeld, TwoMeet, RenamedMet, CacheWhole, At,
              Downloading
<1>2. ASSUME NEW b \in Builds, NEW l \in Libs, Step(b, l)
      PROVE  Held'
  BY <1>2, Kinds, WorksHeld, DownloadStarts, DownloadEnds, RenameHeld
<1>3. ASSUME NEW b \in Builds, NEW l \in Libs, Interrupt(b, l) \/ CurlFails(b, l)
      PROVE  Held'
  BY <1>3, FailHeld DEF Interrupt, CurlFails
<1>4. QED  BY <1>1, <1>2, <1>3 DEF Next

\* fetch (deps.rs): an archive in the shared cache is whole, or its writer is
\* still at it, for any number of builds that download at a time: only one of
\* them cut short while another used its file leaves half of one behind.
THEOREM CacheIsWhole == Spec => []CacheWhole
<1>1. Spec => []Typed
  BY TypeInit, TypeStep, PTL DEF Spec
<1>2. Init => Held
  BY HeldInit
<1>3. Held => CacheWhole
  BY DEF Held
<1>4. QED  BY <1>1, <1>2, <1>3, HeldStep, PTL DEF Spec
=============================================================================
