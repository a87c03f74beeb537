-------------------------- MODULE SelfUpdateProofs --------------------------
(***************************************************************************)
(* Safety of SelfUpdate for any builds and broken files, and any number of *)
(* operations of the administrator and of crashes.                         *)
(***************************************************************************)
EXTENDS SelfUpdate, TLAPS

\* The source that was picked: an event announces the digest of a stored file
\* and none of what a link serves.
SourceOK ==
    /\ source \in [kind : {NoSource, "stored", "link"}, digest : Contents \cup {NoFile}]
    /\ source.kind = "stored" <=> source.digest # NoFile

\* The temporary file exists between the download and the install, and has
\* passed the checks before the swap.
TmpOK ==
    /\ pc \in {"idle", "download", "exec", "start"} => tmp = NoFile
    /\ pc \in {"verify", "swap", "install"} => tmp \in Contents
    /\ pc \in {"swap", "install"} => Verified

\* While only builds were stored and linked, nothing else is downloaded.
TrustOK == trusted => stored \notin Broken /\ link \notin Broken /\ tmp \notin Broken

\* A process that updates is alive; a Windows process runs from its executable
\* or, once that was moved aside, from .old.
ImageOK ==
    /\ pc # "idle" => running # NoFile
    /\ pc \in {"install", "start"} => aside
    /\ aside => running # NoFile
    /\ platform = "windows" /\ running # NoFile =>
         IF aside THEN old \in Builds ELSE exe \in Builds

\* The parts of TypeOK: the places where files, sources and events are; the
\* flags; the counters; the stages of the update.
FilesOK ==
    /\ platform \in {"unix", "windows"}
    /\ stored \in Contents \cup {NoFile} /\ link \in Contents \cup {NoFile}
    /\ running \in Builds \cup {NoFile}
    /\ tmp \in Contents \cup {NoFile} /\ exe \in Contents \cup {NoFile}
    /\ old \in Contents \cup {NoFile}
EventsOK == events \subseteq [digest : Contents \cup {NoFile}, link : BOOLEAN]
FlagsOK ==
    /\ aside \in BOOLEAN /\ torn \in BOOLEAN
    /\ unsynced \in BOOLEAN /\ trusted \in BOOLEAN /\ interrupted \in BOOLEAN
CountersOK == adminOps \in 0 .. MaxAdminOps /\ crashes \in 0 .. MaxCrashes
StagesOK ==
    /\ result \in {"none", "restarting", "failed"}
    /\ pc \in {"idle", "download", "verify", "swap"}
              \cup IF platform = "unix" THEN {"exec"} ELSE {"install", "start"}
    /\ pc # "idle" => source.kind \in {"stored", "link"}
AsideOK == aside => platform = "windows" /\ old # NoFile

IInv == /\ TypeOK
        /\ SourceOK
        /\ TmpOK
        /\ TrustOK
        /\ ImageOK
        /\ UnixStaysStartable
        /\ WindowsStaysRunnable

\* What a step that puts the temporary file into place leaves there.
Announced ==
    pc' # pc /\ pc' \in {"exec", "start"} /\ source.kind = "stored"
      => exe' = source.digest

\* The parts of TypeOK are all of it.
LEMMA TypeParts ==
    /\ TypeOK <=> FilesOK /\ EventsOK /\ FlagsOK /\ CountersOK /\ StagesOK /\ AsideOK
                  /\ source.digest \in Contents \cup {NoFile}
    /\ TypeOK' <=> FilesOK' /\ EventsOK' /\ FlagsOK' /\ CountersOK' /\ StagesOK' /\ AsideOK'
                  /\ (source.digest)' \in Contents \cup {NoFile}
  BY DEF TypeOK, FilesOK, EventsOK, FlagsOK, CountersOK, StagesOK, AsideOK

\* Initially the installed build runs and no update is under way.
LEMMA UpdateInit == Init => IInv
  <1> SUFFICES ASSUME Init PROVE IInv
    OBVIOUS
  <1> USE SelfUpdateConstants DEF Init
  <1>1. FilesOK
    BY DEF FilesOK, Contents
  <1>2. EventsOK
    BY DEF EventsOK, Contents
  <1>3. FlagsOK
    BY DEF FlagsOK
  <1>4. CountersOK
    BY DEF CountersOK
  <1>5. StagesOK
    BY DEF StagesOK, NoSource
  <1>6. AsideOK
    BY DEF AsideOK, Contents
  <1>7. SourceOK
    BY DEF SourceOK, NoSource
  <1>8. TmpOK
    BY DEF TmpOK, Verified, Contents, NoSource
  <1>9. ImageOK
    BY DEF ImageOK
  <1>13. TrustOK
    BY DEF TrustOK, Contents
  <1>10. UnixStaysStartable
    BY DEF UnixStaysStartable, Verified, Contents
  <1>11. WindowsStaysRunnable
    BY DEF WindowsStaysRunnable
  <1>12. source.digest \in Contents \cup {NoFile}
    OBVIOUS
  <1> QED
    BY <1>1, <1>2, <1>3, <1>4, <1>5, <1>6, <1>7, <1>8, <1>9, <1>10, <1>11, <1>12, <1>13, TypeParts DEF IInv

\* The files, the stored one and the link are builds, broken or not there.
LEMMA FilesOKStep == ASSUME IInv, [Next]_vars PROVE FilesOK'
  <1> USE SelfUpdateConstants DEF IInv, FilesOK, TypeOK, Contents, server, files, node, ghosts
  <1>1. CASE AdminUpdateBinary
    BY <1>1 DEF AdminUpdateBinary, AdminOp
  <1>2. CASE AdminUpdates
    BY <1>2 DEF AdminUpdates, AdminOp
  <1>3. CASE AdminUpdateDispatch
    BY <1>3 DEF AdminUpdateDispatch, AdminOp
  <1>4. CASE HandleUpdateEvent
    BY <1>4 DEF HandleUpdateEvent, PickUpdateSource, Report
  <1>5. CASE Download
    BY <1>5 DEF Download, Fails, Report, Served
  <1>6. CASE Verify
    BY <1>6 DEF Verify, Fails, Report
  <1>7. CASE Rename
    BY <1>7 DEF Rename, Fails, Report, Installs
  <1>8. CASE Exec
    BY <1>8 DEF Exec, Fails, Report, Starts
  <1>9. CASE MoveAside
    BY <1>9 DEF MoveAside, Fails, Report
  <1>10. CASE Install
    BY <1>10 DEF Install, Fails, Report, Installs, MovesBack
  <1>11. CASE StartProcess
    BY <1>11 DEF StartProcess, Fails, Report, Starts, MovesBack
  <1>12. CASE Killed
    BY <1>12 DEF Killed, Stops
  <1>13. CASE PowerCut
    BY <1>13 DEF PowerCut, Stops
  <1>14. CASE WriteBack
    BY <1>14 DEF WriteBack
  <1>15. CASE Start
    BY <1>15 DEF Start, Starts
  <1>16. CASE UNCHANGED vars
    BY <1>16 DEF vars
  <1> QED
    BY <1>1, <1>2, <1>3, <1>4, <1>5, <1>6, <1>7, <1>8, <1>9, <1>10, <1>11, <1>12, <1>13,
       <1>14, <1>15, <1>16 DEF Next

\* Events announce a stored file or a link.
LEMMA EventsOKStep == ASSUME IInv, [Next]_vars PROVE EventsOK'
  <1> USE SelfUpdateConstants DEF IInv, EventsOK, TypeOK, server, files, node, ghosts
  <1>1. CASE AdminUpdateBinary
    BY <1>1 DEF AdminUpdateBinary, AdminOp
  <1>2. CASE AdminUpdates
    BY <1>2 DEF AdminUpdates, AdminOp
  <1>3. CASE AdminUpdateDispatch
    <2>1. PICK b \in BOOLEAN : b = (link # NoFile)
      OBVIOUS
    <2>2. events' = events \cup {[digest |-> stored, link |-> b]}
      BY <1>3, <2>1, Zenon DEF AdminUpdateDispatch
    <2> QED
      BY <2>2
  <1>4. CASE HandleUpdateEvent
    BY <1>4 DEF HandleUpdateEvent, PickUpdateSource, Report
  <1>5. CASE Download
    BY <1>5 DEF Download, Fails, Report, Served
  <1>6. CASE Verify
    BY <1>6 DEF Verify, Fails, Report
  <1>7. CASE Rename
    BY <1>7 DEF Rename, Fails, Report, Installs
  <1>8. CASE Exec
    BY <1>8 DEF Exec, Fails, Report, Starts
  <1>9. CASE MoveAside
    BY <1>9 DEF MoveAside, Fails, Report
  <1>10. CASE Install
    BY <1>10 DEF Install, Fails, Report, Installs, MovesBack
  <1>11. CASE StartProcess
    BY <1>11 DEF StartProcess, Fails, Report, Starts, MovesBack
  <1>12. CASE Killed
    BY <1>12 DEF Killed, Stops
  <1>13. CASE PowerCut
    BY <1>13 DEF PowerCut, Stops
  <1>14. CASE WriteBack
    BY <1>14 DEF WriteBack
  <1>15. CASE Start
    BY <1>15 DEF Start, Starts
  <1>16. CASE UNCHANGED vars
    BY <1>16 DEF vars
  <1> QED
    BY <1>1, <1>2, <1>3, <1>4, <1>5, <1>6, <1>7, <1>8, <1>9, <1>10, <1>11, <1>12, <1>13,
       <1>14, <1>15, <1>16 DEF Next

\* The flags are Boolean.
LEMMA FlagsOKStep == ASSUME IInv, [Next]_vars PROVE FlagsOK'
  <1> USE SelfUpdateConstants DEF IInv, FlagsOK, TypeOK, server, files, node, ghosts
  <1>1. CASE AdminUpdateBinary
    BY <1>1 DEF AdminUpdateBinary, AdminOp
  <1>2. CASE AdminUpdates
    BY <1>2 DEF AdminUpdates, AdminOp
  <1>3. CASE AdminUpdateDispatch
    BY <1>3 DEF AdminUpdateDispatch, AdminOp
  <1>4. CASE HandleUpdateEvent
    BY <1>4 DEF HandleUpdateEvent, PickUpdateSource, Report
  <1>5. CASE Download
    BY <1>5 DEF Download, Fails, Report, Served
  <1>6. CASE Verify
    BY <1>6 DEF Verify, Fails, Report
  <1>7. CASE Rename
    BY <1>7 DEF Rename, Fails, Report, Installs
  <1>8. CASE Exec
    BY <1>8 DEF Exec, Fails, Report, Starts
  <1>9. CASE MoveAside
    BY <1>9 DEF MoveAside, Fails, Report
  <1>10. CASE Install
    BY <1>10 DEF Install, Fails, Report, Installs, MovesBack
  <1>11. CASE StartProcess
    BY <1>11 DEF StartProcess, Fails, Report, Starts, MovesBack
  <1>12. CASE Killed
    BY <1>12 DEF Killed, Stops
  <1>13. CASE PowerCut
    BY <1>13 DEF PowerCut, Stops
  <1>14. CASE WriteBack
    BY <1>14 DEF WriteBack
  <1>15. CASE Start
    BY <1>15 DEF Start, Starts
  <1>16. CASE UNCHANGED vars
    BY <1>16 DEF vars
  <1> QED
    BY <1>1, <1>2, <1>3, <1>4, <1>5, <1>6, <1>7, <1>8, <1>9, <1>10, <1>11, <1>12, <1>13,
       <1>14, <1>15, <1>16 DEF Next

\* The bounds on operations and crashes are kept.
LEMMA CountersOKStep == ASSUME IInv, [Next]_vars PROVE CountersOK'
  <1> USE SelfUpdateConstants DEF IInv, CountersOK, TypeOK, server, files, node, ghosts
  <1>1. CASE AdminUpdateBinary
    BY <1>1 DEF AdminUpdateBinary, AdminOp
  <1>2. CASE AdminUpdates
    BY <1>2 DEF AdminUpdates, AdminOp
  <1>3. CASE AdminUpdateDispatch
    BY <1>3 DEF AdminUpdateDispatch, AdminOp
  <1>4. CASE HandleUpdateEvent
    BY <1>4 DEF HandleUpdateEvent, PickUpdateSource, Report
  <1>5. CASE Download
    BY <1>5 DEF Download, Fails, Report, Served
  <1>6. CASE Verify
    BY <1>6 DEF Verify, Fails, Report
  <1>7. CASE Rename
    BY <1>7 DEF Rename, Fails, Report, Installs
  <1>8. CASE Exec
    BY <1>8 DEF Exec, Fails, Report, Starts
  <1>9. CASE MoveAside
    BY <1>9 DEF MoveAside, Fails, Report
  <1>10. CASE Install
    BY <1>10 DEF Install, Fails, Report, Installs, MovesBack
  <1>11. CASE StartProcess
    BY <1>11 DEF StartProcess, Fails, Report, Starts, MovesBack
  <1>12. CASE Killed
    BY <1>12 DEF Killed, Stops
  <1>13. CASE PowerCut
    BY <1>13 DEF PowerCut, Stops
  <1>14. CASE WriteBack
    BY <1>14 DEF WriteBack
  <1>15. CASE Start
    BY <1>15 DEF Start, Starts
  <1>16. CASE UNCHANGED vars
    BY <1>16 DEF vars
  <1> QED
    BY <1>1, <1>2, <1>3, <1>4, <1>5, <1>6, <1>7, <1>8, <1>9, <1>10, <1>11, <1>12, <1>13,
       <1>14, <1>15, <1>16 DEF Next

\* An update is at the stages of its platform and has a source.
LEMMA StagesOKStep == ASSUME IInv, [Next]_vars PROVE StagesOK'
  <1> USE SelfUpdateConstants DEF IInv, StagesOK, TypeOK, NoSource, server, files, node, ghosts
  <1>1. CASE AdminUpdateBinary
    BY <1>1 DEF AdminUpdateBinary, AdminOp
  <1>2. CASE AdminUpdates
    BY <1>2 DEF AdminUpdates, AdminOp
  <1>3. CASE AdminUpdateDispatch
    BY <1>3 DEF AdminUpdateDispatch, AdminOp
  <1>4. CASE HandleUpdateEvent
    BY <1>4 DEF HandleUpdateEvent, PickUpdateSource, Report
  <1>5. CASE Download
    BY <1>5 DEF Download, Fails, Report, Served
  <1>6. CASE Verify
    BY <1>6 DEF Verify, Fails, Report
  <1>7. CASE Rename
    BY <1>7 DEF Rename, Fails, Report, Installs
  <1>8. CASE Exec
    BY <1>8 DEF Exec, Fails, Report, Starts
  <1>9. CASE MoveAside
    BY <1>9 DEF MoveAside, Fails, Report
  <1>10. CASE Install
    BY <1>10 DEF Install, Fails, Report, Installs, MovesBack
  <1>11. CASE StartProcess
    BY <1>11 DEF StartProcess, Fails, Report, Starts, MovesBack
  <1>12. CASE Killed
    BY <1>12 DEF Killed, Stops
  <1>13. CASE PowerCut
    BY <1>13 DEF PowerCut, Stops
  <1>14. CASE WriteBack
    BY <1>14 DEF WriteBack
  <1>15. CASE Start
    BY <1>15 DEF Start, Starts
  <1>16. CASE UNCHANGED vars
    BY <1>16 DEF vars
  <1> QED
    BY <1>1, <1>2, <1>3, <1>4, <1>5, <1>6, <1>7, <1>8, <1>9, <1>10, <1>11, <1>12, <1>13,
       <1>14, <1>15, <1>16 DEF Next

\* A process runs from .old on Windows only.
LEMMA AsideOKStep == ASSUME IInv, [Next]_vars PROVE AsideOK'
  <1> USE SelfUpdateConstants DEF IInv, AsideOK, TypeOK, ImageOK, Contents, server, files, node, ghosts
  <1>1. CASE AdminUpdateBinary
    BY <1>1 DEF AdminUpdateBinary, AdminOp
  <1>2. CASE AdminUpdates
    BY <1>2 DEF AdminUpdates, AdminOp
  <1>3. CASE AdminUpdateDispatch
    BY <1>3 DEF AdminUpdateDispatch, AdminOp
  <1>4. CASE HandleUpdateEvent
    BY <1>4 DEF HandleUpdateEvent, PickUpdateSource, Report
  <1>5. CASE Download
    BY <1>5 DEF Download, Fails, Report, Served
  <1>6. CASE Verify
    BY <1>6 DEF Verify, Fails, Report
  <1>7. CASE Rename
    BY <1>7 DEF Rename, Fails, Report, Installs
  <1>8. CASE Exec
    BY <1>8 DEF Exec, Fails, Report, Starts
  <1>9. CASE MoveAside
    BY <1>9 DEF MoveAside, Fails, Report
  <1>10. CASE Install
    BY <1>10 DEF Install, Fails, Report, Installs, MovesBack
  <1>11. CASE StartProcess
    BY <1>11 DEF StartProcess, Fails, Report, Starts, MovesBack
  <1>12. CASE Killed
    BY <1>12 DEF Killed, Stops
  <1>13. CASE PowerCut
    BY <1>13 DEF PowerCut, Stops
  <1>14. CASE WriteBack
    BY <1>14 DEF WriteBack
  <1>15. CASE Start
    BY <1>15 DEF Start, Starts
  <1>16. CASE UNCHANGED vars
    BY <1>16 DEF vars
  <1> QED
    BY <1>1, <1>2, <1>3, <1>4, <1>5, <1>6, <1>7, <1>8, <1>9, <1>10, <1>11, <1>12, <1>13,
       <1>14, <1>15, <1>16 DEF Next

\* The digest is that of a stored file.
LEMMA SourceOKStep == ASSUME IInv, [Next]_vars PROVE SourceOK'
  <1> USE SelfUpdateConstants DEF IInv, SourceOK, TypeOK, NoSource, server, files, node, ghosts
  <1>1. CASE AdminUpdateBinary
    BY <1>1 DEF AdminUpdateBinary, AdminOp
  <1>2. CASE AdminUpdates
    BY <1>2 DEF AdminUpdates, AdminOp
  <1>3. CASE AdminUpdateDispatch
    BY <1>3 DEF AdminUpdateDispatch, AdminOp
  <1>4. CASE HandleUpdateEvent
    BY <1>4 DEF HandleUpdateEvent, PickUpdateSource, Report
  <1>5. CASE Download
    BY <1>5 DEF Download, Fails, Report, Served
  <1>6. CASE Verify
    BY <1>6 DEF Verify, Fails, Report
  <1>7. CASE Rename
    BY <1>7 DEF Rename, Fails, Report, Installs
  <1>8. CASE Exec
    BY <1>8 DEF Exec, Fails, Report, Starts
  <1>9. CASE MoveAside
    BY <1>9 DEF MoveAside, Fails, Report
  <1>10. CASE Install
    BY <1>10 DEF Install, Fails, Report, Installs, MovesBack
  <1>11. CASE StartProcess
    BY <1>11 DEF StartProcess, Fails, Report, Starts, MovesBack
  <1>12. CASE Killed
    BY <1>12 DEF Killed, Stops
  <1>13. CASE PowerCut
    BY <1>13 DEF PowerCut, Stops
  <1>14. CASE WriteBack
    BY <1>14 DEF WriteBack
  <1>15. CASE Start
    BY <1>15 DEF Start, Starts
  <1>16. CASE UNCHANGED vars
    BY <1>16 DEF vars
  <1> QED
    BY <1>1, <1>2, <1>3, <1>4, <1>5, <1>6, <1>7, <1>8, <1>9, <1>10, <1>11, <1>12, <1>13,
       <1>14, <1>15, <1>16 DEF Next

\* The temporary file is there when it is needed and has been checked.
LEMMA TmpOKStep == ASSUME IInv, [Next]_vars PROVE TmpOK'
  <1> USE SelfUpdateConstants DEF IInv, TmpOK, TypeOK, SourceOK, ImageOK, Verified, Contents, NoSource, server, files, node, ghosts
  <1>1. CASE AdminUpdateBinary
    BY <1>1 DEF AdminUpdateBinary, AdminOp
  <1>2. CASE AdminUpdates
    BY <1>2 DEF AdminUpdates, AdminOp
  <1>3. CASE AdminUpdateDispatch
    BY <1>3 DEF AdminUpdateDispatch, AdminOp
  <1>4. CASE HandleUpdateEvent
    BY <1>4 DEF HandleUpdateEvent, PickUpdateSource, Report
  <1>5. CASE Download
    BY <1>5 DEF Download, Fails, Report, Served
  <1>6. CASE Verify
    BY <1>6 DEF Verify, Fails, Report
  <1>7. CASE Rename
    BY <1>7 DEF Rename, Fails, Report, Installs
  <1>8. CASE Exec
    BY <1>8 DEF Exec, Fails, Report, Starts
  <1>9. CASE MoveAside
    BY <1>9 DEF MoveAside, Fails, Report
  <1>10. CASE Install
    BY <1>10 DEF Install, Fails, Report, Installs, MovesBack
  <1>11. CASE StartProcess
    BY <1>11 DEF StartProcess, Fails, Report, Starts, MovesBack
  <1>12. CASE Killed
    BY <1>12 DEF Killed, Stops
  <1>13. CASE PowerCut
    BY <1>13 DEF PowerCut, Stops
  <1>14. CASE WriteBack
    BY <1>14 DEF WriteBack
  <1>15. CASE Start
    BY <1>15 DEF Start, Starts
  <1>16. CASE UNCHANGED vars
    BY <1>16 DEF vars
  <1> QED
    BY <1>1, <1>2, <1>3, <1>4, <1>5, <1>6, <1>7, <1>8, <1>9, <1>10, <1>11, <1>12, <1>13,
       <1>14, <1>15, <1>16 DEF Next

\* What a process runs from can be started.
LEMMA ImageOKStep == ASSUME IInv, [Next]_vars PROVE ImageOK'
  <1> USE SelfUpdateConstants DEF IInv, ImageOK, TypeOK, server, files, node, ghosts
  <1>1. CASE AdminUpdateBinary
    BY <1>1 DEF AdminUpdateBinary, AdminOp
  <1>2. CASE AdminUpdates
    BY <1>2 DEF AdminUpdates, AdminOp
  <1>3. CASE AdminUpdateDispatch
    BY <1>3 DEF AdminUpdateDispatch, AdminOp
  <1>4. CASE HandleUpdateEvent
    BY <1>4 DEF HandleUpdateEvent, PickUpdateSource, Report
  <1>5. CASE Download
    BY <1>5 DEF Download, Fails, Report, Served
  <1>6. CASE Verify
    BY <1>6 DEF Verify, Fails, Report
  <1>7. CASE Rename
    BY <1>7 DEF Rename, Fails, Report, Installs
  <1>8. CASE Exec
    BY <1>8 DEF Exec, Fails, Report, Starts
  <1>9. CASE MoveAside
    BY <1>9 DEF MoveAside, Fails, Report
  <1>10. CASE Install
    BY <1>10 DEF Install, Fails, Report, Installs, MovesBack
  <1>11. CASE StartProcess
    BY <1>11 DEF StartProcess, Fails, Report, Starts, MovesBack
  <1>12. CASE Killed
    BY <1>12 DEF Killed, Stops
  <1>13. CASE PowerCut
    BY <1>13 DEF PowerCut, Stops
  <1>14. CASE WriteBack
    BY <1>14 DEF WriteBack
  <1>15. CASE Start
    BY <1>15 DEF Start, Starts
  <1>16. CASE UNCHANGED vars
    BY <1>16 DEF vars
  <1> QED
    BY <1>1, <1>2, <1>3, <1>4, <1>5, <1>6, <1>7, <1>8, <1>9, <1>10, <1>11, <1>12, <1>13,
       <1>14, <1>15, <1>16 DEF Next

\* Files that were stored and linked as builds stay builds on their way.
LEMMA TrustOKStep == ASSUME IInv, [Next]_vars PROVE TrustOK'
  <1> USE SelfUpdateConstants DEF IInv, TrustOK, TypeOK, Contents, server, files, node, ghosts
  <1>1. CASE AdminUpdateBinary
    BY <1>1 DEF AdminUpdateBinary, AdminOp
  <1>2. CASE AdminUpdates
    BY <1>2 DEF AdminUpdates, AdminOp
  <1>3. CASE AdminUpdateDispatch
    BY <1>3 DEF AdminUpdateDispatch, AdminOp
  <1>4. CASE HandleUpdateEvent
    BY <1>4 DEF HandleUpdateEvent, PickUpdateSource, Report
  <1>5. CASE Download
    BY <1>5 DEF Download, Fails, Report, Served
  <1>6. CASE Verify
    BY <1>6 DEF Verify, Fails, Report
  <1>7. CASE Rename
    BY <1>7 DEF Rename, Fails, Report, Installs
  <1>8. CASE Exec
    BY <1>8 DEF Exec, Fails, Report, Starts
  <1>9. CASE MoveAside
    BY <1>9 DEF MoveAside, Fails, Report
  <1>10. CASE Install
    BY <1>10 DEF Install, Fails, Report, Installs, MovesBack
  <1>11. CASE StartProcess
    BY <1>11 DEF StartProcess, Fails, Report, Starts, MovesBack
  <1>12. CASE Killed
    BY <1>12 DEF Killed, Stops
  <1>13. CASE PowerCut
    BY <1>13 DEF PowerCut, Stops
  <1>14. CASE WriteBack
    BY <1>14 DEF WriteBack
  <1>15. CASE Start
    BY <1>15 DEF Start, Starts
  <1>16. CASE UNCHANGED vars
    BY <1>16 DEF vars
  <1> QED
    BY <1>1, <1>2, <1>3, <1>4, <1>5, <1>6, <1>7, <1>8, <1>9, <1>10, <1>11, <1>12, <1>13,
       <1>14, <1>15, <1>16 DEF Next

\* A Unix rename puts the downloaded file into place in one step.
LEMMA UnixStaysStartableStep == ASSUME IInv, [Next]_vars PROVE UnixStaysStartable'
  <1> USE SelfUpdateConstants DEF IInv, UnixStaysStartable, TypeOK, TmpOK, TrustOK, SourceOK, Verified, Contents, server, files, node, ghosts
  <1>1. CASE AdminUpdateBinary
    BY <1>1 DEF AdminUpdateBinary, AdminOp
  <1>2. CASE AdminUpdates
    BY <1>2 DEF AdminUpdates, AdminOp
  <1>3. CASE AdminUpdateDispatch
    BY <1>3 DEF AdminUpdateDispatch, AdminOp
  <1>4. CASE HandleUpdateEvent
    BY <1>4 DEF HandleUpdateEvent, PickUpdateSource, Report
  <1>5. CASE Download
    BY <1>5 DEF Download, Fails, Report, Served
  <1>6. CASE Verify
    BY <1>6 DEF Verify, Fails, Report
  <1>7. CASE Rename
    BY <1>7 DEF Rename, Fails, Report, Installs
  <1>8. CASE Exec
    BY <1>8 DEF Exec, Fails, Report, Starts
  <1>9. CASE MoveAside
    BY <1>9 DEF MoveAside, Fails, Report
  <1>10. CASE Install
    BY <1>10 DEF Install, Fails, Report, Installs, MovesBack
  <1>11. CASE StartProcess
    BY <1>11 DEF StartProcess, Fails, Report, Starts, MovesBack
  <1>12. CASE Killed
    BY <1>12 DEF Killed, Stops
  <1>13. CASE PowerCut
    BY <1>13 DEF PowerCut, Stops
  <1>14. CASE WriteBack
    BY <1>14 DEF WriteBack
  <1>15. CASE Start
    BY <1>15 DEF Start, Starts
  <1>16. CASE UNCHANGED vars
    BY <1>16 DEF vars
  <1> QED
    BY <1>1, <1>2, <1>3, <1>4, <1>5, <1>6, <1>7, <1>8, <1>9, <1>10, <1>11, <1>12, <1>13,
       <1>14, <1>15, <1>16 DEF Next

\* A Windows swap ends with a build in place; when it is cut short .old has one.
LEMMA WindowsStaysRunnableStep == ASSUME IInv, [Next]_vars PROVE WindowsStaysRunnable'
  <1> USE SelfUpdateConstants DEF IInv, WindowsStaysRunnable, TypeOK, ImageOK, server, files, node, ghosts
  <1>1. CASE AdminUpdateBinary
    BY <1>1 DEF AdminUpdateBinary, AdminOp
  <1>2. CASE AdminUpdates
    BY <1>2 DEF AdminUpdates, AdminOp
  <1>3. CASE AdminUpdateDispatch
    BY <1>3 DEF AdminUpdateDispatch, AdminOp
  <1>4. CASE HandleUpdateEvent
    BY <1>4 DEF HandleUpdateEvent, PickUpdateSource, Report
  <1>5. CASE Download
    BY <1>5 DEF Download, Fails, Report, Served
  <1>6. CASE Verify
    BY <1>6 DEF Verify, Fails, Report
  <1>7. CASE Rename
    BY <1>7 DEF Rename, Fails, Report, Installs
  <1>8. CASE Exec
    BY <1>8 DEF Exec, Fails, Report, Starts
  <1>9. CASE MoveAside
    BY <1>9 DEF MoveAside, Fails, Report
  <1>10. CASE Install
    BY <1>10 DEF Install, Fails, Report, Installs, MovesBack
  <1>11. CASE StartProcess
    BY <1>11 DEF StartProcess, Fails, Report, Starts, MovesBack
  <1>12. CASE Killed
    BY <1>12 DEF Killed, Stops
  <1>13. CASE PowerCut
    BY <1>13 DEF PowerCut, Stops
  <1>14. CASE WriteBack
    BY <1>14 DEF WriteBack
  <1>15. CASE Start
    BY <1>15 DEF Start, Starts
  <1>16. CASE UNCHANGED vars
    BY <1>16 DEF vars
  <1> QED
    BY <1>1, <1>2, <1>3, <1>4, <1>5, <1>6, <1>7, <1>8, <1>9, <1>10, <1>11, <1>12, <1>13,
       <1>14, <1>15, <1>16 DEF Next

\* Every step keeps the invariant.
LEMMA UpdateStep == IInv /\ [Next]_vars => IInv'
  <1> SUFFICES ASSUME IInv, [Next]_vars PROVE IInv'
    OBVIOUS
  <1>1. SourceOK'
    BY SourceOKStep
  <1>2. (source.digest)' \in Contents \cup {NoFile}
    BY <1>1 DEF SourceOK
  <1> QED
    BY <1>1, <1>2, TypeParts, FilesOKStep, EventsOKStep, FlagsOKStep, CountersOKStep,
       StagesOKStep, AsideOKStep, TmpOKStep, TrustOKStep, ImageOKStep, UnixStaysStartableStep,
       WindowsStaysRunnableStep, Zenon DEF IInv

\* A step that puts the temporary file into place puts a checked one there.
LEMMA AnnouncedStep == ASSUME IInv, [Next]_vars PROVE Announced
  <1> USE SelfUpdateConstants DEF IInv, Announced, TypeOK, SourceOK, TmpOK, Verified, Contents,
          server, files, node, ghosts
  <1>1. CASE AdminUpdateBinary
    BY <1>1 DEF AdminUpdateBinary, AdminOp
  <1>2. CASE AdminUpdates
    BY <1>2 DEF AdminUpdates, AdminOp
  <1>3. CASE AdminUpdateDispatch
    BY <1>3 DEF AdminUpdateDispatch, AdminOp
  <1>4. CASE HandleUpdateEvent
    BY <1>4 DEF HandleUpdateEvent, PickUpdateSource, Report
  <1>5. CASE Download
    BY <1>5 DEF Download, Fails, Report, Served
  <1>6. CASE Verify
    BY <1>6 DEF Verify, Fails, Report
  <1>7. CASE Rename
    BY <1>7 DEF Rename, Fails, Report, Installs
  <1>8. CASE Exec
    BY <1>8 DEF Exec, Fails, Report, Starts
  <1>9. CASE MoveAside
    BY <1>9 DEF MoveAside, Fails, Report
  <1>10. CASE Install
    BY <1>10 DEF Install, Fails, Report, Installs, MovesBack
  <1>11. CASE StartProcess
    BY <1>11 DEF StartProcess, Fails, Report, Starts, MovesBack
  <1>12. CASE Killed
    BY <1>12 DEF Killed, Stops
  <1>13. CASE PowerCut
    BY <1>13 DEF PowerCut, Stops
  <1>14. CASE WriteBack
    BY <1>14 DEF WriteBack
  <1>15. CASE Start
    BY <1>15 DEF Start, Starts
  <1>16. CASE UNCHANGED vars
    BY <1>16 DEF vars
  <1> QED
    BY <1>1, <1>2, <1>3, <1>4, <1>5, <1>6, <1>7, <1>8, <1>9, <1>10, <1>11, <1>12, <1>13,
       <1>14, <1>15, <1>16 DEF Next

-----------------------------------------------------------------------------
\* The inductive invariant holds of every behaviour of the update.
THEOREM UpdateInvariant == Spec => []IInv
  BY UpdateInit, UpdateStep, PTL DEF Spec

\* Files, process and stages have the values the code gives them.
THEOREM UpdateTypeCorrect == Spec => []TypeOK
  <1>1. IInv => TypeOK
    BY DEF IInv
  <1> QED
    BY <1>1, UpdateInvariant, PTL

\* swapAndRestart on Unix: there is an executable at every point of an update and
\* after every kill; and it can be started if only builds were ever stored and
\* linked and no power cut took data that was not on disk.
THEOREM UnixStartable == Spec => []UnixStaysStartable
  <1>1. IInv => UnixStaysStartable
    BY DEF IInv
  <1> QED
    BY <1>1, UpdateInvariant, PTL

\* swapAndRestart on Windows: whatever file is served, a swap that was not killed
\* and whose rename back was not refused leaves a build as the executable; a swap
\* that was leaves one as .old.
THEOREM WindowsRunnable == Spec => []WindowsStaysRunnable
  <1>1. IInv => WindowsStaysRunnable
    BY DEF IInv
  <1> QED
    BY <1>1, UpdateInvariant, PTL

\* downloadUpdate: a file from the coordinator is installed only if it is the one
\* that the event announced.
THEOREM InstallsAnnounced == Spec => InstallsWhatWasAnnounced
  <1>1. IInv /\ [Next]_vars => [Announced]_vars
    BY AnnouncedStep
  <1>2. InstallsWhatWasAnnounced <=> [][Announced]_vars
    BY PTL DEF InstallsWhatWasAnnounced, Announced
  <1> QED
    BY <1>1, <1>2, UpdateInvariant, PTL DEF Spec
=============================================================================
