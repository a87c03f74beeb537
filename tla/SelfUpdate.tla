----------------------------- MODULE SelfUpdate -----------------------------
(***************************************************************************)
(* The update of a node's own executable.  The administrator stores builds *)
(* on the coordinator or configures a download link and sends an update    *)
(* event; the node downloads into a temporary file next to its executable, *)
(* checks what the event announced, replaces the executable and restarts   *)
(* from it.  The process may be killed, and the machine may lose power, at *)
(* any point.                                                              *)
(*                                                                         *)
(* A file holds a build or is broken: a program for another architecture,  *)
(* a truncated one, or no program at all.  Neither the coordinator nor the *)
(* node looks for the difference; the system shows it when it refuses to   *)
(* start the file.  What the system does start counts as a build, whatever *)
(* it does then.                                                           *)
(***************************************************************************)
EXTENDS Naturals

CONSTANTS
    Builds,         \* the files that the system starts
    Broken,         \* the files that it refuses to start
    Installed,      \* the build the node begins with
    NoFile,         \* no such file, no stored build, no link
    MaxAdminOps,    \* changes of the sources and update events in a run
    MaxCrashes

ASSUME SelfUpdateConstants ==
    /\ Installed \in Builds
    /\ Builds \cap Broken = {} /\ NoFile \notin Builds \cup Broken
    /\ MaxAdminOps \in Nat /\ MaxCrashes \in Nat

VARIABLES
    platform,   \* the build of the node: "unix" or "windows"
    stored,     \* update_binaries: the stored file
    link,       \* what the download link serves
    events,     \* update events on the control channel
    result,     \* updateResults: the last report of the node
    running,    \* the image of the process, NoFile when there is none
    pc,         \* where handleUpdateEvent is; "idle" iff the updating flag is free
    source,     \* the source it has picked
    tmp,        \* the temporary file
    exe, old,   \* the executable and its .old
    aside,      \* the process runs from .old, which can then not be removed
    torn,       \* a power cut hit data that was not on disk yet
    unsynced,   \* the executable's data may still be in memory
    trusted,    \* every file that was stored or linked so far is a build
    interrupted,\* the last swap was cut short by a kill or a refused rename back
    adminOps, crashes

server == <<stored, link, events>>
files == <<tmp, exe, old>>
node == <<running, pc, source, aside>>
ghosts == <<torn, unsynced, trusted, interrupted>>
vars == <<platform, server, result, node, files, ghosts, adminOps, crashes>>

Contents == Builds \cup Broken

-----------------------------------------------------------------------------
(* Coordinator. *)

AdminOp ==
    /\ adminOps < MaxAdminOps
    /\ adminOps' = adminOps + 1
    /\ UNCHANGED <<platform, result, node, files, torn, unsynced, interrupted, crashes>>

\* adminUpdateBinary: a file is stored or removed.  Any body of at least 1024
\* bytes is taken; nothing checks that it can be started.
AdminUpdateBinary ==
    /\ AdminOp
    /\ \E c \in Contents \cup {NoFile} : c # stored /\ stored' = c
    /\ trusted' = (trusted /\ stored' \notin Broken)
    /\ UNCHANGED <<link, events>>

\* adminUpdates: the link is set or cleared; what it serves is not checked.
AdminUpdates ==
    /\ AdminOp
    /\ \E c \in Contents \cup {NoFile} : c # link /\ link' = c
    /\ trusted' = (trusted /\ link' \notin Broken)
    /\ UNCHANGED <<stored, events>>

\* adminUpdateDispatch: the event names the digest of the stored file and the
\* link.  A node whose architecture has no source is skipped when the
\* coordinator knows the architecture; sources of other ones may exist.
AdminUpdateDispatch ==
    /\ running # NoFile
    /\ AdminOp
    /\ events' = events \cup {[digest |-> stored, link |-> link # NoFile]}
    /\ UNCHANGED <<stored, link, trusted>>

-----------------------------------------------------------------------------
(* handleUpdateEvent. *)

\* reportUpdateStatus: the request may fail.  The update waits for the answer
\* with its flag set, but no longer than the request's timeout; the model leaves
\* the wait out.
Report(status) == result' \in {result, status}

NoSource == "none"

\* pickUpdateSource: a stored file before the link.
PickUpdateSource(e) ==
    IF e.digest # NoFile THEN [kind |-> "stored", digest |-> e.digest]
    ELSE IF e.link THEN [kind |-> "link", digest |-> NoFile]
    ELSE [kind |-> NoSource, digest |-> NoFile]

\* Mutant: without a source the update goes on after the report.
HandleUpdateEventWithoutSource ==
    \E e \in events :
      LET src == PickUpdateSource(e) IN
      /\ running # NoFile
      /\ events' = events \ {e}
      /\ IF pc # "idle"
         THEN UNCHANGED <<result, pc, source>>
         ELSE IF src.kind = NoSource
         THEN Report("failed") /\ pc' = "download" /\ source' = src
         ELSE result' = result /\ pc' = "download" /\ source' = src
      /\ UNCHANGED <<platform, stored, link, running, aside, files, ghosts, adminOps, crashes>>

\* The updating flag: an event is ignored while an update is under way.  An
\* executable that is not in its place cannot be resolved.
HandleUpdateEvent ==
    \E e \in events :
      LET src == PickUpdateSource(e) IN
      /\ running # NoFile
      /\ events' = events \ {e}
      /\ IF pc # "idle"
         THEN UNCHANGED <<result, pc, source>>
         ELSE IF src.kind = NoSource \/ exe = NoFile
         THEN Report("failed") /\ UNCHANGED <<pc, source>>
         ELSE result' = result /\ pc' = "download" /\ source' = src
      /\ UNCHANGED <<platform, stored, link, running, aside, files, ghosts, adminOps, crashes>>

\* The update ends with a report; the temporary file is removed.
Fails ==
    /\ pc' = "idle"
    /\ tmp' = NoFile
    /\ Report("failed")
    /\ UNCHANGED <<platform, server, running, source, torn, trusted, adminOps, crashes>>

\* What the source serves now.
Served == IF source.kind = "stored" THEN stored ELSE link

\* Mutant: a failed download is reported and tried again.
DownloadRetries ==
    /\ pc = "download"
    /\ \/ Report("failed") /\ UNCHANGED <<pc, tmp>>
       \/ /\ Served # NoFile
          /\ tmp' = Served
          /\ pc' = "verify"
          /\ result' = result
    /\ UNCHANGED <<platform, server, running, source, aside, exe, old, ghosts, adminOps, crashes>>

\* downloadUpdate, up to the temporary file: the source may be gone.
Download ==
    /\ pc = "download"
    /\ \/ Fails /\ UNCHANGED <<aside, exe, old, unsynced, interrupted>>
       \/ /\ Served # NoFile
          /\ tmp' = Served
          /\ pc' = "verify"
          /\ UNCHANGED <<platform, server, result, running, source, aside, exe, old, ghosts, adminOps, crashes>>

\* Mutant: the digest of the download is not compared.
VerifiedUnchecked == TRUE

\* Size and digest are compared if they were announced.
Verified == source.digest # NoFile => tmp = source.digest

\* downloadUpdate, the checks, and the report of handleUpdateEvent.
Verify ==
    /\ pc = "verify"
    /\ IF Verified
       THEN /\ pc' = "swap"
            /\ Report("restarting")
            /\ UNCHANGED <<platform, server, running, source, aside, files, ghosts, adminOps, crashes>>
       ELSE Fails /\ UNCHANGED <<aside, exe, old, unsynced, interrupted>>

-----------------------------------------------------------------------------
(* swapAndRestart, Unix. *)

Installs ==
    /\ exe' = tmp
    /\ tmp' = NoFile
    /\ unsynced' = TRUE

\* Mutant: the executable is removed before the new file takes its name.
RenameInTwoSteps ==
    /\ platform = "unix" /\ pc = "swap"
    /\ IF exe # NoFile THEN exe' = NoFile /\ UNCHANGED <<pc, tmp, unsynced>>
                       ELSE Installs /\ pc' = "exec"
    /\ UNCHANGED <<platform, server, result, running, source, aside, old, torn, trusted, interrupted, adminOps, crashes>>

\* The rename replaces the executable in one step.
Rename ==
    /\ platform = "unix" /\ pc = "swap"
    /\ \/ Fails /\ UNCHANGED <<aside, exe, old, unsynced, interrupted>>
       \/ /\ Installs
          /\ pc' = "exec"
          /\ UNCHANGED <<platform, server, result, running, source, aside, old, torn, trusted, interrupted, adminOps, crashes>>

\* A new image starts without an update under way and without old events.
Starts(image) ==
    /\ running' = image
    /\ pc' = "idle"
    /\ aside' = FALSE
    /\ events' = {}
    /\ interrupted' = FALSE

\* syscall.Exec: a file that cannot be started leaves the old process, and the
\* new file, where they are.
Exec ==
    /\ platform = "unix" /\ pc = "exec"
    /\ \/ Fails /\ UNCHANGED <<aside, exe, old, unsynced, interrupted>>
       \/ /\ exe \in Builds
          /\ Starts(exe)
          /\ UNCHANGED <<platform, stored, link, result, source, files, torn, unsynced, trusted, adminOps, crashes>>

-----------------------------------------------------------------------------
(* swapAndRestart, Windows. *)

\* The old backup goes, and the running executable takes its place.
MoveAside ==
    /\ platform = "windows" /\ pc = "swap"
    /\ \/ Fails /\ old' \in (IF aside THEN {old} ELSE {old, NoFile}) /\ UNCHANGED <<aside, exe, unsynced, interrupted>>
       \/ /\ ~aside
          /\ old' = exe /\ exe' = NoFile /\ aside' = TRUE
          /\ pc' = "install"
          /\ UNCHANGED <<platform, server, result, running, source, tmp, ghosts, adminOps, crashes>>

\* The old executable is moved back.  The error of that is ignored: then the
\* file in its place, if any, stays there.
MovesBack(inPlace) ==
    \/ exe' = old /\ old' = NoFile /\ aside' = FALSE /\ unsynced' = FALSE /\ UNCHANGED interrupted
    \/ exe' \in inPlace /\ interrupted' = TRUE /\ UNCHANGED <<old, aside, unsynced>>

\* The new file takes the original name, or the executable is moved back.
Install ==
    /\ platform = "windows" /\ pc = "install"
    /\ \/ Fails /\ MovesBack({NoFile})
       \/ /\ Installs
          /\ pc' = "start"
          /\ UNCHANGED <<platform, server, result, running, source, aside, old, torn, trusted, interrupted, adminOps, crashes>>

\* Mutant: the new process does not start, and nothing is moved back.
StartProcessWithoutRollback ==
    /\ platform = "windows" /\ pc = "start"
    /\ \/ Fails /\ UNCHANGED <<aside, exe, old, unsynced, interrupted>>
       \/ /\ exe \in Builds
          /\ Starts(exe)
          /\ old' \in {old, NoFile}
          /\ UNCHANGED <<platform, stored, link, result, source, tmp, exe, torn, unsynced, trusted, adminOps, crashes>>

\* If the new process does not start the old executable is moved back.  The
\* new process removes .old unless the old process still runs from it.
StartProcess ==
    /\ platform = "windows" /\ pc = "start"
    /\ \/ Fails /\ MovesBack({exe, NoFile})
       \/ /\ exe \in Builds
          /\ Starts(exe)
          /\ old' \in {old, NoFile}
          /\ UNCHANGED <<platform, stored, link, result, source, tmp, exe, torn, unsynced, trusted, adminOps, crashes>>

-----------------------------------------------------------------------------
(* Crashes. *)

\* The process is killed: its files stay, temporary ones for ever.
Stops ==
    /\ running # NoFile
    /\ crashes < MaxCrashes
    /\ crashes' = crashes + 1
    /\ running' = NoFile /\ pc' = "idle" /\ aside' = FALSE /\ events' = {} /\ tmp' = NoFile
    /\ interrupted' = (interrupted \/ pc \in {"install", "start"})
    /\ UNCHANGED <<platform, stored, link, result, source, old, trusted, adminOps>>

Killed == Stops /\ UNCHANGED <<exe, torn, unsynced>>

\* Nothing syncs the data of the new file: a power cut may take it.
PowerCut ==
    /\ Stops
    /\ \/ UNCHANGED <<exe, torn>>
       \/ unsynced /\ exe' \in Broken /\ torn' = TRUE
    /\ unsynced' = FALSE

\* The system writes its buffers back.
WriteBack ==
    /\ unsynced
    /\ unsynced' = FALSE
    /\ UNCHANGED <<platform, server, result, node, files, torn, trusted, interrupted, adminOps, crashes>>

\* The autostart entry starts the executable, which removes .old.
Start ==
    /\ running = NoFile
    /\ exe \in Builds
    /\ Starts(exe)
    /\ old' = IF platform = "windows" THEN NoFile ELSE old
    /\ UNCHANGED <<platform, stored, link, result, source, tmp, exe, torn, unsynced, trusted, adminOps, crashes>>

-----------------------------------------------------------------------------
Init ==
    /\ platform \in {"unix", "windows"}
    /\ stored = NoFile /\ link = NoFile /\ events = {} /\ result = "none"
    /\ running = Installed /\ pc = "idle" /\ source = [kind |-> NoSource, digest |-> NoFile]
    /\ tmp = NoFile /\ exe = Installed /\ old = NoFile /\ aside = FALSE
    /\ torn = FALSE /\ unsynced = FALSE /\ trusted = TRUE /\ interrupted = FALSE
    /\ adminOps = 0 /\ crashes = 0

Update == Download \/ Verify \/ Rename \/ Exec \/ MoveAside \/ Install \/ StartProcess

Next ==
    \/ AdminUpdateBinary \/ AdminUpdates \/ AdminUpdateDispatch
    \/ HandleUpdateEvent
    \/ Download \/ Verify \/ Rename \/ Exec \/ MoveAside \/ Install \/ StartProcess
    \/ Killed \/ PowerCut \/ WriteBack \/ Start

Spec == Init /\ [][Next]_vars

\* The goroutine of the update goes on, the control channel delivers, and the
\* autostart entry starts what can be started.
FairSpec == Spec /\ WF_vars(Update) /\ WF_vars(HandleUpdateEvent) /\ WF_vars(Start)

-----------------------------------------------------------------------------
(* Properties. *)

\* Files, process and reports have the values the code gives them, and an
\* update is at the stages of its platform only.
TypeOK ==
    /\ platform \in {"unix", "windows"}
    /\ stored \in Contents \cup {NoFile} /\ link \in Contents \cup {NoFile}
    /\ events \subseteq [digest : Contents \cup {NoFile}, link : BOOLEAN]
    /\ result \in {"none", "restarting", "failed"}
    /\ running \in Builds \cup {NoFile}
    /\ pc \in {"idle", "download", "verify", "swap"}
              \cup IF platform = "unix" THEN {"exec"} ELSE {"install", "start"}
    /\ pc # "idle" => source.kind \in {"stored", "link"}
    /\ source.digest \in Contents \cup {NoFile}
    /\ tmp \in Contents \cup {NoFile} /\ exe \in Contents \cup {NoFile}
    /\ old \in Contents \cup {NoFile}
    /\ aside \in BOOLEAN /\ (aside => platform = "windows" /\ old # NoFile)
    /\ torn \in BOOLEAN /\ unsynced \in BOOLEAN
    /\ trusted \in BOOLEAN /\ interrupted \in BOOLEAN
    /\ adminOps \in 0 .. MaxAdminOps /\ crashes \in 0 .. MaxCrashes

\* The swap of a Unix node never leaves the path of the executable empty, and
\* never makes a node unstartable that was given builds only, wherever its
\* process is killed and whatever is stored or linked during the download.  A
\* broken file is installed like any other: Exec fails, the old process runs on,
\* and nothing puts the old executable back; and nothing syncs the data of the
\* new file before a power cut.
UnixStaysStartable ==
    platform = "unix" => exe # NoFile /\ (trusted /\ ~torn => exe \in Builds)

\* "The old binary is moved back so the node stays runnable": whatever file was
\* stored or linked, between two updates a Windows node has a build as its
\* executable.  Only a kill in the middle of the swap, or a rename back that the
\* system refuses, can end with another file or none there, and then .old is a
\* build still.
WindowsStaysRunnable ==
    platform = "windows" /\ ~torn =>
        \/ exe \in Builds
        \/ old \in Builds /\ (interrupted \/ pc \in {"install", "start"})

\* From the coordinator the node installs exactly the file the event announced,
\* although the administrator may replace it between the event and the download.
InstallsWhatWasAnnounced ==
    [][pc' # pc /\ pc' \in {"exec", "start"} /\ source.kind = "stored"
         => exe' = source.digest]_vars

\* An update never blocks later ones for ever: the updating flag is free again
\* and again, and a command that is delivered then is carried out.
CommandsAreHeard == []<>(pc = "idle")
=============================================================================
