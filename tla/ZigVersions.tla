----------------------------- MODULE ZigVersions -----------------------------
(***************************************************************************)
(* scripts/zig.py: which version of Zig the project uses, as README.md     *)
(* names it, and which ones have been downloaded.  Around it are those who *)
(* publish Zig, and the developers, who check out another README.md,       *)
(* delete what was downloaded, and stop the script.                        *)
(***************************************************************************)
EXTENDS FiniteSets

CONSTANTS
    Version,
    NoVersion       \* of a README.md that names none, as one that was cut off

VARIABLES
    readme,         \* the version README.md names
    there,          \* the parts of each version that are in its directory
    archives,       \* the versions of which there is an archive file
    master,         \* the latest version, as the index of versions has it
    offered,        \* the versions that can be downloaded
    at,             \* where the script is, "idle" when it is not running
    command,        \* the subcommand it runs
    zig,            \* the version it is about
    unpacked,       \* the parts that this run has unpacked
    kept,           \* the version of the last command, if it ended well and neither
                    \* README.md nor what is there was changed by others since
    stopped         \* the versions that were last unpacked by a run that was stopped

zigRun == <<at, command, zig, unpacked>>
zigVars == <<readme, there, archives, master, offered, zigRun, kept, stopped>>

Part == {"zig", "lib"}      \* the compiler, and what it needs

ZigInit ==
    /\ readme \in Version /\ master \in Version /\ offered = {master}
    /\ there = [v \in Version |-> {}] /\ archives = {} /\ stopped = {}
    /\ at = "idle" /\ command = "update" /\ zig = master /\ unpacked = {}
    /\ kept = NoVersion

(* Zig.exists looks for the compiler.                                      *)
Exists(v) == "zig" \in there[v]

------------------------------------------------------------------------------
(* The others.                                                             *)

Publish(v) ==
    /\ master' = v /\ offered' = offered \cup {v}
    /\ UNCHANGED <<readme, there, archives, zigRun, kept, stopped>>

Withdraw(v) ==
    /\ v # master /\ offered' = offered \ {v}
    /\ UNCHANGED <<readme, there, archives, master, zigRun, kept, stopped>>

CheckOut(v) ==
    /\ readme' = v /\ kept' = NoVersion
    /\ UNCHANGED <<there, archives, master, offered, zigRun, stopped>>

Delete(v) ==
    /\ at = "idle"
    /\ there' = [there EXCEPT ![v] = {}] /\ archives' = archives \ {v}
    /\ stopped' = stopped \ {v} /\ kept' = NoVersion
    /\ UNCHANGED <<readme, master, offered, zigRun>>

------------------------------------------------------------------------------
(* The subcommands.  One that finds nothing to do has ended well, with     *)
(* version v kept; one that finds an error leaves all as it is.            *)

Begins(what, v, place) ==
    /\ at' = place /\ command' = what /\ zig' = v /\ unpacked' = {} /\ kept' = NoVersion

HasNothingToDo(v) == kept' = v /\ UNCHANGED zigRun

StatusSlip(current, latest) ==      \* the same version needs no look at what is there
    CASE latest = current -> "UsingLatest"
      [] latest # current /\ Exists(latest) -> "LatestNotCurrent"
      [] latest # current /\ ~ Exists(latest) -> "NeedToDownloadLatest"

(* check.                                                                  *)
Status(current, latest) ==
    CASE Exists(latest) /\ latest = current -> "UsingLatest"
      [] Exists(latest) /\ latest # current -> "LatestNotCurrent"
      [] ~ Exists(latest) -> "NeedToDownloadLatest"

Update ==
    /\ at = "idle" /\ readme # NoVersion
    /\ CASE Status(readme, master) = "UsingLatest" -> HasNothingToDo(master)
         [] Status(readme, master) = "LatestNotCurrent" -> Begins("update", master, "use")
         [] Status(readme, master) = "NeedToDownloadLatest" ->
                Begins("update", master, "download")
    /\ UNCHANGED <<readme, there, archives, master, offered, stopped>>

UseVersion(v) ==
    /\ at = "idle" /\ Exists(v)
    /\ Begins("use", v, "use")
    /\ UNCHANGED <<readme, there, archives, master, offered, stopped>>

DownloadCurrent ==
    /\ at = "idle" /\ readme # NoVersion
    /\ IF Exists(readme) THEN HasNothingToDo(readme) ELSE Begins("download", readme, "download")
    /\ UNCHANGED <<readme, there, archives, master, offered, stopped>>

(* download_file: the file is there before anything is downloaded, and     *)
(* stays, empty, if that fails.                                            *)
DownloadFile ==
    /\ at = "download"
    /\ archives' = archives \cup {zig}
    /\ at' = "idle" \/ (zig \in offered /\ at' = "unpack")
    /\ UNCHANGED <<readme, there, master, offered, command, zig, unpacked, kept, stopped>>

(* extract_archive, a part at a time, over what is there; then, if it is   *)
(* an update, use.                                                         *)
Extract(part) ==
    /\ at = "unpack" /\ part \notin unpacked
    /\ there' = [there EXCEPT ![zig] = @ \cup {part}]
    /\ unpacked' = unpacked \cup {part}
    /\ UNCHANGED <<readme, archives, master, offered, at, command, zig, kept, stopped>>

Extracted ==
    /\ at = "unpack" /\ unpacked = Part
    /\ archives' = archives \ {zig} /\ stopped' = stopped \ {zig}
    /\ IF command = "update" THEN at' = "use" /\ UNCHANGED kept
       ELSE at' = "idle" /\ kept' = IF readme = zig THEN zig ELSE NoVersion
    /\ UNCHANGED <<readme, there, master, offered, command, zig, unpacked>>

(* set_current_version: the line of README.md that names a version, if     *)
(* there is one.                                                           *)
SetCurrentVersion ==
    /\ at = "use"
    /\ readme' = IF readme = NoVersion THEN NoVersion ELSE zig
    /\ at' = "idle" /\ kept' = zig
    /\ UNCHANGED <<there, archives, master, offered, command, zig, unpacked, stopped>>

(* The script is stopped, maybe with a README.md that is cut off.          *)
Stop ==
    /\ at # "idle" /\ at' = "idle"
    /\ readme' \in IF at = "use" THEN {readme, NoVersion} ELSE {readme}
    /\ stopped' = IF at = "unpack" THEN stopped \cup {zig} ELSE stopped
    /\ UNCHANGED <<there, archives, master, offered, command, zig, unpacked, kept>>

ZigNext ==
    \/ \E v \in Version : Publish(v) \/ Withdraw(v) \/ CheckOut(v) \/ Delete(v) \/ UseVersion(v)
    \/ Update \/ DownloadCurrent \/ DownloadFile \/ (\E part \in Part : Extract(part))
    \/ Extracted \/ SetCurrentVersion \/ Stop

ZigSpec == ZigInit /\ [][ZigNext]_zigVars

------------------------------------------------------------------------------
ZigTypeOK ==
    /\ readme \in Version \cup {NoVersion} /\ kept \in Version \cup {NoVersion}
    /\ there \in [Version -> SUBSET Part] /\ archives \subseteq Version
    /\ master \in offered /\ offered \subseteq Version /\ stopped \subseteq Version
    /\ at \in {"idle", "download", "unpack", "use"} /\ zig \in Version
    /\ command \in {"update", "use", "download"} /\ unpacked \subseteq Part

(* After update, use or download have ended well README.md names the       *)
(* version they were about, with a compiler to run, and all of it is there *)
(* unless its unpacking was stopped: Zig.exists, which they go by, cannot  *)
(* tell (zig.py:101-102, 180-189, 234-244).  A README.md that was cut off stays as it *)
(* is, and use then ends as well as ever.                                  *)
CommandsKeepTheirWord ==
    /\ ZigTypeOK
    /\ kept # NoVersion =>
          /\ readme \in {kept, NoVersion} /\ Exists(kept)
          /\ kept \notin stopped => there[kept] = Part
===============================================================================
