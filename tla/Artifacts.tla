------------------------------- MODULE Artifacts -------------------------------
(***************************************************************************)
(* Where the installer gets llama-server from: a release asset of          *)
(* llama.cpp, a build of the project's own (build_cache.py), or a build    *)
(* from source; and what a run that fails or is killed leaves on the disk  *)
(* for the next one.                                                       *)
(*                                                                         *)
(* One installer runs at a time.  Between two runs the checkout may be     *)
(* moved to another pin, newer or older.  An archive is downloaded to a    *)
(* name of its own, verified and renamed: a partial download is never seen *)
(* under the archive's name and needs no state here.                       *)
(***************************************************************************)
EXTENDS Naturals

CONSTANTS
    Upstream,  \* pins whose manifest has a viable release asset for this host
    Custom,    \* pins for which this host needs the project's own build
    Source,    \* pins for which this host must build from source
    MaxRuns,   \* bound: runs of the installer
    MaxKills   \* bound: how many of them are killed

Pins == Upstream \cup Custom \cup Source

Absent == "absent"
Partial == "partial"
CustomDir == "custom-builds"
BuildDir == "llama.cpp-build"

ASSUME PinsAssumption ==
    /\ Upstream \cap Custom = {} /\ Upstream \cap Source = {} /\ Custom \cap Source = {}
    /\ {Absent, Partial, CustomDir, BuildDir} \cap Pins = {}

ASSUME BoundsAssumption == MaxRuns \in Nat /\ MaxKills \in Nat

VARIABLES
    pin,       \* the pin of the checkout
    archives,  \* the archives in the downloads directory, by file name
    dirs,      \* the directories archives are unpacked into
    build,     \* the build directory and its fingerprint
    run,       \* the run of the installer
    runtime,   \* the llama_cpp section of runtime.json
    runs,      \* how many runs have begun
    kills,     \* how many were killed
    misfiled   \* history: directories --tag had another release unpacked into

disk == <<archives, dirs, build>>
vars == <<pin, disk, run, runtime, runs, kills, misfiled>>

(* A rebuild of a custom build keeps the name of the archive, which tells  *)
(* the llama.cpp release and the host only.                                *)
FileOf(p) == IF p \in Custom THEN CustomDir ELSE p
Files == Upstream \cup {CustomDir}
Dirs == Pins \cup {CustomDir}

(* content stands for every file of a directory; a build is stained from   *)
(* when the linker writes over the binary until its fingerprint is written.*)
Dir == [content : Pins \cup {Absent, Partial}, marked : BOOLEAN]
Build == [content : Pins \cup {Absent, Partial}, fingerprint : Pins \cup {Absent},
          stained : BOOLEAN]

Pcs == {"idle", "download", "fetch", "extract", "unpack", "mark",
        "checkout", "link", "linked", "find", "write"}

(* tag: the tag of the pin, or the one --tag gives.                        *)
Run == [pc : Pcs, pin : Pins, tag : Pins]

(* has, stained: the build in `where' when the section was written.        *)
Section == [where : Dirs \cup {BuildDir}, pin : Pins, tag : Pins,
            has : Pins \cup {Partial}, stained : BOOLEAN]

None == [where |-> Absent]

TypeOK ==
    /\ pin \in Pins
    /\ archives \in [Files -> Upstream \cup Custom \cup {Absent}]
    /\ dirs \in [Dirs -> Dir]
    /\ build \in Build
    /\ run \in Run
    /\ runtime \in Section \cup {None}
    /\ runs \in 0 .. MaxRuns
    /\ kills \in 0 .. MaxKills
    /\ misfiled \subseteq Dirs
    /\ \A f \in Files : archives[f] # Absent => FileOf(archives[f]) = f
    /\ \A d \in Dirs : dirs[d].marked => dirs[d].content \in Pins
    /\ build.fingerprint # Absent => build.content # Absent

Init ==
    /\ pin \in Pins
    /\ archives = [f \in Files |-> Absent]
    /\ dirs = [d \in Dirs |-> [content |-> Absent, marked |-> FALSE]]
    /\ build = [content |-> Absent, fingerprint |-> Absent, stained |-> FALSE]
    /\ run = [pc |-> "idle", pin |-> pin, tag |-> pin]
    /\ runtime = None
    /\ runs = 0
    /\ kills = 0
    /\ misfiled = {}

-----------------------------------------------------------------------------
(* The checkout is moved to another pin.                                   *)
Repin(p) ==
    /\ run.pc = "idle"
    /\ runs < MaxRuns
    /\ pin' = p
    /\ UNCHANGED <<disk, run, runtime, runs, kills, misfiled>>

Goto(p) == run' = [run EXCEPT !.pc = p]
Fails == Goto("idle")

(* resolve_install_strategy, then find_custom_build.                       *)
Install(tag) ==
    /\ run.pc = "idle"
    /\ runs < MaxRuns
    /\ runs' = runs + 1
    /\ run' = [pc |-> IF pin \in Source THEN "checkout" ELSE "download",
               pin |-> pin, tag |-> tag]
    /\ UNCHANGED <<pin, disk, runtime, kills, misfiled>>

-----------------------------------------------------------------------------
(* download_asset and extract_archive.                                     *)

File == FileOf(run.pin)

(* <tag>/<asset_key>; the custom manifest has a tag of its own, and always *)
(* the same.                                                               *)
UnpackDir == IF run.pin \in Custom THEN CustomDir ELSE run.tag

(* An archive with another checksum is removed.                            *)
Download ==
    /\ run.pc = "download"
    /\ IF archives[File] = run.pin
       THEN Goto("extract") /\ UNCHANGED archives
       ELSE Goto("fetch") /\ archives' = [archives EXCEPT ![File] = Absent]
    /\ UNCHANGED <<pin, dirs, build, runtime, runs, kills, misfiled>>

(* No other release has an asset of this name, so --tag makes a URL that   *)
(* does not exist.                                                         *)
Fetch ==
    /\ run.pc = "fetch"
    /\ \/ Fails /\ UNCHANGED archives
       \/ /\ run.tag = run.pin \/ run.pin \in Custom
          /\ archives' = [archives EXCEPT ![File] = run.pin]
          /\ Goto("extract")
    /\ UNCHANGED <<pin, dirs, build, runtime, runs, kills, misfiled>>

(* Mutation: a directory is taken for unpacked when it exists.             *)
ExtractWithoutMarker ==
    /\ run.pc = "extract"
    /\ IF dirs[UnpackDir].content # Absent
       THEN Goto("find") /\ UNCHANGED <<dirs, misfiled>>
       ELSE /\ Goto("unpack")
            /\ dirs' = [dirs EXCEPT ![UnpackDir].content = Partial]
            /\ misfiled' = IF UnpackDir \in {run.pin, CustomDir} THEN misfiled
                           ELSE misfiled \cup {UnpackDir}
    /\ UNCHANGED <<pin, archives, build, runtime, runs, kills>>

(* Mutation: a directory is unpacked again every time.                     *)
ExtractAlways ==
    /\ run.pc = "extract"
    /\ Goto("unpack")
    /\ dirs' = [dirs EXCEPT ![UnpackDir] = [content |-> Partial, marked |-> FALSE]]
    /\ UNCHANGED <<pin, archives, build, runtime, runs, kills, misfiled>>

(* A directory with a marker is left alone; one without it is removed.     *)
Extract ==
    /\ run.pc = "extract"
    /\ IF dirs[UnpackDir].marked
       THEN Goto("find") /\ UNCHANGED <<dirs, misfiled>>
       ELSE /\ Goto("unpack")
            /\ dirs' = [dirs EXCEPT ![UnpackDir].content = Partial]
            /\ misfiled' = IF UnpackDir \in {run.pin, CustomDir} THEN misfiled
                           ELSE misfiled \cup {UnpackDir}
    /\ UNCHANGED <<pin, archives, build, runtime, runs, kills>>

Unpack ==
    /\ run.pc = "unpack"
    /\ \/ Fails /\ UNCHANGED dirs
       \/ /\ Goto("mark")
          /\ dirs' = [dirs EXCEPT ![UnpackDir].content = archives[File]]
    /\ UNCHANGED <<pin, archives, build, runtime, runs, kills, misfiled>>

Mark ==
    /\ run.pc = "mark"
    /\ Goto("find")
    /\ dirs' = [dirs EXCEPT ![UnpackDir].marked = TRUE]
    /\ UNCHANGED <<pin, archives, build, runtime, runs, kills, misfiled>>

-----------------------------------------------------------------------------
(* ensure_llama_server_built.                                              *)

(* The prerequisites, the disk or the network may be missing.  A matching  *)
(* fingerprint and a binary that is there end the build before it begins.  *)
Checkout ==
    /\ run.pc = "checkout"
    /\ \/ Fails
       \/ build.fingerprint = run.tag /\ Goto("find")
       \/ (build.fingerprint = run.tag => build.content = Partial) /\ Goto("link")
    /\ UNCHANGED <<pin, disk, runtime, runs, kills, misfiled>>

(* Configuring and compiling, which leave the binary alone, may fail or    *)
(* time out.  The linker writes the new binary where the old one was.      *)
Link ==
    /\ run.pc = "link"
    /\ \/ Fails /\ UNCHANGED build
       \/ /\ Goto("linked")
          /\ build' = [build EXCEPT !.content = Partial, !.stained = TRUE]
    /\ UNCHANGED <<pin, archives, dirs, runtime, runs, kills, misfiled>>

(* The binary is complete and the fingerprint is written, or the time of   *)
(* the build is up.                                                        *)
Finish ==
    /\ run.pc = "linked"
    /\ \/ Fails /\ UNCHANGED build
       \/ /\ Goto("find")
          /\ build' = [content |-> run.tag, fingerprint |-> run.tag, stained |-> FALSE]
    /\ UNCHANGED <<pin, archives, dirs, runtime, runs, kills, misfiled>>

-----------------------------------------------------------------------------
(* The end of the run.                                                     *)

Where == IF run.pin \in Source THEN BuildDir ELSE UnpackDir
Content(d) == IF d = BuildDir THEN build.content ELSE dirs[d].content

(* find_binary, and what run_install does before it writes the file.       *)
Find ==
    /\ run.pc = "find"
    /\ Content(Where) # Absent
    /\ Goto("write")
    /\ UNCHANGED <<pin, disk, runtime, runs, kills, misfiled>>

Write ==
    /\ run.pc = "write"
    /\ Goto("idle")
    /\ runtime' = [where |-> Where, pin |-> run.pin, tag |-> run.tag,
                   has |-> Content(Where),
                   stained |-> Where = BuildDir /\ build.stained]
    /\ UNCHANGED <<pin, disk, runs, kills, misfiled>>

(* The installer is killed, or the machine loses power.                    *)
Killed ==
    /\ run.pc # "idle"
    /\ kills < MaxKills
    /\ kills' = kills + 1
    /\ Fails
    /\ UNCHANGED <<pin, disk, runtime, runs, misfiled>>

Next ==
    \/ \E p \in Pins : Repin(p) \/ Install(p)
    \/ Download \/ Fetch \/ Extract \/ Unpack \/ Mark
    \/ Checkout \/ Link \/ Finish
    \/ Find \/ Write \/ Killed

Spec == Init /\ [][Next]_vars

-----------------------------------------------------------------------------
(* Properties                                                              *)

Installed == runtime # None

(* "Already extracted" is never said of half an archive, whatever run was  *)
(* killed before, and an installation of a release gives that release:     *)
(* runtime.json names a whole binary, and the binary of the tag it states, *)
(* except where the marker or the fingerprint can be of another one -- a   *)
(* custom build, a directory that --tag has had filled with another        *)
(* release, a build directory whose rebuild was cut short.                 *)
InstalledIsWhole ==
    Installed =>
        /\ runtime.where \in Dirs => runtime.has \in Pins
        /\ runtime.where \in Upstream \ misfiled => runtime.has = runtime.tag
        /\ runtime.where = BuildDir /\ ~runtime.stained => runtime.has = runtime.tag

(* "Extract to a versioned dir so multiple versions can coexist"           *)
(* (ARCHITECTURE.md:129): an upgrade that fails or is killed on the way    *)
(* leaves the installation that runtime.json names as it was, so that the  *)
(* service can go on with it.  A build directory has no versions.          *)
InstallationSurvives ==
    Installed /\ runtime.where \in Dirs => dirs[runtime.where].content = runtime.has

(* "re-running with the same tag/asset is a no-op if already extracted and *)
(* checksum matches" (ARCHITECTURE.md:132): after an installation without  *)
(* --tag of a prebuilt binary, what is unpacked is what was verified.      *)
UnpackedIsVerified ==
    Installed /\ runtime.pin \notin Source /\ runtime.tag = runtime.pin
        => runtime.has = runtime.pin
=============================================================================
