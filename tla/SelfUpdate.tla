---------------------------- MODULE SelfUpdate -----------------------------
(***************************************************************************)
(* lstk update, and "Update now" at the end of a start: the latest release *)
(* is looked up, its archive downloaded next to the executable and checked *)
(* against the release's manifest, and what it holds put in the place of   *)
(* the executable that is running, which other lstk processes run as well. *)
(***************************************************************************)
EXTENDS Naturals

CONSTANTS
  UpdateProcs,     \* the lstk processes that update
  UpdateRequests,  \* how: [checkOnly, method, os, device]
  MaxRelease       \* bound on the releases published

ASSUME UpdateConstants == MaxRelease \in Nat \ {0}

VARIABLES
  suReq, suAt, suEnd,
  suLatest,   \* the number of the latest release
  suTag,      \* the release a process goes for
  suArchive,  \* what it has downloaded
  suTemps,    \* the processes whose temporary files are on disk
  suExe,      \* what is at the executable's path
  suOld       \* what is at that path with .old

suVars == <<suReq, suAt, suEnd, suLatest, suTag, suArchive, suTemps, suExe, suOld>>

Running == 1                \* the release these processes are
Missing == MaxRelease + 1   \* no file
Half == MaxRelease + 2      \* a file cut short
Tampered == MaxRelease + 3  \* bytes that no release has
Releases == 0..MaxRelease
Contents == Releases \cup {Missing, Half, Tampered}
-----------------------------------------------------------------------------
UpdateInit ==
  /\ suReq \in [UpdateProcs -> UpdateRequests]
  /\ \A p, q \in UpdateProcs : suReq[p].os = suReq[q].os /\ suReq[p].device = suReq[q].device
  /\ suAt = [p \in UpdateProcs |-> "check"]
  /\ suEnd = [p \in UpdateProcs |-> "busy"]
  /\ suLatest \in Releases
  /\ suTag = [p \in UpdateProcs |-> Running]
  /\ suArchive = [p \in UpdateProcs |-> Missing]
  /\ suTemps = {}
  /\ suExe = Running
  /\ suOld \in {Missing, 0}

SuAt(p, at) == suAt[p] = at /\ suEnd[p] = "busy"
SuGo(p, at) == suAt' = [suAt EXCEPT ![p] = at] /\ UNCHANGED suEnd
\* Whatever the outcome, the deferred removals take the temporary files.
SuStop(p, why) ==
  suEnd' = [suEnd EXCEPT ![p] = why] /\ suTemps' = suTemps \ {p} /\ UNCHANGED suAt
SuDisk == <<suExe, suOld>>
-----------------------------------------------------------------------------
\* Any other version counts as an update, an older one too.
CheckRelease(p) ==
  /\ SuAt(p, "check")
  /\ UNCHANGED <<suReq, suLatest, suArchive, SuDisk>>
  /\ \/ /\ suLatest # Running /\ ~suReq[p].checkOnly
        /\ suTag' = [suTag EXCEPT ![p] = suLatest]
        /\ SuGo(p, IF suReq[p].method = "binary" THEN "checksums" ELSE "package")
        /\ UNCHANGED suTemps
     \/ /\ suLatest = Running \/ suReq[p].checkOnly
        /\ SuStop(p, "checked") /\ UNCHANGED suTag
     \/ SuStop(p, "failed") /\ UNCHANGED suTag

\* brew upgrade or npm install, which replace lstk in their own way.
PackageManagerRuns(p) ==
  /\ SuAt(p, "package")
  /\ UNCHANGED <<suReq, suLatest, suTag, suArchive, suOld>>
  /\ \/ suExe' = suLatest /\ SuStop(p, "updated")
     \/ SuStop(p, "failed") /\ UNCHANGED suExe

\* A release without a manifest, or a manifest that is malformed, empty or
\* without an entry for this platform, cannot be verified.
FetchChecksums(p) ==
  /\ SuAt(p, "checksums")
  /\ UNCHANGED <<suReq, suLatest, suTag, suArchive, SuDisk>>
  /\ (SuGo(p, "download") /\ UNCHANGED suTemps) \/ SuStop(p, "failed")

Download(p) ==
  /\ SuAt(p, "download")
  /\ UNCHANGED <<suReq, suLatest, suTag, SuDisk>>
  /\ \/ \E bytes \in {suTag[p], Half, Tampered} : suArchive' = [suArchive EXCEPT ![p] = bytes]
        /\ SuGo(p, "verify") /\ suTemps' = suTemps \cup {p}
     \/ SuStop(p, "failed") /\ UNCHANGED suArchive

\* Mutant: an archive that is complete is taken for the one in the manifest.
SumMatchesByLength(p) == suArchive[p] # Half
SumMatches(p) == suArchive[p] = suTag[p]
VerifyAndExtract(p) ==
  /\ SuAt(p, "verify")
  /\ UNCHANGED <<suReq, suLatest, suTag, suArchive, SuDisk>>
  /\ \/ /\ SumMatches(p) /\ suExe # Missing
        /\ SuGo(p, IF suReq[p].os = "windows" THEN "clear-old" ELSE "place")
        /\ UNCHANGED suTemps
     \/ SuStop(p, "failed")

\* Windows lets a running executable be renamed, not replaced.
RemoveOld(p) ==
  /\ SuAt(p, "clear-old")
  /\ UNCHANGED <<suReq, suLatest, suTag, suArchive, suExe>>
  /\ \/ suOld' = Missing /\ SuGo(p, "move-away") /\ UNCHANGED suTemps
     \/ SuStop(p, "failed") /\ UNCHANGED suOld
MoveAway(p) ==
  /\ SuAt(p, "move-away")
  /\ UNCHANGED <<suReq, suLatest, suTag, suArchive>>
  /\ \/ suExe # Missing /\ suOld' = suExe /\ suExe' = Missing /\ SuGo(p, "place") /\ UNCHANGED suTemps
     \/ SuStop(p, "failed") /\ UNCHANGED SuDisk

\* A rename is atomic, and fails between two file systems: then the new
\* executable is copied over the path. The file's mode comes last, and may
\* fail with the new executable in place.
Place(p) ==
  /\ SuAt(p, "place")
  /\ UNCHANGED <<suReq, suLatest, suTag, suArchive, suOld>>
  /\ \/ /\ suReq[p].device = "same"
        /\ suExe' = suArchive[p]
        /\ SuStop(p, "updated") \/ SuStop(p, "failed")
     \/ /\ suReq[p].device = "other" \/ suReq[p].os = "windows"
        /\ SuGo(p, "copy") /\ UNCHANGED <<suTemps, suExe>>

\* Linux does not open for writing what is being executed.
TextBusy(p) == suReq[p].os = "linux" /\ suExe = Running
CopyTruncates(p) ==
  /\ SuAt(p, "copy")
  /\ UNCHANGED <<suReq, suLatest, suTag, suArchive, suOld>>
  /\ \/ ~TextBusy(p) /\ suExe' = Half /\ SuGo(p, "write") /\ UNCHANGED suTemps
     \/ SuStop(p, "failed") /\ UNCHANGED suExe
CopyWrites(p) ==
  /\ SuAt(p, "write")
  /\ UNCHANGED <<suReq, suLatest, suTag, suArchive, suOld>>
  /\ \/ suExe' = suArchive[p] /\ SuStop(p, "updated")
     \/ suExe' = Half /\ SuStop(p, "failed")
-----------------------------------------------------------------------------
NewRelease ==
  /\ suLatest < MaxRelease
  /\ suLatest' = suLatest + 1
  /\ UNCHANGED <<suReq, suAt, suEnd, suTag, suArchive, suTemps, SuDisk>>
UpdateKilled(p) ==
  /\ suEnd[p] = "busy"
  /\ suEnd' = [suEnd EXCEPT ![p] = "killed"]
  /\ UNCHANGED <<suReq, suAt, suLatest, suTag, suArchive, suTemps, SuDisk>>

UpdateStep(p) ==
  \/ CheckRelease(p) \/ PackageManagerRuns(p) \/ FetchChecksums(p) \/ Download(p)
  \/ VerifyAndExtract(p) \/ RemoveOld(p) \/ MoveAway(p) \/ Place(p)
  \/ CopyTruncates(p) \/ CopyWrites(p) \/ UpdateKilled(p)
UpdateNext == NewRelease \/ \E p \in UpdateProcs : UpdateStep(p)
UpdateSpec == UpdateInit /\ [][UpdateNext]_suVars

UpdateTypeOK ==
  /\ suExe \in Contents /\ suOld \in Contents /\ suLatest \in Releases
  /\ \A p \in UpdateProcs : suTag[p] \in Releases /\ suArchive[p] \in Contents
  /\ suTemps \subseteq UpdateProcs
-----------------------------------------------------------------------------
\* What is put at the executable's path is a release in full, whatever was
\* downloaded; and where the new executable can be renamed into place, no
\* other update and no kill at any moment leaves anything else there.
\* (github.go, extract.go)
ExecutableSound ==
  /\ suExe # Tampered /\ suOld # Tampered
  /\ (\A p \in UpdateProcs : suReq[p].device = "same" /\ suReq[p].os # "windows") => suExe \in Releases
=============================================================================
