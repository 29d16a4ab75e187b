----------------------------- MODULE Snapshots ------------------------------
(***************************************************************************)
(* lstk snapshot save, load, remove, show, versions and list: references   *)
(* are parsed to a destination, the emulator is found, and the calls are   *)
(* made on the emulator, the platform, the bucket and the local files. A   *)
(* command is the sequence of steps its handler takes; other commands, the *)
(* user's application and a kill may come between any two.                 *)
(***************************************************************************)
EXTENDS Naturals, Sequences

CONSTANTS
  SnapProcs,     \* the snapshot commands
  SnapRequests,  \* what they may be asked
  Items,         \* the resources an emulator may hold
  MaxVersions    \* bound on the versions of a pod

ASSUME SnapConstants == MaxVersions \in Nat /\ SnapProcs \cap {"none", "folder", "earlier"} = {}

VARIABLES
  snapReq,   \* the request of each command
  snapPlan,  \* the steps it has left
  snapDst,   \* the destination its reference was parsed to
  snapHost,  \* the emulator it found: "docker" or "external"
  snapYes,   \* whether the user confirmed
  snapFd,    \* the inode it has open
  snapHeld,  \* what an ended save reported as saved
  snapEnd,   \* "busy", "ok" or why it stopped
  emu,       \* each emulator: whether it runs and what it holds
  dir,       \* the local directory: a path's inode, "folder" or "none"
  inodes,    \* what each inode holds
  pods,      \* the versions of each pod, on the platform and in the bucket
  bucket,    \* whether the bucket exists
  licensed   \* whether the plan has snapshots

snapVars == <<snapReq, snapPlan, snapDst, snapHost, snapYes, snapFd, snapHeld, snapEnd,
              emu, dir, inodes, pods, bucket, licensed>>

Hosts == {"docker", "external"}
Stores == {"platform", "bucket"}
PodNames == {"pod", "auto"}
Bases == {"state", "auto"}
Paths == [base : Bases, ext : {"", "snapshot", "zip"}]
NoPath == [base |-> "auto", ext |-> ""]
Strategies == {"account-region-merge", "overwrite", "service-merge"}

Archive(items) == [whole |-> TRUE, items |-> items]
Torn == [whole |-> FALSE, items |-> {}]
-----------------------------------------------------------------------------
\* References. A reference is classified by its form; version 0 is no
\* suffix, BadVersion a suffix that is no positive number; ok is the form's
\* own test (pod name, bucket and no credentials, parent directory).
BadVersion == MaxVersions + 2
NoRef == [form |-> "empty", name |-> "", version |-> 0, ok |-> TRUE, path |-> NoPath]
Refs == [form : {"empty", "pod", "s3", "path", "pod://", "oras", "scheme"}, name : PodNames \cup {""},
         version : 0..BadVersion, ok : BOOLEAN, path : Paths]

\* The requests are the commands' own; only load has a --dry-run.
ASSUME SnapRequestsOK ==
  \A req \in SnapRequests :
    /\ req.cmd \in {"save", "load", "start", "remove", "list", "show", "versions"}
    /\ req.args \in Seq(Refs) /\ req.configRef \in Refs
    /\ req.dryRun => req.cmd = "load"

BadRef(e) == [kind |-> "error", why |-> e, pod |-> "", version |-> 0, path |-> NoPath]
Pod(name, v) == [BadRef("") EXCEPT !.kind = "pod", !.pod = name, !.version = v]
Local(path) == [BadRef("") EXCEPT !.kind = "local", !.path = path]
S3(name) == [BadRef("") EXCEPT !.kind = "s3", !.pod = name]

ParsePodRef(r, allowVersion) ==
  CASE r.version = BadVersion -> BadRef("version")
    [] r.version # BadVersion /\ ~r.ok -> BadRef("podName")
    [] r.version \notin {0, BadVersion} /\ r.ok /\ ~allowVersion -> BadRef("podVersionNotSupported")
    [] OTHER -> Pod(r.name, r.version)

ParseS3(r) == IF r.ok THEN S3("") ELSE BadRef("s3Url")

\* A name given beside an s3:// location has no version.
RemotePodName(r) ==
  CASE r.form # "path" \/ r.version = BadVersion -> BadRef("version")
    [] r.form = "path" /\ r.version \notin {0, BadVersion} -> BadRef("podVersionNotSupported")
    [] r.form = "path" /\ r.version = 0 /\ ~r.ok -> BadRef("podName")
    [] OTHER -> S3(r.name)

IsFile(path) == dir[path] \notin {"none", "folder"}
WithSnapshotExt(path) == [path EXCEPT !.ext = "snapshot"]

\* The path itself, then with .snapshot, then with .zip; folders are passed over.
\* SourceCandidatesLegacyFirst is a mutant: .zip is tried before .snapshot.
SourceCandidatesLegacyFirst(path) ==
  IF path.ext = "" THEN <<path, [path EXCEPT !.ext = "zip"], WithSnapshotExt(path)>>
  ELSE <<path>>
SourceCandidates(path) ==
  IF path.ext = "" THEN <<path, WithSnapshotExt(path), [path EXCEPT !.ext = "zip"]>>
  ELSE <<path>>

ResolveSourcePath(path) ==
  LET tries == SourceCandidates(path)
      files == {i \in DOMAIN tries : IsFile(tries[i])}
  IN  IF files # {} THEN Local(tries[CHOOSE i \in files : \A j \in files : i <= j])
      ELSE IF \E i \in DOMAIN tries : dir[tries[i]] = "folder"
           THEN BadRef("directory") ELSE BadRef("fileNotFound")

\* The forms ParseSource and ParseDestination refuse alike.
RefusedForm(r) ==
  CASE r.form = "pod://" -> "alias" [] r.form = "oras" -> "remoteNotSupported"
    [] r.form = "scheme" -> "unknownScheme" [] OTHER -> "none"

ParseSource(r) ==
  CASE r.form = "empty" -> BadRef("refRequired")
    [] r.form = "pod" -> ParsePodRef(r, TRUE)
    [] r.form = "s3" -> ParseS3(r)
    [] r.form = "path" -> ResolveSourcePath(r.path)
    [] OTHER -> BadRef(RefusedForm(r))

ParseDestination(r) ==
  CASE r.form = "pod" -> ParsePodRef(r, FALSE)
    [] r.form = "s3" -> ParseS3(r)
    [] r.form \in {"empty", "path"} ->
         IF ~r.ok THEN BadRef("parent")
         ELSE IF dir[r.path] = "folder" THEN BadRef("directory")
         ELSE Local(WithSnapshotExt(r.path))
    [] OTHER -> BadRef(RefusedForm(r))

\* remove, show and versions take pod: references only.
ParseCloudOnly(r, allowVersion) ==
  IF r.form \in {"empty", "path"} THEN BadRef("localFile")
  ELSE LET d == ParseSource(r)
       IN  CASE d.kind = "s3" -> BadRef("remoteNotSupported")
             [] d.kind # "s3" /\ d.version # 0 /\ ~allowVersion -> BadRef("podVersionNotSupported")
             [] OTHER -> d

ParseVersionable(r) ==
  IF r.form = "s3" THEN BadRef("versionsRemoteUnsupported") ELSE ParseCloudOnly(r, FALSE)
-----------------------------------------------------------------------------
\* Arguments and flags.
S3Args(args) == {i \in DOMAIN args : args[i].form = "s3"}
OtherArgs(args) == DOMAIN args \ S3Args(args)
IsRemote(req) == req.cmd \in {"save", "load", "list"} /\ S3Args(req.args) # {}
FirstOf(args, idx) == IF idx = {} THEN NoRef ELSE args[CHOOSE i \in idx : TRUE]

\* A name that passes its test is a pod's name: of a pod reference, or of what
\* is given beside an s3:// location. (snapshot.ValidatePodName)
ASSUME SnapNames ==
  \A req \in SnapRequests :
    /\ \A i \in DOMAIN req.args :
         req.args[i].ok /\ (req.args[i].form = "pod" \/ (req.args[i].form = "path" /\ IsRemote(req))) =>
           req.args[i].name \in PodNames
    /\ req.configRef.ok /\ req.configRef.form = "pod" => req.configRef.name \in PodNames

\* An explicit --merge wins over LSTK_MERGE_STRATEGY; start asks for neither.
MergeStrategy(req) ==
  IF req.cmd = "start" THEN "account-region-merge"
  ELSE IF req.mergeFlag # "" THEN req.mergeFlag
  ELSE IF req.mergeEnv # "" THEN req.mergeEnv ELSE "account-region-merge"

\* start: --no-snapshot, else --snapshot, else the configured snapshot.
StartRef(req) ==
  IF req.noSnapshot THEN NoRef ELSE IF req.args # <<>> THEN req.args[1] ELSE req.configRef

\* What the handler makes of its arguments before it looks for the emulator.
ClassifyArgs(req) ==
  LET s3 == S3Args(req.args)
      pod == FirstOf(req.args, OtherArgs(req.args))
      url == ParseS3(FirstOf(req.args, s3))
  IN  IF \E i, j \in s3 : i # j THEN BadRef("oneLocation")
      ELSE IF \E i, j \in OtherArgs(req.args) : i # j THEN BadRef("extraArgument")
      ELSE IF req.cmd = "load" /\ pod = NoRef THEN BadRef("podNameRequired")
      ELSE IF req.cmd = "load" /\ RemotePodName(pod).kind = "error" THEN RemotePodName(pod)
      ELSE IF url.kind = "error" THEN url
      ELSE IF pod = NoRef THEN S3("auto") ELSE RemotePodName(pod)

FirstArg(req) == IF req.args = <<>> THEN NoRef ELSE req.args[1]

ParsedSave(req) ==
  CASE ~req.servicesOk -> BadRef("services")
    [] req.servicesOk /\ IsRemote(req) -> ClassifyArgs(req)
    [] OTHER -> ParseDestination(FirstArg(req))

ParsedLoad(req) ==
  CASE MergeStrategy(req) \notin Strategies -> BadRef("strategy")
    [] MergeStrategy(req) \in Strategies /\ IsRemote(req) -> ClassifyArgs(req)
    [] MergeStrategy(req) \in Strategies /\ ~IsRemote(req) ->
         LET d == ParseSource(FirstArg(req))
         IN  IF req.dryRun /\ d.kind = "local" THEN BadRef("dryRunPodOnly") ELSE d

ParsedStart(req) ==
  CASE req.noSnapshot /\ req.args # <<>> -> BadRef("bothSnapshotFlags")
    [] ~req.noSnapshot /\ StartRef(req) # NoRef -> ParseSource(StartRef(req))
    [] OTHER -> S3("none")

ParsedRemove(req) ==
  LET d == ParseCloudOnly(FirstArg(req), FALSE)
  IN  IF d.kind = "pod" /\ ~req.interactive /\ ~req.force THEN BadRef("confirmationRequired") ELSE d

ParsedList(req) ==
  CASE IsRemote(req) -> ClassifyArgs(req)
    [] ~IsRemote(req) /\ req.args # <<>> -> BadRef("unexpectedArgument")
    [] OTHER -> Pod("", 0)

Parsed(req) ==
  IF Len(req.args) > 1 /\ ~IsRemote(req) THEN BadRef("extraArgument")
  ELSE CASE req.cmd = "save" -> ParsedSave(req)
    [] req.cmd = "load" -> ParsedLoad(req)
    [] req.cmd = "start" -> ParsedStart(req)
    [] req.cmd = "remove" -> ParsedRemove(req)
    [] req.cmd = "list" -> ParsedList(req)
    [] req.cmd = "show" -> ParseCloudOnly(FirstArg(req), TRUE)
    [] OTHER -> ParseVersionable(FirstArg(req))

\* The steps of each handler; "parse" is replaced by what follows for the
\* destination it finds. An interactive remove parses after it found the emulator.
Opening(req) == IF req.cmd = "remove" /\ req.interactive THEN <<"deps", "parse">> ELSE <<"parse">>

SaveLocal == <<"deps", "health", "running", "create", "export">>
SavePod == <<"deps", "auth", "health", "running", "podSave">>
SaveRemoteS3 == <<"credentials", "deps", "bucket", "health", "running", "register", "podSave">>
LoadLocal(req) ==
  <<"health", "running">>
    \o (IF MergeStrategy(req) = "overwrite" THEN <<"reset">> ELSE <<>>) \o <<"open", "import">>
LoadPod == <<"auth", "health", "running", "podLoad">>
LoadRemoteS3 == <<"credentials", "deps", "bucket", "health", "running", "register", "podLoad">>
\* Mutant: a preview that goes on to load.
DiffPodApplies == <<"deps", "auth", "health", "running", "diff", "podLoad">>
DiffPod == <<"deps", "auth", "health", "running", "diff">>
\* Mutant: the prompt is left out.
RemovePlanUnasked(req) ==
  (IF req.interactive THEN <<>> ELSE <<"deps">>) \o <<"auth", "health", "running", "podRemove">>
RemovePlan(req) ==
  (IF req.interactive THEN <<>> ELSE <<"deps">>) \o <<"auth", "health", "running">>
    \o (IF req.force THEN <<>> ELSE <<"confirm">>) \o <<"podRemove">>
ListRemoteS3 == <<"credentials", "deps", "health", "bucket", "register", "listRemote">>
ListPods == <<"auth", "platform">>
ShowPod == <<"auth", "platform">>
PodVersions == <<"auth", "platform">>
AutoLoad(req, d) ==
  <<"launch">> \o (IF StartRef(req) = NoRef THEN <<>>
                   ELSE IF d.kind = "pod" THEN LoadPod ELSE LoadLocal(req))

AfterParse(req, d) ==
  CASE req.cmd = "save" -> (CASE d.kind = "local" -> SaveLocal [] d.kind = "pod" -> SavePod
                              [] d.kind = "s3" -> SaveRemoteS3)
    [] req.cmd = "load" -> (CASE d.kind = "s3" -> LoadRemoteS3
                              [] d.kind = "pod" /\ req.dryRun -> DiffPod
                              [] d.kind = "pod" /\ ~req.dryRun -> <<"deps">> \o LoadPod
                              [] d.kind = "local" -> <<"deps">> \o LoadLocal(req))
    [] req.cmd = "start" -> AutoLoad(req, d)
    [] req.cmd = "remove" -> RemovePlan(req)
    [] req.cmd = "list" -> IF d.kind = "s3" THEN ListRemoteS3 ELSE ListPods
    [] req.cmd = "show" -> ShowPod
    [] req.cmd = "versions" -> PodVersions
-----------------------------------------------------------------------------
SnapAt(p, step) == snapEnd[p] = "busy" /\ snapPlan[p] # <<>> /\ Head(snapPlan[p]) = step

\* The step is done; the command succeeds with the last one.
SnapProceeds(p) ==
  /\ snapPlan' = [snapPlan EXCEPT ![p] = Tail(@)]
  /\ snapEnd' = [snapEnd EXCEPT ![p] = IF Len(snapPlan[p]) = 1 THEN "ok" ELSE "busy"]

SnapStops(p, why) ==
  /\ snapEnd' = [snapEnd EXCEPT ![p] = why]
  /\ UNCHANGED snapPlan

SnapLocals == <<snapReq, snapDst, snapHost, snapYes, snapFd, snapHeld>>
SnapWorld == <<emu, dir, inodes, pods, bucket>>

ParseRefs(p) ==
  /\ SnapAt(p, "parse")
  /\ LET d == Parsed(snapReq[p])
     IN  /\ snapDst' = [snapDst EXCEPT ![p] = d]
         /\ IF d.kind = "error" THEN SnapStops(p, d.why)
            ELSE /\ snapPlan' = [snapPlan EXCEPT ![p] = AfterParse(snapReq[p], d) \o Tail(@)]
                 /\ UNCHANGED snapEnd
  /\ UNCHANGED <<snapReq, snapHost, snapYes, snapFd, snapHeld, SnapWorld, licensed>>

\* --profile, else the AWS_* variables, else AWS_PROFILE.
HasCredentials(c) ==
  IF c.flag # "" THEN c.flag = "complete"
  ELSE c.env = "complete" \/ c.envProfile = "complete"

ResolveS3Credentials(p) ==
  /\ SnapAt(p, "credentials")
  /\ IF HasCredentials(snapReq[p].credentials) THEN SnapProceeds(p) ELSE SnapStops(p, "credentials")
  /\ UNCHANGED <<SnapLocals, SnapWorld, licensed>>

\* resolveSnapshotDeps: an endpoint URL excludes Docker.
ResolveDeps(p) ==
  /\ SnapAt(p, "deps")
  /\ \/ SnapStops(p, "config") /\ UNCHANGED snapHost
     \/ /\ snapReq[p].endpoint = "error"
        /\ SnapStops(p, "endpoint") /\ UNCHANGED snapHost
     \/ /\ snapReq[p].endpoint # "error"
        /\ SnapProceeds(p)
        /\ snapHost' = [snapHost EXCEPT ![p] =
                          IF snapReq[p].endpoint = "target" THEN "external" ELSE "docker"]
  /\ UNCHANGED <<snapReq, snapDst, snapYes, snapFd, snapHeld, SnapWorld, licensed>>

RequireToken(p) ==
  /\ SnapAt(p, "auth")
  /\ IF snapReq[p].token THEN SnapProceeds(p) ELSE SnapStops(p, "authRequired")
  /\ UNCHANGED <<SnapLocals, SnapWorld, licensed>>

\* A bucket that cannot be checked is only warned about.
EnsureBucketExists(p) ==
  /\ SnapAt(p, "bucket")
  /\ \/ bucket /\ SnapProceeds(p)
     \/ ~bucket /\ SnapStops(p, "noBucket")
     \/ SnapProceeds(p)
  /\ UNCHANGED <<SnapLocals, SnapWorld, licensed>>

CheckHealth(p) ==
  /\ SnapAt(p, "health")
  /\ \/ SnapProceeds(p)
     \/ snapHost[p] = "docker" /\ SnapStops(p, "unhealthy")
  /\ UNCHANGED <<SnapLocals, SnapWorld, licensed>>

\* start, before the snapshot it is to load.
LaunchEmulator(p) ==
  /\ SnapAt(p, "launch")
  /\ \/ SnapProceeds(p) /\ emu' = [emu EXCEPT !["docker"].running = TRUE]
     \/ SnapStops(p, "startFailed") /\ UNCHANGED emu
  /\ UNCHANGED <<SnapLocals, dir, inodes, pods, bucket, licensed>>

\* Only load starts an emulator here, and only one in Docker.
RequireRunning(p) ==
  /\ SnapAt(p, "running")
  /\ \/ /\ snapHost[p] = "external" \/ emu["docker"].running
        /\ SnapProceeds(p)
        /\ UNCHANGED emu
     \/ /\ snapHost[p] = "docker"
        /\ SnapStops(p, "checkFailed")
        /\ UNCHANGED emu
     \/ /\ snapHost[p] = "docker" /\ ~emu["docker"].running
        /\ IF snapReq[p].cmd = "load" /\ ~snapReq[p].dryRun
           THEN \/ SnapProceeds(p) /\ emu' = [emu EXCEPT !["docker"].running = TRUE]
                \/ SnapStops(p, "startFailed") /\ UNCHANGED emu
           ELSE SnapStops(p, "notRunning") /\ UNCHANGED emu
  /\ UNCHANGED <<SnapLocals, dir, inodes, pods, bucket, licensed>>

\* The user may answer no, or leave with Ctrl+C.
ConfirmRemoval(p) ==
  /\ SnapAt(p, "confirm")
  /\ \/ SnapProceeds(p) /\ snapYes' = [snapYes EXCEPT ![p] = TRUE]
     \/ SnapStops(p, "cancelled") /\ UNCHANGED snapYes
  /\ UNCHANGED <<snapReq, snapDst, snapHost, snapFd, snapHeld, SnapWorld, licensed>>
-----------------------------------------------------------------------------
\* Local files.
\* os.Create empties the file that is there, or makes a new one.
CreateFile(p) ==
  LET path == snapDst[p].path
      inode == IF dir[path] = "none" THEN p ELSE dir[path]
  IN  /\ SnapAt(p, "create")
      /\ \/ SnapStops(p, "create") /\ UNCHANGED <<dir, inodes, snapFd>>
         \/ /\ dir[path] # "folder"
            /\ SnapProceeds(p)
            /\ dir' = [dir EXCEPT ![path] = inode]
            /\ inodes' = [inodes EXCEPT ![inode] = Torn]
            /\ snapFd' = [snapFd EXCEPT ![p] = inode]
      /\ UNCHANGED <<snapReq, snapDst, snapHost, snapYes, snapHeld, emu, pods, bucket, licensed>>

\* An s3:// reference of start is opened as if it named a file.
OpenFile(p) ==
  /\ SnapAt(p, "open")
  /\ IF snapDst[p].kind = "local" /\ IsFile(snapDst[p].path)
     THEN SnapProceeds(p) /\ snapFd' = [snapFd EXCEPT ![p] = dir[snapDst[p].path]]
     ELSE SnapStops(p, "open") /\ UNCHANGED snapFd
  /\ UNCHANGED <<snapReq, snapDst, snapHost, snapYes, snapHeld, SnapWorld, licensed>>

\* A failed export removes whatever is at the path by then.
RemoveFile(p) == dir' = [dir EXCEPT ![snapDst[p].path] = IF @ = "folder" THEN @ ELSE "none"]
-----------------------------------------------------------------------------
\* Calls on the emulator. A reply that is not 200 is classified by its
\* status and body; an unlicensed emulator answers 404 with no body, any
\* other error has one.
Calls == {"export", "import", "reset", "register", "podSave", "podLoad", "podRemove",
          "diff", "listRemote"}

IsFeatureUnavailable(r) == r.status = 404 /\ r.body = ""

Classify(call, r) ==
  CASE call \in {"import", "podLoad"} /\ r.status = 422 -> "incompatible"
    [] call \in {"diff", "podLoad"} /\ r.body = "maximum version available" -> "podVersionNotFound"
    [] call = "diff" /\ r.body = "version information" -> "podNotFound"
    [] call = "podRemove" /\ r.body = "not found" -> "podNotFound"
    [] IsFeatureUnavailable(r) -> "featureUnavailable"
    [] OTHER -> "status"

Store(p) == IF snapDst[p].kind = "s3" THEN "bucket" ELSE "platform"
Versions(p) == pods[Store(p)][snapDst[p].pod]
Live(versions) == {v \in DOMAIN versions : ~versions[v].deleted}
Wanted(p) == IF snapDst[p].version = 0 THEN Live(Versions(p))
             ELSE Live(Versions(p)) \cap {snapDst[p].version}

\* What the emulator may answer instead of 200.
ErrorReplies(p, call) ==
  IF ~licensed THEN {[status |-> 404, body |-> ""]}
  ELSE {[status |-> 500, body |-> "error"], [status |-> 404, body |-> "error"]}
       \cup (IF call \in {"import", "podLoad"} THEN {[status |-> 422, body |-> "error"]} ELSE {})
       \cup (IF call \in {"diff", "podLoad"} /\ Wanted(p) = {}
             THEN {[status |-> 500, body |-> IF Live(Versions(p)) = {} THEN "version information"
                                              ELSE "maximum version available"]}
             ELSE {})
       \cup (IF call = "podRemove" /\ Versions(p) = <<>>
             THEN {[status |-> 404, body |-> "not found"]} ELSE {})

CallFails(p) ==
  /\ \E call \in Calls :
       /\ SnapAt(p, call)
       /\ \/ ~emu[snapHost[p]].running /\ SnapStops(p, "connect")
          \/ /\ emu[snapHost[p]].running
             /\ \E r \in ErrorReplies(p, call) : SnapStops(p, Classify(call, r))
  /\ IF SnapAt(p, "export") THEN RemoveFile(p) ELSE UNCHANGED dir
  /\ UNCHANGED <<SnapLocals, emu, inodes, pods, bucket, licensed>>

Answered(p, call) == SnapAt(p, call) /\ emu[snapHost[p]].running /\ licensed
Held(p) == emu[snapHost[p]].items

\* The stream may break, or the file not close: the second leaves it there.
ExportState(p) ==
  /\ Answered(p, "export")
  /\ \/ /\ SnapProceeds(p)
        /\ inodes' = [inodes EXCEPT ![snapFd[p]] = Archive(Held(p))]
        /\ snapHeld' = [snapHeld EXCEPT ![p] = Held(p)]
        /\ UNCHANGED dir
     \/ /\ SnapStops(p, "stream")
        /\ RemoveFile(p)
        /\ UNCHANGED <<inodes, snapHeld>>
     \/ /\ SnapStops(p, "close")
        /\ inodes' = [inodes EXCEPT ![snapFd[p]] = Torn]
        /\ UNCHANGED <<dir, snapHeld>>
  /\ UNCHANGED <<snapReq, snapDst, snapHost, snapYes, snapFd, emu, pods, bucket, licensed>>

\* What the emulator holds after a load: on an overlap the snapshot wins.
Merged(held, items, strategy) ==
  CASE strategy = "overwrite" -> {items}
    [] strategy = "service-merge" -> {held \cup items}
    [] OTHER -> {items \cup rest : rest \in SUBSET held}

\* An event of the stream may report an error, after some services loaded;
\* a stream that ends early is no error.
LoadStream(p, items, strategy) ==
  \/ /\ SnapProceeds(p)
     /\ \E held \in Merged(Held(p), items, strategy) :
          emu' = [emu EXCEPT ![snapHost[p]].items = held]
  \/ /\ SnapProceeds(p) \/ SnapStops(p, "service")
     /\ \E part \in SUBSET items : emu' = [emu EXCEPT ![snapHost[p]].items = @ \cup part]

ImportState(p) ==
  /\ Answered(p, "import")
  /\ LET file == inodes[snapFd[p]]
     IN  IF file.whole THEN LoadStream(p, file.items, IF MergeStrategy(snapReq[p]) = "overwrite"
                                                      THEN "" ELSE MergeStrategy(snapReq[p]))
         ELSE SnapStops(p, "invalidSnapshotFile") /\ UNCHANGED emu
  /\ UNCHANGED <<SnapLocals, dir, inodes, pods, bucket, licensed>>

ResetState(p) ==
  /\ Answered(p, "reset")
  /\ SnapProceeds(p)
  /\ emu' = [emu EXCEPT ![snapHost[p]].items = {}]
  /\ UNCHANGED <<SnapLocals, dir, inodes, pods, bucket, licensed>>

\* Registering a remote replaces the same entry; nothing else is read of it.
ReadsOnly(p) == SnapProceeds(p) /\ UNCHANGED <<SnapLocals, SnapWorld, licensed>>
RegisterRemote(p) == Answered(p, "register") /\ ReadsOnly(p)
ListPodsRemote(p) == Answered(p, "listRemote") /\ ReadsOnly(p)
DiffPodSnapshot(p) == Answered(p, "diff") /\ Wanted(p) # {} /\ ReadsOnly(p)

\* Saved only with a completion event; the emulator makes a missing bucket.
PodSave(p) ==
  /\ Answered(p, "podSave")
  /\ Len(Versions(p)) < MaxVersions
  /\ \/ SnapProceeds(p) /\ snapHeld' = [snapHeld EXCEPT ![p] = Held(p)]
     \/ SnapStops(p, "noCompletion") /\ UNCHANGED snapHeld
  /\ pods' = [pods EXCEPT ![Store(p)][snapDst[p].pod] =
                 Append(@, [items |-> Held(p), deleted |-> FALSE])]
  /\ bucket' = (bucket \/ Store(p) = "bucket")
  /\ UNCHANGED <<snapReq, snapDst, snapHost, snapYes, snapFd, emu, dir, inodes, licensed>>

PodSaveFails(p) ==
  /\ Answered(p, "podSave")
  /\ SnapStops(p, "podSave") \/ SnapStops(p, "noCompletion")
  /\ UNCHANGED <<SnapLocals, SnapWorld, licensed>>

\* The latest live version, or the one asked for.
PodLoad(p) ==
  /\ Answered(p, "podLoad")
  /\ IF Wanted(p) = {}
     THEN /\ SnapStops(p, IF Live(Versions(p)) = {} THEN "podNotFound" ELSE "podVersionNotFound")
          /\ UNCHANGED emu
     ELSE LET v == CHOOSE v \in Wanted(p) : \A w \in Wanted(p) : w <= v
          IN  LoadStream(p, Versions(p)[v].items, MergeStrategy(snapReq[p]))
  /\ UNCHANGED <<SnapLocals, dir, inodes, pods, bucket, licensed>>

PodRemove(p) ==
  /\ Answered(p, "podRemove")
  /\ Versions(p) # <<>>
  /\ SnapProceeds(p)
  /\ pods' = [pods EXCEPT !["platform"][snapDst[p].pod] = <<>>]
  /\ UNCHANGED <<SnapLocals, emu, dir, inodes, bucket, licensed>>
-----------------------------------------------------------------------------
\* list, show and versions ask the platform, never an emulator. 404 is a
\* missing pod, 403 a plan without snapshots; a version may be missing.
PlatformReply(p) ==
  CASE snapReq[p].cmd # "list" /\ Versions(p) = <<>> -> "podNotFound"
    [] (snapReq[p].cmd = "list" \/ Versions(p) # <<>>) /\ ~licensed -> "featureUnavailable"
    [] snapReq[p].cmd = "show" /\ Versions(p) # <<>> /\ licensed /\ snapDst[p].version # 0
         /\ Wanted(p) = {} -> "podVersionNotFound"
    [] OTHER -> "ok"

PlatformCall(p) ==
  /\ SnapAt(p, "platform")
  /\ IF PlatformReply(p) = "ok" THEN SnapProceeds(p) \/ SnapStops(p, "status")
     ELSE SnapStops(p, PlatformReply(p))
  /\ UNCHANGED <<SnapLocals, SnapWorld, licensed>>
-----------------------------------------------------------------------------
\* What else happens: the user's application, a stop, a command killed.
Deploy(h) ==
  /\ emu[h].running
  /\ \E i \in Items \ emu[h].items : emu' = [emu EXCEPT ![h].items = @ \cup {i}]
  /\ UNCHANGED <<snapReq, snapPlan, snapDst, snapHost, snapYes, snapFd, snapHeld, snapEnd,
                 dir, inodes, pods, bucket, licensed>>

EmulatorStops(h) ==
  /\ emu[h].running
  /\ emu' = [emu EXCEPT ![h] = [running |-> FALSE, items |-> {}]]
  /\ UNCHANGED <<snapReq, snapPlan, snapDst, snapHost, snapYes, snapFd, snapHeld, snapEnd,
                 dir, inodes, pods, bucket, licensed>>

SnapKilled(p) ==
  /\ snapEnd[p] = "busy"
  /\ SnapStops(p, "killed")
  /\ UNCHANGED <<SnapLocals, SnapWorld, licensed>>

SnapStep(p) ==
  \/ ParseRefs(p) \/ ResolveS3Credentials(p) \/ ResolveDeps(p) \/ RequireToken(p)
  \/ EnsureBucketExists(p) \/ CheckHealth(p) \/ LaunchEmulator(p) \/ RequireRunning(p)
  \/ ConfirmRemoval(p) \/ CreateFile(p) \/ OpenFile(p) \/ CallFails(p)
  \/ ExportState(p) \/ ImportState(p) \/ ResetState(p)
  \/ RegisterRemote(p) \/ ListPodsRemote(p) \/ DiffPodSnapshot(p)
  \/ PodSave(p) \/ PodSaveFails(p) \/ PodLoad(p) \/ PodRemove(p) \/ PlatformCall(p)
  \/ SnapKilled(p)

NoVersions == [s \in Stores |-> [n \in PodNames |-> <<>>]]

\* A snapshot of an earlier session may be in the directory and a pod on the
\* platform, its first version deleted since.
SnapInit ==
  /\ snapReq \in [SnapProcs -> SnapRequests]
  /\ snapPlan = [p \in SnapProcs |-> Opening(snapReq[p])]
  /\ snapDst = [p \in SnapProcs |-> BadRef("")]
  /\ snapHost = [p \in SnapProcs |-> "docker"]
  /\ snapYes = [p \in SnapProcs |-> FALSE]
  /\ snapFd = [p \in SnapProcs |-> "none"]
  /\ snapHeld = [p \in SnapProcs |-> {}]
  /\ snapEnd = [p \in SnapProcs |-> "busy"]
  /\ emu \in [Hosts -> {[running |-> TRUE, items |-> {}], [running |-> FALSE, items |-> {}]}]
  /\ \E there \in {"none", "folder", "earlier"}, ext \in {"", "snapshot", "zip"} :
       dir = [path \in Paths |-> IF path = [base |-> "state", ext |-> ext] THEN there ELSE "none"]
  /\ inodes = [i \in SnapProcs \cup {"earlier"} |-> IF i = "earlier" THEN Archive({}) ELSE Torn]
  /\ \E versions \in {<<>>, <<[items |-> Items, deleted |-> TRUE],
                             [items |-> {}, deleted |-> FALSE]>>} :
       pods = [NoVersions EXCEPT !["platform"]["pod"] = versions]
  /\ bucket \in BOOLEAN
  /\ licensed \in BOOLEAN

SnapNext ==
  \/ \E p \in SnapProcs : SnapStep(p)
  \/ \E h \in Hosts : Deploy(h) \/ EmulatorStops(h)

SnapSpec == SnapInit /\ [][SnapNext]_snapVars

SnapTypeOK ==
  /\ snapReq \in [SnapProcs -> SnapRequests]
  /\ snapHost \in [SnapProcs -> Hosts]
  /\ snapYes \in [SnapProcs -> BOOLEAN]
  /\ snapFd \in [SnapProcs -> SnapProcs \cup {"none", "earlier"}]
  /\ snapHeld \in [SnapProcs -> SUBSET Items]
  /\ emu \in [Hosts -> [running : BOOLEAN, items : SUBSET Items]]
  /\ dir \in [Paths -> SnapProcs \cup {"none", "folder", "earlier"}]
  /\ inodes \in [SnapProcs \cup {"earlier"} -> [whole : BOOLEAN, items : SUBSET Items]]
  /\ pods \in [Stores -> [PodNames -> Seq([items : SUBSET Items, deleted : BOOLEAN])]]
  /\ bucket \in BOOLEAN /\ licensed \in BOOLEAN
-----------------------------------------------------------------------------
\* A pod disappears from the platform only by a remove of an unversioned
\* pod: reference to it, agreed to at the prompt or by --force.
RemovalConfirmed ==
  [][\A n \in PodNames :
       pods["platform"][n] # <<>> /\ pods'["platform"][n] = <<>> =>
         \E p \in SnapProcs :
           /\ snapReq[p].cmd = "remove" /\ (snapYes[p] \/ snapReq[p].force)
           /\ snapReq[p].args[1].form = "pod" /\ snapReq[p].args[1].name = n
           /\ snapReq[p].args[1].version = 0]_snapVars

\* What an emulator holds shrinks only by a stop or by a load of a command
\* that does not merge service by service and is no preview of a pod.
StateLostOnlyByLoad ==
  [][\A h \in Hosts :
       ~(emu[h].items \subseteq emu'[h].items) =>
         \/ ~emu'[h].running
         \/ \E p \in SnapProcs :
              /\ snapReq[p].cmd \in {"load", "start"} /\ snapHost[p] = h /\ snapEnd[p] = "busy"
              /\ MergeStrategy(snapReq[p]) # "service-merge"
              /\ snapReq[p].dryRun => IsRemote(snapReq[p])]_snapVars

\* Whether another command or an ended one is about to write p's file.
SoleWriter(p) ==
  \A q \in SnapProcs \ {p} : snapReq[q].cmd = "save" => snapDst[q].path # snapDst[p].path

\* A local save that ended well is found under the path the user gave it, if
\* any, with all it reported, unless that very path is a file of its own (or
\* had an extension that save replaces).
SavedIsFound ==
  \A p \in SnapProcs :
    snapReq[p].cmd = "save" /\ snapEnd[p] = "ok" /\ snapDst[p].kind = "local" /\ SoleWriter(p) =>
      /\ IsFile(snapDst[p].path) /\ inodes[dir[snapDst[p].path]] = Archive(snapHeld[p])
      /\ \A r \in {snapReq[p].args[i] : i \in DOMAIN snapReq[p].args} :
           r.form = "path" /\ r.path.ext # "zip" /\ ~IsFile([r.path EXCEPT !.ext = ""]) =>
             ParseSource(r) = Local(snapDst[p].path)

\* --dry-run: Preview what would change without modifying state.
DryRunChangesNothing ==
  [][\A p \in SnapProcs :
       snapReq[p].dryRun /\ (PodLoad(p) \/ ImportState(p) \/ ResetState(p)) => UNCHANGED SnapWorld]_snapVars
=============================================================================
