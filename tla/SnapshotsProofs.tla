-------------------------- MODULE SnapshotsProofs --------------------------
(***************************************************************************)
(* RemovalConfirmed, StateLostOnlyByLoad and SavedIsFound, proved for any  *)
(* number of snapshot commands, whatever their arguments. What may still   *)
(* happen is read off the steps a command has left: a removal comes right  *)
(* after its prompt, only a load that is no preview has a load ahead of    *)
(* it, and only a save to a file writes one.                               *)
(*                                                                         *)
(* SnapTypeOK: what a plan names is there to be named, because parsing     *)
(* places a path under a folder there can be (Placed), and a version is    *)
(* asked for only when it was parsed or found (Supplied).                  *)
(***************************************************************************)
EXTENDS Snapshots, WellFoundedInduction, TLAPS

\* The destinations' kinds and what they carry. (snapshot/destination.go)
LEMMA Makers ==
  /\ \A e : BadRef(e).kind = "error"
  /\ \A n, v : Pod(n, v).kind = "pod" /\ Pod(n, v).pod = n /\ Pod(n, v).version = v
  /\ \A path : Local(path).kind = "local"
  /\ \A n : S3(n).kind = "s3"
BY Zenon DEF BadRef, Pod, Local, S3

DestKinds == {"error", "pod", "local", "s3"}

\* A source of kind pod was a pod: reference, with that name and version.
LEMMA PodRefs ==
  ASSUME NEW r, NEW allow \in BOOLEAN
  PROVE  LET d == ParsePodRef(r, allow)
         IN  \/ d.kind = "error"
             \/ d.kind = "pod" /\ d.pod = r.name /\ d.version = r.version /\ (d.version = 0 \/ allow)
<1>1. CASE r.version = BadVersion
  BY <1>1, Makers, Zenon DEF ParsePodRef
<1>2. CASE r.version # BadVersion /\ ~r.ok
  BY <1>2, Makers, Zenon DEF ParsePodRef
<1>3. CASE r.version # BadVersion /\ r.ok /\ r.version # 0 /\ ~allow
  BY <1>3, Makers, Zenon DEF ParsePodRef
<1>4. CASE r.version # BadVersion /\ r.ok /\ (r.version = 0 \/ allow)
  BY <1>4, Makers, Zenon DEF ParsePodRef
<1> QED BY <1>1, <1>2, <1>3, <1>4, Zenon

\* What a source is parsed to; a source of kind s3 was an s3:// reference.
LEMMA SourceShape ==
  ASSUME NEW r \in Refs
  PROVE  /\ ParseSource(r).kind \in DestKinds
         /\ ParseSource(r).kind = "pod" =>
              r.form = "pod" /\ ParseSource(r).pod = r.name /\ ParseSource(r).version = r.version
         /\ ParseSource(r).kind = "s3" => r.form = "s3"
         /\ ParseSource(r).kind = "local" => r.form = "path"
<1>0. r.form \in {"empty", "pod", "s3", "path", "pod://", "oras", "scheme"}
  BY Zenon DEF Refs
<1>1. CASE r.form = "pod"
  <2>1. ParseSource(r) = ParsePodRef(r, TRUE)
    BY <1>1, Zenon DEF ParseSource
  <2> QED BY <1>1, <2>1, PodRefs, Zenon DEF DestKinds
<1>2. CASE r.form = "s3"
  <2>1. ParseSource(r) = S3("") \/ ParseSource(r) = BadRef("s3Url")
    BY <1>2, Zenon DEF ParseSource, ParseS3
  <2> QED BY <1>2, <2>1, Makers, Zenon DEF DestKinds
<1>3. CASE r.form = "path"
  <2>1. ParseSource(r) = ResolveSourcePath(r.path)
    BY <1>3, Zenon DEF ParseSource
  <2>2. (\E path : ResolveSourcePath(r.path) = Local(path)) \/ (\E e : ResolveSourcePath(r.path) = BadRef(e))
    BY Zenon DEF ResolveSourcePath
  <2>3. ParseSource(r).kind = "local" \/ ParseSource(r).kind = "error"
    BY <2>1, <2>2, Makers, Zenon
  <2> QED BY <1>3, <2>3, Zenon DEF DestKinds
<1>4. CASE r.form \notin {"pod", "s3", "path"}
  <2>1. ParseSource(r) = BadRef("refRequired") \/ ParseSource(r) = BadRef(RefusedForm(r))
    BY <1>4, Zenon DEF ParseSource
  <2> QED BY <2>1, Makers, Zenon DEF DestKinds
<1> QED BY <1>1, <1>2, <1>3, <1>4, Zenon

\* remove, show and versions: nothing but pods.
LEMMA CloudOnly ==
  ASSUME NEW r \in Refs, NEW allow \in BOOLEAN
  PROVE  LET d == ParseCloudOnly(r, allow)
         IN  \/ d.kind = "error"
             \/ d.kind = "pod" /\ r.form = "pod" /\ d.pod = r.name /\ d.version = r.version
                  /\ (d.version = 0 \/ allow)
<1> DEFINE s == ParseSource(r)
<1>1. CASE r.form \in {"empty", "path"}
  BY <1>1, Makers, Zenon DEF ParseCloudOnly
<1>2. CASE r.form \notin {"empty", "path"} /\ s.kind = "s3"
  BY <1>2, Makers, Zenon DEF ParseCloudOnly
<1>3. CASE r.form \notin {"empty", "path"} /\ s.kind # "s3" /\ s.version # 0 /\ ~allow
  BY <1>3, Makers, Zenon DEF ParseCloudOnly
<1>4. CASE r.form \notin {"empty", "path"} /\ s.kind # "s3" /\ (s.version = 0 \/ allow)
  <2>1. ParseCloudOnly(r, allow) = s
    BY <1>4, Zenon DEF ParseCloudOnly
  <2> QED BY <1>4, <2>1, SourceShape, Zenon DEF DestKinds
<1> QED BY <1>1, <1>2, <1>3, <1>4, Zenon

\* An s3:// location and what is beside it.
LEMMA Args ==
  ASSUME NEW req
  PROVE  ClassifyArgs(req).kind \in {"error", "s3"}
<1> DEFINE pod == FirstOf(req.args, OtherArgs(req.args))
<1>1. \A r : RemotePodName(r).kind \in {"error", "s3"}
  <2> SUFFICES ASSUME NEW r PROVE RemotePodName(r).kind \in {"error", "s3"}
    OBVIOUS
  <2>1. CASE r.form # "path" \/ r.version = BadVersion
    BY <2>1, Makers, Zenon DEF RemotePodName
  <2>2. CASE r.form = "path" /\ r.version \notin {0, BadVersion}
    BY <2>2, Makers, Zenon DEF RemotePodName
  <2>3. CASE r.form = "path" /\ r.version # BadVersion /\ r.version = 0 /\ ~r.ok
    BY <2>3, Makers, Zenon DEF RemotePodName
  <2>4. CASE r.form = "path" /\ r.version # BadVersion /\ r.version = 0 /\ r.ok
    BY <2>4, Makers, Zenon DEF RemotePodName
  <2> QED BY <2>1, <2>2, <2>3, <2>4, Zenon
<1>2. \A r : ParseS3(r).kind \in {"error", "s3"}
  BY Makers, Zenon DEF ParseS3
<1>3. CASE (\E i, j \in S3Args(req.args) : i # j) \/ (\E i, j \in OtherArgs(req.args) : i # j)
  BY <1>3, Makers, Zenon DEF ClassifyArgs
<1>4. CASE ~(\E i, j \in S3Args(req.args) : i # j) /\ ~(\E i, j \in OtherArgs(req.args) : i # j)
  <2>1. CASE req.cmd = "load" /\ pod = NoRef
    BY <1>4, <2>1, Makers, Zenon DEF ClassifyArgs
  <2>2. CASE req.cmd = "load" /\ pod # NoRef /\ RemotePodName(pod).kind = "error"
    BY <1>4, <2>2, Makers, Zenon DEF ClassifyArgs
  <2>3. CASE ~(req.cmd = "load" /\ (pod = NoRef \/ RemotePodName(pod).kind = "error"))
    <3> DEFINE url == ParseS3(FirstOf(req.args, S3Args(req.args)))
    <3>1. CASE url.kind = "error"
      <4>1. ClassifyArgs(req) = url
        BY <1>4, <2>3, <3>1, Zenon DEF ClassifyArgs
      <4> QED BY <3>1, <4>1, Zenon
    <3>2. CASE url.kind # "error" /\ pod = NoRef
      BY <1>4, <2>3, <3>2, Makers, Zenon DEF ClassifyArgs
    <3>3. CASE url.kind # "error" /\ pod # NoRef
      BY <1>1, <1>4, <2>3, <3>3, Zenon DEF ClassifyArgs
    <3> QED BY <3>1, <3>2, <3>3, Zenon
  <2> QED BY <2>1, <2>2, <2>3, Zenon
<1> QED BY <1>3, <1>4, Zenon

\* A first argument is a reference, and an s3:// one makes the command remote.
LEMMA FirstArgs ==
  ASSUME NEW req \in SnapRequests
  PROVE  /\ FirstArg(req) \in Refs
         /\ req.args # <<>> => FirstArg(req) = req.args[1] /\ 1 \in DOMAIN req.args
         /\ FirstArg(req).form # "empty" => req.args # <<>>
         /\ FirstArg(req).form = "s3" /\ req.cmd \in {"save", "load", "list"} => IsRemote(req)
<1>1. req.args \in Seq(Refs)
  BY SnapRequestsOK, Zenon
<1>2. req.args # <<>> => 1 \in DOMAIN req.args /\ req.args[1] \in Refs
  BY <1>1
<1>3. NoRef.form = "empty"
  BY Zenon DEF NoRef
<1>4. NoRef \in Refs
  <2>1. NoPath \in Paths
    BY Zenon DEF NoPath, Paths, Bases
  <2>2. 0 \in 0..BadVersion
    BY SnapConstants DEF BadVersion
  <2> QED BY <2>1, <2>2, Zenon DEF NoRef, Refs
<1>5. CASE req.args = <<>>
  BY <1>3, <1>4, <1>5, Zenon DEF FirstArg
<1>6. CASE req.args # <<>>
  <2>1. FirstArg(req) = req.args[1]
    BY <1>6, Zenon DEF FirstArg
  <2>2. req.args[1].form = "s3" => 1 \in S3Args(req.args)
    BY <1>2, <1>6, Zenon DEF S3Args
  <2> QED BY <1>2, <1>6, <2>1, <2>2, Zenon DEF IsRemote
<1> QED BY <1>5, <1>6, Zenon

\* What the command line of each command is parsed to. (cmd/snapshot.go)
LEMMA ParsedSaves ==
  ASSUME NEW req \in SnapRequests, req.cmd = "save"
  PROVE  Parsed(req).kind \in DestKinds
<1> DEFINE r == FirstArg(req)
<1>1. Parsed(req).kind = "error" \/ Parsed(req) = ParsedSave(req)
  BY Makers, Zenon DEF Parsed
<1>2. ParsedSave(req).kind = "error" \/ ParsedSave(req) = ClassifyArgs(req) \/ ParsedSave(req) = ParseDestination(r)
  BY Makers, Zenon DEF ParsedSave
<1>3. ParseDestination(r).kind \in DestKinds
  <2>0. r \in Refs
    BY FirstArgs, Zenon
  <2>1. CASE r.form = "pod"
    <3>1. ParseDestination(r) = ParsePodRef(r, FALSE)
      BY <2>1, Zenon DEF ParseDestination
    <3> QED BY <3>1, PodRefs, Zenon DEF DestKinds
  <2>2. CASE r.form = "s3"
    <3>1. ParseDestination(r) = S3("") \/ ParseDestination(r) = BadRef("s3Url")
      BY <2>2, Zenon DEF ParseDestination, ParseS3
    <3> QED BY <3>1, Makers, Zenon DEF DestKinds
  <2>3. CASE r.form \in {"empty", "path"}
    <3>1. ParseDestination(r) = IF ~r.ok THEN BadRef("parent")
                                ELSE IF dir[r.path] = "folder" THEN BadRef("directory")
                                ELSE Local(WithSnapshotExt(r.path))
      BY <2>3, Zenon DEF ParseDestination
    <3>2. ParseDestination(r).kind = "error" \/ ParseDestination(r).kind = "local"
      BY <3>1, Makers, Zenon
    <3> QED BY <3>2, Zenon DEF DestKinds
  <2>4. CASE r.form \notin {"pod", "s3", "empty", "path"}
    <3>1. ParseDestination(r) = BadRef(RefusedForm(r))
      BY <2>4, Zenon DEF ParseDestination
    <3> QED BY <3>1, Makers, Zenon DEF DestKinds
  <2> QED BY <2>1, <2>2, <2>3, <2>4, Zenon
<1> HIDE DEF r
<1> QED BY <1>1, <1>2, <1>3, Args, Zenon DEF DestKinds

\* A load of a file is no preview; an s3:// one is remote. (cmd/snapshot.go)
LEMMA ParsedLoads ==
  ASSUME NEW req \in SnapRequests, req.cmd = "load"
  PROVE  LET d == Parsed(req)
         IN  /\ d.kind \in DestKinds
             /\ d.kind = "s3" => IsRemote(req)
             /\ d.kind = "local" => ~req.dryRun
<1> DEFINE r == FirstArg(req)
           s == ParseSource(r)
<1>1. Parsed(req).kind = "error" \/ Parsed(req) = ParsedLoad(req)
  BY Makers, Zenon DEF Parsed
<1>2. s.kind \in DestKinds /\ (s.kind = "s3" => r.form = "s3")
  BY FirstArgs, SourceShape, Zenon
<1>3. r.form = "s3" => IsRemote(req)
  BY FirstArgs, Zenon
<1>4. CASE MergeStrategy(req) \notin Strategies
  <2>1. ParsedLoad(req).kind = "error"
    BY <1>4, Makers, Zenon DEF ParsedLoad
  <2> QED BY <1>1, <2>1, Zenon DEF DestKinds
<1>5. CASE MergeStrategy(req) \in Strategies /\ IsRemote(req)
  <2>1. ParsedLoad(req) = ClassifyArgs(req)
    BY <1>5, Zenon DEF ParsedLoad
  <2>2. ParsedLoad(req).kind = "error" \/ ParsedLoad(req).kind = "s3"
    BY <2>1, Args, Zenon
  <2> QED BY <1>1, <1>5, <2>2, Zenon DEF DestKinds
<1>6. CASE MergeStrategy(req) \in Strategies /\ ~IsRemote(req)
  <2>1. ParsedLoad(req) = IF req.dryRun /\ s.kind = "local" THEN BadRef("dryRunPodOnly") ELSE s
    BY <1>6, Zenon DEF ParsedLoad
  <2> HIDE DEF r, s
  <2>2. CASE req.dryRun /\ s.kind = "local"
    <3>1. ParsedLoad(req).kind = "error"
      BY <2>1, <2>2, Makers, Zenon
    <3> QED BY <1>1, <3>1, Zenon DEF DestKinds
  <2>3. CASE ~(req.dryRun /\ s.kind = "local")
    <3>1. ParsedLoad(req) = s
      BY <2>1, <2>3, Zenon
    <3>2. CASE Parsed(req).kind = "error"
      BY <3>2, Zenon DEF DestKinds
    <3>3. CASE Parsed(req) = s
      BY <1>2, <1>3, <2>3, <3>3, Zenon
    <3> QED BY <1>1, <3>1, <3>2, <3>3, Zenon
  <2> QED BY <2>2, <2>3, Zenon
<1> QED BY <1>4, <1>5, <1>6, Zenon

\* A remove names one pod, without a version. (cmd/snapshot.go)
LEMMA ParsedRemoves ==
  ASSUME NEW req \in SnapRequests, req.cmd = "remove", Parsed(req).kind # "error"
  PROVE  /\ Parsed(req).kind = "pod" /\ Parsed(req).pod = req.args[1].name
         /\ req.args[1].form = "pod" /\ req.args[1].version = 0
<1> DEFINE r == FirstArg(req)
           d == ParseCloudOnly(r, FALSE)
<1>1. Parsed(req) = ParsedRemove(req)
  BY Makers, Zenon DEF Parsed
<1>2. Parsed(req) = d
  BY <1>1, Makers, Zenon DEF ParsedRemove
<1>3. d.kind = "pod" /\ r.form = "pod" /\ d.pod = r.name /\ d.version = r.version /\ d.version = 0
  BY <1>2, FirstArgs, CloudOnly, Zenon
<1>4. r = req.args[1]
  BY <1>3, FirstArgs, Zenon
<1> HIDE DEF r, d
<1> QED BY <1>2, <1>3, <1>4, Zenon

-----------------------------------------------------------------------------
StepNames ==
  {"parse", "deps", "credentials", "auth", "bucket", "health", "running", "launch", "confirm", "create",
   "open", "platform", "export", "import", "reset", "register", "podSave", "podLoad", "podRemove", "diff",
   "listRemote"}

\* What step i of the steps a command has left may be, given its request, its
\* destination and whether the user agreed.
Loading(req) == req.cmd \in {"load", "start"} /\ (req.dryRun => IsRemote(req))
RemovesNamed(req, d) ==
  /\ req.cmd = "remove" /\ d.pod = req.args[1].name
  /\ req.args[1].form = "pod" /\ req.args[1].version = 0
StepOK(plan, i, req, d, yes) ==
  /\ plan[i] = "parse" => i = Len(plan)
  /\ plan[i] = "podRemove" =>
       RemovesNamed(req, d) /\ (yes \/ req.force \/ (i > 1 /\ plan[i - 1] = "confirm"))
  /\ plan[i] \in {"reset", "import", "podLoad"} => Loading(req)
  /\ plan[i] = "reset" => MergeStrategy(req) = "overwrite"
PlanOK(plan, req, d, yes) ==
  plan \in Seq(StepNames) /\ \A i \in 1..Len(plan) : StepOK(plan, i, req, d, yes)

\* Steps that ask for nothing can be put in front.
Plainly(s) ==
  s \in Seq(StepNames) /\ \A i \in 1..Len(s) : s[i] \notin {"parse", "podRemove", "reset", "import", "podLoad"}
\* Plain steps promise nothing.
LEMMA PlainPlans ==
  ASSUME NEW s, Plainly(s), NEW req, NEW d, NEW yes
  PROVE  PlanOK(s, req, d, yes)
BY DEF Plainly, PlanOK, StepOK

\* Without its first step, which if it was the prompt was answered.
LEMMA PlanTail ==
  ASSUME NEW plan, plan # <<>>, NEW req, NEW d, NEW yes \in BOOLEAN, NEW yet \in BOOLEAN,
         PlanOK(plan, req, d, yes), yes => yet, plan[1] = "confirm" => yet
  PROVE  PlanOK(Tail(plan), req, d, yet)
<1>1. /\ Tail(plan) \in Seq(StepNames) /\ Len(Tail(plan)) = Len(plan) - 1 /\ Len(plan) \in Nat
      /\ \A i \in 1..Len(Tail(plan)) : Tail(plan)[i] = plan[i + 1] /\ i + 1 \in 1..Len(plan)
  BY DEF PlanOK
<1>2. ASSUME NEW i \in 1..Len(Tail(plan)) PROVE StepOK(Tail(plan), i, req, d, yet)
  <2>1. StepOK(plan, i + 1, req, d, yes) /\ Tail(plan)[i] = plan[i + 1]
    BY <1>1 DEF PlanOK
  <2>2. Tail(plan)[i] = "parse" => i = Len(Tail(plan))
    <3>1. plan[i + 1] = "parse" => i + 1 = Len(plan)
      BY <2>1, Zenon DEF StepOK
    <3>2. i + 1 = Len(plan) => i = Len(Tail(plan))
      <4>1. \A j, n \in Nat : j + 1 = n => j = n - 1
        OBVIOUS
      <4>2. i \in Nat /\ Len(plan) \in Nat /\ Len(Tail(plan)) = Len(plan) - 1
        BY <1>1
      <4> QED BY <4>1, <4>2, Zenon
    <3> QED BY <2>1, <3>1, <3>2, Zenon
  <2>3. Tail(plan)[i] = "podRemove" =>
          yet \/ req.force \/ (i > 1 /\ Tail(plan)[i - 1] = "confirm")
    <3>1. CASE i = 1
      BY <2>1, <3>1 DEF StepOK
    <3>2. CASE i > 1
      <4>1. Tail(plan)[i - 1] = plan[i]
        BY <1>1, <3>2
      <4> QED BY <2>1, <3>2, <4>1 DEF StepOK
    <3> QED BY <3>1, <3>2
  <2> QED BY <2>1, <2>2, <2>3, Zenon DEF StepOK
<1> QED BY <1>1, <1>2 DEF PlanOK

\* Steps after steps; what must be last, or first, stays so.
Later(s, req, d, yes) == PlanOK(s, req, d, yes) /\ \A i \in 1..Len(s) : s[i] # "parse"
\* The elements of a concatenation.
LEMMA Joined ==
  ASSUME NEW s \in Seq(StepNames), NEW t \in Seq(StepNames)
  PROVE  /\ s \o t \in Seq(StepNames) /\ Len(s \o t) = Len(s) + Len(t)
         /\ \A i \in 1..Len(s) : (s \o t)[i] = s[i]
         /\ \A i \in 1..Len(t) : (s \o t)[Len(s) + i] = t[i]
         /\ \A i \in 1..Len(s \o t) : i \in 1..Len(s) \/ i - Len(s) \in 1..Len(t)
OBVIOUS

\* The steps the plans are put together from.
LEMMA LiteralSteps ==
  /\ Plainly(<<>>) /\ Plainly(<<"deps">>) /\ Plainly(<<"confirm">>) /\ Plainly(<<"launch">>)
  /\ Plainly(<<"health", "running">>) /\ Plainly(<<"auth", "health", "running">>)
<1>1. Plainly(<<>>)
  BY DEF Plainly, StepNames
<1>2. Plainly(<<"deps">>)
  BY DEF Plainly, StepNames
<1>3. Plainly(<<"confirm">>)
  BY DEF Plainly, StepNames
<1>4. Plainly(<<"launch">>)
  BY DEF Plainly, StepNames
<1>5. Plainly(<<"health", "running">>)
  BY DEF Plainly, StepNames
<1>6. Plainly(<<"auth", "health", "running">>)
  BY DEF Plainly, StepNames
<1> QED BY <1>1, <1>2, <1>3, <1>4, <1>5, <1>6

\* The plans that neither load, reset nor remove.
LEMMA OtherPlans ==
  /\ Plainly(SaveLocal) /\ Plainly(SavePod) /\ Plainly(SaveRemoteS3) /\ Plainly(DiffPod)
  /\ Plainly(ListRemoteS3) /\ Plainly(ListPods) /\ Plainly(ShowPod) /\ Plainly(PodVersions)
<1>1. Plainly(SaveLocal)
  BY DEF Plainly, StepNames, SaveLocal
<1>2. Plainly(SavePod)
  BY DEF Plainly, StepNames, SavePod
<1>3. Plainly(SaveRemoteS3)
  BY DEF Plainly, StepNames, SaveRemoteS3
<1>4. Plainly(DiffPod)
  BY DEF Plainly, StepNames, DiffPod
<1>5. Plainly(ListRemoteS3)
  BY DEF Plainly, StepNames, ListRemoteS3
<1>6. Plainly(ListPods) /\ Plainly(ShowPod) /\ Plainly(PodVersions)
  BY DEF Plainly, StepNames, ListPods, ShowPod, PodVersions
<1> QED BY <1>1, <1>2, <1>3, <1>4, <1>5, <1>6

\* The same step elsewhere, with what comes before it.
LEMMA SameStep ==
  ASSUME NEW req, NEW d, NEW yes, NEW t, NEW j, NEW q, NEW i, StepOK(t, j, req, d, yes), q[i] = t[j],
         t[j] = "parse" => i = Len(q),
         t[j] = "podRemove" /\ j > 1 /\ t[j - 1] = "confirm" => i > 1 /\ q[i - 1] = "confirm"
  PROVE  StepOK(q, i, req, d, yes)
<1>1. q[i] = "podRemove" => RemovesNamed(req, d) /\ (yes \/ req.force \/ (i > 1 /\ q[i - 1] = "confirm"))
  BY Zenon DEF StepOK
<1>2. q[i] \in {"reset", "import", "podLoad"} => Loading(req)
  BY Zenon DEF StepOK
<1>3. (q[i] = "reset" => MergeStrategy(req) = "overwrite") /\ (q[i] = "parse" => i = Len(q))
  BY Zenon DEF StepOK
<1> QED BY <1>1, <1>2, <1>3, Zenon DEF StepOK

\* A plan may follow steps of which none parses.
LEMMA LaterThenOK ==
  ASSUME NEW req, NEW d, NEW yes, NEW s, Later(s, req, d, yes), NEW t, PlanOK(t, req, d, yes)
  PROVE  PlanOK(s \o t, req, d, yes) /\ (Later(t, req, d, yes) => Later(s \o t, req, d, yes))
<1>0. s \in Seq(StepNames) /\ t \in Seq(StepNames) /\ Len(s) \in Nat /\ Len(t) \in Nat
  BY DEF Later, PlanOK
<1>1. /\ s \o t \in Seq(StepNames) /\ Len(s \o t) = Len(s) + Len(t)
      /\ \A i \in 1..Len(s) : (s \o t)[i] = s[i]
      /\ \A i \in 1..Len(t) : (s \o t)[Len(s) + i] = t[i]
      /\ \A i \in 1..Len(s \o t) : i \in 1..Len(s) \/ i - Len(s) \in 1..Len(t)
  BY <1>0, Joined
<1>2. ASSUME NEW i \in 1..Len(s) PROVE StepOK(s \o t, i, req, d, yes) /\ (s \o t)[i] # "parse"
  <2>1. StepOK(s, i, req, d, yes) /\ s[i] # "parse" /\ (s \o t)[i] = s[i]
    BY <1>1, Zenon DEF Later, PlanOK
  <2>2. i > 1 => (s \o t)[i - 1] = s[i - 1]
    <3>1. i > 1 => i - 1 \in 1..Len(s)
      BY <1>0
    <3> QED BY <1>1, <3>1, Zenon
  <2> QED BY <2>1, <2>2, Zenon DEF StepOK
<1>3. ASSUME NEW i \in 1..Len(t)
      PROVE StepOK(s \o t, Len(s) + i, req, d, yes) /\ (s \o t)[Len(s) + i] = t[i]
  <2>1. StepOK(t, i, req, d, yes) /\ (s \o t)[Len(s) + i] = t[i]
    BY <1>1, Zenon DEF PlanOK
  <2>2. t[i] = "parse" => Len(s) + i = Len(s \o t)
    BY <1>1, <2>1, Zenon DEF StepOK
  <2>3. i > 1 => Len(s) + i > 1 /\ (s \o t)[Len(s) + i - 1] = t[i - 1]
    <3>1. i > 1 => i - 1 \in 1..Len(t) /\ Len(s) + i > 1 /\ Len(s) + i - 1 = Len(s) + (i - 1)
      BY <1>0
    <3> QED BY <1>1, <3>1, Zenon
  <2> DEFINE k == Len(s) + i
  <2>4. i > 1 => k > 1 /\ (s \o t)[k - 1] = t[i - 1]
    BY <2>3
  <2>5. t[i] = "parse" => k = Len(s \o t)
    BY <2>2
  <2>6. (s \o t)[k] = t[i]
    BY <2>1
  <2> HIDE DEF k
  <2>7. StepOK(s \o t, k, req, d, yes)
    BY <2>1, <2>4, <2>5, <2>6, SameStep, Zenon
  <2> QED BY <2>1, <2>7 DEF k
<1>4. \A i \in 1..Len(s \o t) : i \in 1..Len(s) \/ \E j \in 1..Len(t) : i = Len(s) + j
  <2> SUFFICES ASSUME NEW i \in 1..Len(s \o t), i \notin 1..Len(s)
               PROVE  \E j \in 1..Len(t) : i = Len(s) + j
    OBVIOUS
  <2>1. i - Len(s) \in 1..Len(t)
    BY <1>1, Zenon
  <2>2. i \in Nat /\ Len(s) \in Nat
    BY <1>0, <1>1
  <2>3. \A m, n \in Nat : m = n + (m - n)
    OBVIOUS
  <2> QED BY <2>1, <2>2, <2>3, Zenon
<1>5. PlanOK(s \o t, req, d, yes)
  BY <1>1, <1>2, <1>3, <1>4, Zenon DEF PlanOK
<1>6. ASSUME Later(t, req, d, yes) PROVE \A i \in 1..Len(s \o t) : (s \o t)[i] # "parse"
  BY <1>2, <1>3, <1>4, <1>6, Zenon DEF Later
<1> QED BY <1>5, <1>6, Zenon DEF Later

\* A last step, the removal after its prompt.
LEMMA EndsWith ==
  ASSUME NEW req, NEW d, NEW yes, NEW s, Plainly(s), RemovesNamed(req, d),
         req.force \/ (s # <<>> /\ s[Len(s)] = "confirm")
  PROVE  Later(s \o <<"podRemove">>, req, d, yes)
<1> DEFINE t == <<"podRemove">>
           q == s \o t
<1>0. s \in Seq(StepNames) /\ t \in Seq(StepNames) /\ Len(t) = 1 /\ t[1] = "podRemove" /\ Len(s) \in Nat
  BY DEF Plainly, StepNames
<1> HIDE DEF t
<1>1. /\ q \in Seq(StepNames) /\ Len(q) = Len(s) + 1 /\ \A i \in 1..Len(s) : q[i] = s[i]
      /\ q[Len(s) + 1] = "podRemove"
      /\ \A i \in 1..Len(q) : i \in 1..Len(s) \/ i = Len(s) + 1
  BY <1>0, Joined
<1>2. ASSUME NEW i \in 1..Len(s) PROVE StepOK(q, i, req, d, yes) /\ q[i] # "parse"
  BY <1>1, Zenon DEF Plainly, StepOK
<1>3. StepOK(q, Len(s) + 1, req, d, yes) /\ q[Len(s) + 1] # "parse"
  <2>1. CASE req.force
    BY <1>1, <2>1, Zenon DEF StepOK
  <2>2. CASE s # <<>> /\ s[Len(s)] = "confirm"
    <3>1. Len(s) \in 1..Len(s) /\ Len(s) + 1 > 1 /\ Len(s) + 1 - 1 = Len(s)
      BY <1>0, <2>2
    <3> DEFINE k == Len(s) + 1
    <3>2. q[k] = "podRemove"
      BY <1>1
    <3>3. k - 1 = Len(s) /\ k > 1
      BY <3>1
    <3> HIDE DEF k, q
    <3>4. q[k - 1] = "confirm" /\ k > 1
      BY <1>1, <2>2, <3>1, <3>3, Zenon
    <3>5. StepOK(q, k, req, d, yes)
      BY <3>4, <3>2, Zenon DEF StepOK
    <3> QED BY <1>1, <3>5, Zenon DEF k
  <2> QED BY <2>1, <2>2
<1> HIDE DEF q
<1>4. Later(q, req, d, yes)
  BY <1>1, <1>2, <1>3, Zenon DEF Later, PlanOK
<1> QED BY <1>4 DEF q, t

\* Plain steps come before any.
LEMMA PlainLater ==
  ASSUME NEW s, Plainly(s), NEW req, NEW d, NEW yes
  PROVE  Later(s, req, d, yes)
BY PlainPlans DEF Later, Plainly

\* The steps each command is left with after its references are parsed.
LEMMA LoadPlans ==
  ASSUME NEW req, Loading(req), NEW d, NEW yes
  PROVE  /\ Later(LoadPod, req, d, yes) /\ Later(LoadRemoteS3, req, d, yes)
         /\ Later(<<"deps">> \o LoadPod, req, d, yes)
         /\ Later(LoadLocal(req), req, d, yes) /\ Later(<<"deps">> \o LoadLocal(req), req, d, yes)
         /\ Later(AutoLoad(req, d), req, d, yes)
<1> DEFINE Ok(s) == Later(s, req, d, yes)
<1>1. \A s, t : Ok(s) /\ Ok(t) => Ok(s \o t)
  BY LaterThenOK, Zenon DEF Later
<1>2. Ok(<<>>) /\ Ok(<<"deps">>) /\ Ok(<<"launch">>) /\ Ok(<<"health", "running">>)
  BY LiteralSteps, PlainLater, Zenon
<1>3. Ok(LoadPod)
  BY DEF LoadPod, Later, PlanOK, StepOK, StepNames
<1>4. Ok(LoadRemoteS3)
  BY DEF LoadRemoteS3, Later, PlanOK, StepOK, StepNames
<1>5. Ok(<<"open", "import">>)
  BY DEF Later, PlanOK, StepOK, StepNames
<1>6. MergeStrategy(req) = "overwrite" => Ok(<<"reset">>)
  BY DEF Later, PlanOK, StepOK, StepNames
<1> HIDE DEF Ok
<1>7. Ok(LoadLocal(req))
  <2>1. CASE MergeStrategy(req) = "overwrite"
    <3>1. LoadLocal(req) = (<<"health", "running">> \o <<"reset">>) \o <<"open", "import">>
      BY <2>1, Zenon DEF LoadLocal
    <3> QED BY <1>1, <1>2, <1>5, <1>6, <2>1, <3>1, Zenon
  <2>2. CASE MergeStrategy(req) # "overwrite"
    <3>1. LoadLocal(req) = (<<"health", "running">> \o <<>>) \o <<"open", "import">>
      BY <2>2, Zenon DEF LoadLocal
    <3> QED BY <1>1, <1>2, <1>5, <3>1, Zenon
  <2> QED BY <2>1, <2>2
<1>8. Ok(AutoLoad(req, d))
  <2>1. \/ AutoLoad(req, d) = <<"launch">> \o <<>>
        \/ AutoLoad(req, d) = <<"launch">> \o LoadPod
        \/ AutoLoad(req, d) = <<"launch">> \o LoadLocal(req)
    BY Zenon DEF AutoLoad
  <2> QED BY <1>1, <1>2, <1>3, <1>7, <2>1, Zenon
<1> QED BY <1>1, <1>2, <1>3, <1>4, <1>7, <1>8, Zenon DEF Ok

\* A removal that is not forced comes right after its prompt. (snapshot/remove.go)
LEMMA RemovePlans ==
  ASSUME NEW req, NEW d, RemovesNamed(req, d), NEW yes
  PROVE  Later(RemovePlan(req), req, d, yes)
<1> DEFINE front == (IF req.interactive THEN <<>> ELSE <<"deps">>) \o <<"auth", "health", "running">>
<1>1. Plainly(front)
  <2>1. CASE req.interactive
    BY <2>1 DEF Plainly, StepNames
  <2>2. CASE ~req.interactive
    BY <2>2 DEF Plainly, StepNames
  <2> QED BY <2>1, <2>2
<1> HIDE DEF front
<1>2. CASE req.force
  <2>1. RemovePlan(req) = (front \o <<>>) \o <<"podRemove">> /\ front \o <<>> = front
    BY <1>1, <1>2 DEF RemovePlan, front, Plainly
  <2> QED BY <1>1, <1>2, <2>1, EndsWith, Zenon
<1>3. CASE ~req.force
  <2> DEFINE s == front \o <<"confirm">>
  <2>1. RemovePlan(req) = s \o <<"podRemove">>
    BY <1>3, Zenon DEF RemovePlan, front
  <2>2. Plainly(s) /\ s # <<>> /\ s[Len(s)] = "confirm"
    <3>1. front \in Seq(StepNames) /\ <<"confirm">> \in Seq(StepNames) /\ Len(front) \in Nat
      BY <1>1 DEF Plainly, StepNames
    <3>2. /\ s \in Seq(StepNames) /\ Len(s) = Len(front) + 1 /\ \A i \in 1..Len(front) : s[i] = front[i]
          /\ s[Len(front) + 1] = "confirm"
          /\ \A i \in 1..Len(s) : i \in 1..Len(front) \/ i = Len(front) + 1
      BY <3>1, Joined
    <3> HIDE DEF s
    <3> QED BY <1>1, <3>1, <3>2 DEF Plainly
  <2> QED BY <2>1, <2>2, EndsWith, Zenon
<1> QED BY <1>2, <1>3

\* Parsing replaces the last step by what is to follow it.
LEMMA ParsedPlans ==
  ASSUME NEW req \in SnapRequests, NEW yes, Parsed(req).kind # "error"
  PROVE  Later(AfterParse(req, Parsed(req)), req, Parsed(req), yes)
<1> DEFINE d == Parsed(req)
           Ok(s) == Later(s, req, d, yes)
<1>0. req.cmd \in {"save", "load", "start", "remove", "list", "show", "versions"} /\ (req.dryRun => req.cmd = "load")
  BY SnapRequestsOK, Zenon
<1>1. CASE req.cmd = "save"
  <2>1. d.kind \in DestKinds
    BY <1>1, ParsedSaves, Zenon
  <2> HIDE DEF d
  <2>2. d.kind = "local" \/ d.kind = "pod" \/ d.kind = "s3"
    BY <2>1, Zenon DEF DestKinds, d
  <2>3. CASE d.kind = "local"
    <3>1. AfterParse(req, d) = SaveLocal
      BY <1>1, <2>3, Zenon DEF AfterParse
    <3> QED BY <3>1, OtherPlans, PlainLater, Zenon DEF d
  <2>4. CASE d.kind = "pod"
    <3>1. AfterParse(req, d) = SavePod
      BY <1>1, <2>4, Zenon DEF AfterParse
    <3> QED BY <3>1, OtherPlans, PlainLater, Zenon DEF d
  <2>5. CASE d.kind = "s3"
    <3>1. AfterParse(req, d) = SaveRemoteS3
      BY <1>1, <2>5, Zenon DEF AfterParse
    <3> QED BY <3>1, OtherPlans, PlainLater, Zenon DEF d
  <2> QED BY <2>2, <2>3, <2>4, <2>5
<1>2. CASE req.cmd = "load"
  <2>1. d.kind \in DestKinds /\ (d.kind = "s3" => IsRemote(req)) /\ (d.kind = "local" => ~req.dryRun)
    BY <1>2, ParsedLoads, Zenon
  <2> HIDE DEF d
  <2>2. d.kind = "local" \/ d.kind = "pod" \/ d.kind = "s3"
    BY <2>1, Zenon DEF DestKinds, d
  <2>3. CASE d.kind = "local"
    <3>1. AfterParse(req, d) = <<"deps">> \o LoadLocal(req)
      BY <1>2, <2>3, Zenon DEF AfterParse
    <3>2. Loading(req)
      BY <1>2, <2>1, <2>3, Zenon DEF Loading
    <3> QED BY <3>1, <3>2, LoadPlans, Zenon DEF d
  <2>4. CASE d.kind = "pod" /\ req.dryRun
    <3>1. AfterParse(req, d) = DiffPod
      BY <1>2, <2>4, Zenon DEF AfterParse
    <3> QED BY <3>1, OtherPlans, PlainLater, Zenon DEF d
  <2>5. CASE d.kind = "pod" /\ ~req.dryRun
    <3>1. AfterParse(req, d) = <<"deps">> \o LoadPod
      BY <1>2, <2>5, Zenon DEF AfterParse
    <3>2. Loading(req)
      BY <1>2, <2>5, Zenon DEF Loading
    <3> QED BY <3>1, <3>2, LoadPlans, Zenon DEF d
  <2>6. CASE d.kind = "s3"
    <3>1. AfterParse(req, d) = LoadRemoteS3
      BY <1>2, <2>6, Zenon DEF AfterParse
    <3>2. Loading(req)
      BY <1>2, <2>1, <2>6, Zenon DEF Loading
    <3> QED BY <3>1, <3>2, LoadPlans, Zenon DEF d
  <2> QED BY <2>2, <2>3, <2>4, <2>5, <2>6
<1>3. CASE req.cmd = "start"
  <2>1. AfterParse(req, d) = AutoLoad(req, d)
    BY <1>3, Zenon DEF AfterParse
  <2>2. Loading(req)
    BY <1>0, <1>3, Zenon DEF Loading
  <2> QED BY <2>1, <2>2, LoadPlans, Zenon
<1>4. CASE req.cmd = "remove"
  <2>1. AfterParse(req, d) = RemovePlan(req)
    BY <1>4, Zenon DEF AfterParse
  <2>2. RemovesNamed(req, d)
    BY <1>4, ParsedRemoves, Zenon DEF RemovesNamed
  <2> QED BY <2>1, <2>2, RemovePlans, Zenon
<1>5. CASE req.cmd \in {"list", "show", "versions"}
  <2> HIDE DEF d
  <2>1. AfterParse(req, d) \in {ListRemoteS3, ListPods, ShowPod, PodVersions}
    <3>1. CASE req.cmd = "list"
      BY <3>1, Zenon DEF AfterParse
    <3>2. CASE req.cmd = "show"
      BY <3>2, Zenon DEF AfterParse
    <3>3. CASE req.cmd = "versions"
      BY <3>3, Zenon DEF AfterParse
    <3> QED BY <1>5, <3>1, <3>2, <3>3, Zenon
  <2> QED BY <2>1, OtherPlans, PlainLater, Zenon DEF d
<1> QED BY <1>0, <1>1, <1>2, <1>3, <1>4, <1>5, Zenon

-----------------------------------------------------------------------------
Shapes ==
  /\ snapReq \in [SnapProcs -> SnapRequests] /\ snapYes \in [SnapProcs -> BOOLEAN]
  /\ DOMAIN snapPlan = SnapProcs /\ DOMAIN snapDst = SnapProcs
  /\ DOMAIN emu = Hosts /\ \A h \in Hosts : DOMAIN emu[h] = {"running", "items"}
  /\ DOMAIN pods = Stores /\ \A s \in Stores : DOMAIN pods[s] = PodNames
  /\ \A s \in Stores, n \in PodNames : \E V : pods[s][n] \in Seq(V)
PlanInv(p) == PlanOK(snapPlan[p], snapReq[p], snapDst[p], snapYes[p])
Inv == Shapes /\ \A p \in SnapProcs : PlanInv(p)

\* A step does what is next and leaves the rest, or parses, or asks.
Advances(p) ==
  /\ UNCHANGED <<snapReq, snapDst, snapYes>>
  /\ \/ snapPlan' = snapPlan
     \/ /\ snapPlan[p] # <<>> /\ Head(snapPlan[p]) # "confirm"
        /\ snapPlan' = [snapPlan EXCEPT ![p] = Tail(@)]
\* Every step but the parse and the prompt takes one step off the plan, or none.
LEMMA StepsAdvance ==
  ASSUME NEW p \in SnapProcs, SnapStep(p)
  PROVE  ParseRefs(p) \/ ConfirmRemoval(p) \/ Advances(p)
<1> USE DEF SnapAt, SnapProceeds, SnapStops, SnapLocals, SnapWorld, Advances, Answered, ReadsOnly
<1>1. CASE ResolveS3Credentials(p) \/ ResolveDeps(p) \/ RequireToken(p)
  BY <1>1 DEF ResolveS3Credentials, ResolveDeps, RequireToken
<1>2. CASE EnsureBucketExists(p) \/ CheckHealth(p) \/ LaunchEmulator(p) \/ RequireRunning(p)
  BY <1>2 DEF EnsureBucketExists, CheckHealth, LaunchEmulator, RequireRunning
<1>3. CASE CreateFile(p) \/ OpenFile(p)
  BY <1>3 DEF CreateFile, OpenFile
<1>4. CASE CallFails(p) \/ ExportState(p)
  BY <1>4 DEF CallFails, ExportState
<1>5. CASE ImportState(p) \/ PodLoad(p)
  BY <1>5 DEF ImportState, PodLoad, LoadStream
<1>6. CASE ResetState(p) \/ RegisterRemote(p) \/ ListPodsRemote(p) \/ DiffPodSnapshot(p)
  BY <1>6 DEF ResetState, RegisterRemote, ListPodsRemote, DiffPodSnapshot
<1>7. CASE PodSave(p) \/ PodSaveFails(p) \/ PodRemove(p)
  BY <1>7 DEF PodSave, PodSaveFails, PodRemove
<1>8. CASE PlatformCall(p) \/ SnapKilled(p)
  BY <1>8 DEF PlatformCall, SnapKilled
<1> QED BY <1>1, <1>2, <1>3, <1>4, <1>5, <1>6, <1>7, <1>8, Zenon DEF SnapStep

\* The plans stay in order, its own and the others'.
LEMMA PlansStay ==
  ASSUME Inv, NEW p \in SnapProcs, SnapStep(p)
  PROVE  /\ snapReq' = snapReq /\ snapYes' \in [SnapProcs -> BOOLEAN]
         /\ DOMAIN snapPlan' = SnapProcs /\ DOMAIN snapDst' = SnapProcs
         /\ \A q \in SnapProcs : PlanInv(q)'
<1>1. /\ snapReq \in [SnapProcs -> SnapRequests] /\ snapYes \in [SnapProcs -> BOOLEAN]
      /\ DOMAIN snapPlan = SnapProcs /\ DOMAIN snapDst = SnapProcs
      /\ \A q \in SnapProcs : PlanInv(q)
  BY DEF Inv, Shapes
<1>2. CASE ParseRefs(p)
  <2> DEFINE d == Parsed(snapReq[p])
  <2>1. /\ snapReq' = snapReq /\ snapYes' = snapYes /\ snapDst' = [snapDst EXCEPT ![p] = d]
        /\ snapPlan[p] # <<>> /\ Head(snapPlan[p]) = "parse"
        /\ d.kind = "error" => snapPlan' = snapPlan
        /\ d.kind # "error" => snapPlan' = [snapPlan EXCEPT ![p] = AfterParse(snapReq[p], d) \o Tail(@)]
    BY <1>2 DEF ParseRefs, SnapAt, SnapStops
  <2> HIDE DEF d
  <2>2. snapPlan[p] \in Seq(StepNames) /\ Len(snapPlan[p]) = 1 /\ snapPlan[p][1] = "parse"
    <3>1. snapPlan[p] \in Seq(StepNames) /\ 1 \in 1..Len(snapPlan[p]) /\ snapPlan[p][1] = "parse"
      BY <1>1, <2>1 DEF PlanInv, PlanOK
    <3>2. StepOK(snapPlan[p], 1, snapReq[p], snapDst[p], snapYes[p])
      BY <1>1, <3>1, Zenon DEF PlanInv, PlanOK
    <3> QED BY <3>1, <3>2, Zenon DEF StepOK
  <2>3. PlanInv(p)'
    <3>1. CASE d.kind = "error"
      <4>1. snapPlan'[p] = snapPlan[p] /\ snapPlan[p] = <<"parse">>
        BY <2>1, <2>2, <3>1
      <4>2. \A e, y : PlanOK(<<"parse">>, snapReq[p], e, y)
        BY DEF PlanOK, StepOK, StepNames
      <4> QED BY <2>1, <4>1, <4>2, Zenon DEF PlanInv
    <3>2. CASE d.kind # "error"
      <4>1. Later(AfterParse(snapReq[p], d), snapReq[p], d, snapYes[p])
        BY <1>1, <3>2, ParsedPlans, Zenon DEF d
      <4>2. snapPlan'[p] = AfterParse(snapReq[p], d) \o Tail(snapPlan[p])
        BY <1>1, <2>1, <3>2, Zenon
      <4>3. Tail(snapPlan[p]) = <<>>
        <5>1. Tail(snapPlan[p]) \in Seq(StepNames) /\ Len(Tail(snapPlan[p])) = 0
          BY <2>2
        <5>2. \A s \in Seq(StepNames) : Len(s) = 0 => s = <<>>
          OBVIOUS
        <5> QED BY <5>1, <5>2, Zenon
      <4>4. snapPlan'[p] = AfterParse(snapReq[p], d)
        <5>1. \A s \in Seq(StepNames) : s \o <<>> = s
          OBVIOUS
        <5> QED BY <4>1, <4>2, <4>3, <5>1, Zenon DEF Later, PlanOK
      <4>5. snapDst'[p] = d
        BY <1>1, <2>1, Zenon
      <4> QED BY <2>1, <4>1, <4>4, <4>5, Zenon DEF PlanInv, Later
    <3> QED BY <3>1, <3>2
  <2>4. ASSUME NEW q \in SnapProcs, q # p PROVE PlanInv(q)'
    <3>1. snapPlan'[q] = snapPlan[q] /\ snapDst'[q] = snapDst[q]
      BY <1>1, <2>1, <2>4, Zenon
    <3> QED BY <1>1, <2>1, <3>1, Zenon DEF PlanInv
  <2>5. DOMAIN snapPlan' = SnapProcs /\ DOMAIN snapDst' = SnapProcs
    BY <1>1, <2>1
  <2> QED BY <1>1, <2>1, <2>3, <2>4, <2>5, Zenon
<1>3. CASE ConfirmRemoval(p) \/ Advances(p)
  <2>1. /\ UNCHANGED <<snapReq, snapDst>>
        /\ \/ snapPlan' = snapPlan
           \/ snapPlan[p] # <<>> /\ snapPlan' = [snapPlan EXCEPT ![p] = Tail(@)]
        /\ snapYes' = snapYes \/ snapYes' = [snapYes EXCEPT ![p] = TRUE]
        /\ snapPlan' # snapPlan => (Head(snapPlan[p]) = "confirm" => snapYes' = [snapYes EXCEPT ![p] = TRUE])
    BY <1>3 DEF ConfirmRemoval, Advances, SnapAt, SnapProceeds, SnapStops, SnapWorld
  <2>2. snapYes' \in [SnapProcs -> BOOLEAN] /\ \A q \in SnapProcs : snapYes[q] => snapYes'[q]
    BY <1>1, <2>1
  <2>3. ASSUME NEW q \in SnapProcs PROVE PlanInv(q)'
    <3>0. PlanOK(snapPlan[q], snapReq[q], snapDst[q], snapYes[q]) /\ snapYes[q] \in BOOLEAN /\ snapYes'[q] \in BOOLEAN
      BY <1>1, <2>2, Zenon DEF PlanInv
    <3>1. CASE snapPlan'[q] = snapPlan[q]
      <4>1. PlanOK(snapPlan[q], snapReq[q], snapDst[q], snapYes'[q])
        BY <2>2, <3>0, Zenon DEF PlanOK, StepOK
      <4> QED BY <2>1, <3>1, <4>1, Zenon DEF PlanInv
    <3>2. CASE snapPlan'[q] # snapPlan[q]
      <4>1. q = p /\ snapPlan[p] # <<>> /\ snapPlan'[p] = Tail(snapPlan[p])
        BY <1>1, <2>1, <3>2, Zenon
      <4>2. Head(snapPlan[p]) = "confirm" => snapYes'[p]
        BY <1>1, <2>1, <3>2, <4>1, Zenon
      <4>3. snapPlan[p][1] = Head(snapPlan[p])
        BY <3>0, <4>1 DEF PlanOK
      <4>4. PlanOK(Tail(snapPlan[p]), snapReq[p], snapDst[p], snapYes'[p])
        BY <2>2, <3>0, <4>1, <4>2, <4>3, PlanTail, Zenon
      <4> QED BY <2>1, <4>1, <4>4, Zenon DEF PlanInv
    <3> QED BY <3>1, <3>2
  <2>4. DOMAIN snapPlan' = SnapProcs
    BY <1>1, <2>1
  <2> QED BY <1>1, <2>1, <2>2, <2>3, <2>4, Zenon
<1> QED BY <1>2, <1>3, StepsAdvance, Zenon

-----------------------------------------------------------------------------
\* Emulators as records.
IsEmu(f) == DOMAIN f = Hosts /\ \A h \in Hosts : DOMAIN f[h] = {"running", "items"}
\* What it holds is set.
LEMMA SetItems ==
  ASSUME NEW f, IsEmu(f), NEW x, NEW v, NEW g, g = [f EXCEPT ![x].items = v]
  PROVE  IsEmu(g) /\ \A h \in Hosts :
           g[h].running = f[h].running /\ g[h].items = IF h = x THEN v ELSE f[h].items
BY Zenon DEF IsEmu

\* Whether it runs is set.
LEMMA SetRunning ==
  ASSUME NEW f, IsEmu(f), NEW x, NEW v, NEW g, g = [f EXCEPT ![x].running = v]
  PROVE  IsEmu(g) /\ \A h \in Hosts : g[h].items = f[h].items
BY Zenon DEF IsEmu

\* What a step may take from an emulator, it takes by a load.
Loses(p, h) ==
  /\ snapReq[p].cmd \in {"load", "start"} /\ snapHost[p] = h /\ snapEnd[p] = "busy"
  /\ MergeStrategy(snapReq[p]) # "service-merge"
  /\ snapReq[p].dryRun => IsRemote(snapReq[p])

\* A load that merges service by service only adds. (LoadStream)
LEMMA StreamLoses ==
  ASSUME NEW p, NEW items, NEW strategy, IsEmu(emu), LoadStream(p, items, strategy), NEW h \in Hosts
  PROVE  /\ IsEmu(emu')
         /\ emu[h].items \subseteq emu'[h].items \/ (h = snapHost[p] /\ strategy # "service-merge")
<1>1. CASE \E held \in Merged(Held(p), items, strategy) : emu' = [emu EXCEPT ![snapHost[p]].items = held]
  <2>1. PICK held \in Merged(Held(p), items, strategy) : emu' = [emu EXCEPT ![snapHost[p]].items = held]
    BY <1>1, Zenon
  <2>2. IsEmu(emu') /\ emu'[h].items = IF h = snapHost[p] THEN held ELSE emu[h].items
    BY <2>1, SetItems, Zenon DEF IsEmu
  <2>3. strategy = "service-merge" => held = Held(p) \cup items
    <3>1. ASSUME strategy = "service-merge" PROVE Merged(Held(p), items, strategy) = {Held(p) \cup items}
      BY <3>1, Zenon DEF Merged
    <3> QED BY <2>1, <3>1, Zenon
  <2> QED BY <2>2, <2>3, Zenon DEF Held
<1>2. CASE \E part \in SUBSET items : emu' = [emu EXCEPT ![snapHost[p]].items = @ \cup part]
  <2>1. PICK part \in SUBSET items : emu' = [emu EXCEPT ![snapHost[p]].items = @ \cup part]
    BY <1>2, Zenon
  <2>2. CASE snapHost[p] \in Hosts
    <3>1. emu' = [emu EXCEPT ![snapHost[p]].items = emu[snapHost[p]].items \cup part]
      BY <2>1, <2>2, Zenon DEF IsEmu
    <3>2. IsEmu(emu') /\ emu'[h].items = IF h = snapHost[p] THEN emu[snapHost[p]].items \cup part ELSE emu[h].items
      BY <3>1, SetItems, Zenon DEF IsEmu
    <3> QED BY <3>2, Zenon
  <2>3. CASE snapHost[p] \notin Hosts
    BY <2>1, <2>3, Zenon DEF IsEmu
  <2> QED BY <2>2, <2>3
<1> QED BY <1>1, <1>2, Zenon DEF LoadStream

\* A step at which a load is next.
LEMMA NextIsAhead ==
  ASSUME NEW p \in SnapProcs, PlanInv(p), NEW step, SnapAt(p, step)
  PROVE  StepOK(snapPlan[p], 1, snapReq[p], snapDst[p], snapYes[p]) /\ snapPlan[p][1] = step
<1>1. snapPlan[p] \in Seq(StepNames) /\ snapPlan[p] # <<>> /\ Head(snapPlan[p]) = step
  BY Zenon DEF SnapAt, PlanInv, PlanOK
<1>2. 1 \in 1..Len(snapPlan[p]) /\ snapPlan[p][1] = step
  BY <1>1
<1> QED BY <1>2, Zenon DEF PlanInv, PlanOK

\* Only loads take anything from an emulator.
LEMMA LoadsLose ==
  ASSUME Inv, NEW p \in SnapProcs, SnapStep(p), NEW h \in Hosts
  PROVE  IsEmu(emu') /\ (emu[h].items \subseteq emu'[h].items \/ Loses(p, h))
<1>0. IsEmu(emu) /\ PlanInv(p)
  BY Zenon DEF Inv, Shapes, IsEmu
<1>1. CASE ImportState(p)
  <2> DEFINE file == inodes[snapFd[p]]
             strategy == IF MergeStrategy(snapReq[p]) = "overwrite" THEN "" ELSE MergeStrategy(snapReq[p])
  <2>1. SnapAt(p, "import") /\ (emu' = emu \/ LoadStream(p, file.items, strategy))
    BY <1>1, Zenon DEF ImportState, Answered
  <2>2. Loading(snapReq[p]) /\ snapEnd[p] = "busy"
    BY <1>0, <2>1, NextIsAhead, Zenon DEF StepOK, SnapAt
  <2>3. strategy # "service-merge" => MergeStrategy(snapReq[p]) # "service-merge"
    BY Zenon
  <2> HIDE DEF file, strategy
  <2>4. CASE emu' = emu
    BY <1>0, <2>4, Zenon DEF IsEmu
  <2>5. CASE LoadStream(p, file.items, strategy)
    BY <1>0, <2>2, <2>3, <2>5, StreamLoses, Zenon DEF Loses, Loading
  <2> QED BY <2>1, <2>4, <2>5, Zenon
<1>2. CASE PodLoad(p)
  <2> DEFINE v == CHOOSE v \in Wanted(p) : \A w \in Wanted(p) : w <= v
  <2>1. SnapAt(p, "podLoad") /\ (emu' = emu \/ LoadStream(p, Versions(p)[v].items, MergeStrategy(snapReq[p])))
    BY <1>2, Zenon DEF PodLoad, Answered
  <2>2. Loading(snapReq[p]) /\ snapEnd[p] = "busy"
    BY <1>0, <2>1, NextIsAhead, Zenon DEF StepOK, SnapAt
  <2> HIDE DEF v
  <2>3. CASE emu' = emu
    BY <1>0, <2>3, Zenon DEF IsEmu
  <2>4. CASE LoadStream(p, Versions(p)[v].items, MergeStrategy(snapReq[p]))
    BY <1>0, <2>2, <2>4, StreamLoses, Zenon DEF Loses, Loading
  <2> QED BY <2>1, <2>3, <2>4, Zenon
<1>3. CASE ResetState(p)
  <2>1. SnapAt(p, "reset") /\ emu' = [emu EXCEPT ![snapHost[p]].items = {}]
    BY <1>3, Zenon DEF ResetState, Answered
  <2>2. Loading(snapReq[p]) /\ MergeStrategy(snapReq[p]) = "overwrite" /\ snapEnd[p] = "busy"
    BY <1>0, <2>1, NextIsAhead, Zenon DEF StepOK, SnapAt
  <2>3. IsEmu(emu') /\ emu'[h].items = IF h = snapHost[p] THEN {} ELSE emu[h].items
    BY <1>0, <2>1, SetItems, Zenon DEF IsEmu
  <2>4. CASE h = snapHost[p]
    BY <2>2, <2>3, <2>4, Zenon DEF Loses, Loading
  <2>5. CASE h # snapHost[p]
    BY <2>3, <2>5, Zenon
  <2> QED BY <2>4, <2>5
<1>4. CASE LaunchEmulator(p) \/ RequireRunning(p)
  <2>1. emu' = emu \/ emu' = [emu EXCEPT !["docker"].running = TRUE]
    BY <1>4, Zenon DEF LaunchEmulator, RequireRunning
  <2>2. CASE emu' = emu
    BY <1>0, <2>2, Zenon DEF IsEmu
  <2>3. CASE emu' = [emu EXCEPT !["docker"].running = TRUE]
    <3>1. IsEmu(emu') /\ emu'[h].items = emu[h].items
      BY <1>0, <2>3, SetRunning, Zenon DEF IsEmu
    <3> QED BY <3>1, Zenon
  <2> QED BY <2>1, <2>2, <2>3
<1>5. CASE ~(ImportState(p) \/ PodLoad(p) \/ ResetState(p) \/ LaunchEmulator(p) \/ RequireRunning(p))
  <2>1. emu' = emu
    BY <1>5 DEF SnapStep, ParseRefs, ResolveS3Credentials, ResolveDeps, RequireToken, EnsureBucketExists, CheckHealth,
                ConfirmRemoval, CreateFile, OpenFile, CallFails, ExportState, RegisterRemote, ListPodsRemote,
                DiffPodSnapshot, PodSave, PodSaveFails, PodRemove, PlatformCall, SnapKilled, SnapWorld, ReadsOnly
  <2> QED BY <1>0, <2>1, Zenon DEF IsEmu
<1> QED BY <1>1, <1>2, <1>3, <1>4, <1>5

-----------------------------------------------------------------------------
IsPods(f) ==
  /\ DOMAIN f = Stores /\ \A s \in Stores : DOMAIN f[s] = PodNames
  /\ \A s \in Stores, n \in PodNames : \E V : f[s][n] \in Seq(V)
Removed(p, n) ==
  /\ snapReq[p].cmd = "remove" /\ (snapYes[p] \/ snapReq[p].force)
  /\ snapReq[p].args[1].form = "pod" /\ snapReq[p].args[1].name = n
  /\ snapReq[p].args[1].version = 0

\* One more version is one at least.
LEMMA OneMore ==
  ASSUME NEW s, \E V : s \in Seq(V), NEW x
  PROVE  Append(s, x) # <<>> /\ \E V : Append(s, x) \in Seq(V)
<1>1. PICK V : s \in Seq(V)
  OBVIOUS
<1>2. s \in Seq(V \cup {x})
  <2>1. \A i \in 1..Len(s) : s[i] \in V
    BY <1>1
  <2> QED BY <1>1, <2>1
<1>3. Append(s, x) \in Seq(V \cup {x}) /\ Append(s, x) # <<>>
  BY <1>2
<1> QED BY <1>3, Zenon

\* Only removes empty a pod.
LEMMA OnlyRemoves ==
  ASSUME Inv, NEW p \in SnapProcs, SnapStep(p)
  PROVE  /\ IsPods(pods')
         /\ \A n \in PodNames :
              pods["platform"][n] # <<>> /\ pods'["platform"][n] = <<>> => Removed(p, n)
<1>0. IsPods(pods) /\ PlanInv(p) /\ "platform" \in Stores
  BY Zenon DEF Inv, Shapes, IsPods, Stores
<1>1. CASE PodSave(p)
  <2> DEFINE s == Store(p)
             name == snapDst[p].pod
             x == [items |-> Held(p), deleted |-> FALSE]
             v == Append(pods[s][name], x)
  <2>1. pods' = [pods EXCEPT ![s][name] = Append(@, x)]
    BY <1>1, Zenon DEF PodSave
  <2>2. pods' = [pods EXCEPT ![s][name] = v]
    BY <2>1, Zenon
  <2> HIDE DEF x, s, name
  <2>3. s \in Stores /\ name \in PodNames => v # <<>> /\ \E V : v \in Seq(V)
    BY <1>0, OneMore, Zenon DEF IsPods
  <2> HIDE DEF v
  <2>4. /\ DOMAIN pods' = Stores /\ \A t \in Stores : DOMAIN pods'[t] = PodNames
        /\ \A t \in Stores, m \in PodNames :
             pods'[t][m] = IF t = s /\ m = name THEN v ELSE pods[t][m]
    <3>1. DOMAIN pods' = Stores /\ \A t \in Stores : DOMAIN pods'[t] = PodNames
      BY <1>0, <2>2, Zenon DEF IsPods
    <3>2. \A t \in Stores, m \in PodNames :
            pods'[t][m] = IF t = s /\ m = name THEN v ELSE pods[t][m]
      BY <1>0, <2>2, Zenon DEF IsPods
    <3> QED BY <3>1, <3>2
  <2>5. \A t \in Stores, m \in PodNames : pods'[t][m] = pods[t][m] \/ (pods'[t][m] # <<>> /\ \E V : pods'[t][m] \in Seq(V))
    BY <2>3, <2>4, Zenon
  <2> QED BY <1>0, <2>4, <2>5, Zenon DEF IsPods
<1>2. CASE PodRemove(p)
  <2>1. SnapAt(p, "podRemove") /\ pods' = [pods EXCEPT !["platform"][snapDst[p].pod] = <<>>]
    BY <1>2, Zenon DEF PodRemove, Answered
  <2>2. RemovesNamed(snapReq[p], snapDst[p]) /\ (snapYes[p] \/ snapReq[p].force)
    <3>1. ~(1 > 1)
      OBVIOUS
    <3> QED BY <1>0, <2>1, <3>1, NextIsAhead, Zenon DEF StepOK
  <2>3. \E V : <<>> \in Seq(V)
    <3>1. <<>> \in Seq({})
      OBVIOUS
    <3> QED BY <3>1, Zenon
  <2>4. /\ DOMAIN pods' = Stores /\ \A t \in Stores : DOMAIN pods'[t] = PodNames
        /\ \A t \in Stores, m \in PodNames :
             pods'[t][m] = IF t = "platform" /\ m = snapDst[p].pod THEN <<>> ELSE pods[t][m]
    <3>1. DOMAIN pods' = Stores /\ \A t \in Stores : DOMAIN pods'[t] = PodNames
      BY <1>0, <2>1, Zenon DEF IsPods
    <3>2. \A t \in Stores, m \in PodNames :
            pods'[t][m] = IF t = "platform" /\ m = snapDst[p].pod THEN <<>> ELSE pods[t][m]
      BY <1>0, <2>1, Zenon DEF IsPods
    <3> QED BY <3>1, <3>2
  <2>5. \A t \in Stores, m \in PodNames : \E V : pods'[t][m] \in Seq(V)
    <3>1. ASSUME NEW t \in Stores, NEW m \in PodNames PROVE \E V : pods'[t][m] \in Seq(V)
      <4>1. CASE t = "platform" /\ m = snapDst[p].pod
        BY <2>3, <2>4, <4>1, Zenon
      <4>2. CASE ~(t = "platform" /\ m = snapDst[p].pod)
        BY <1>0, <2>4, <4>2, Zenon DEF IsPods
      <4> QED BY <4>1, <4>2
    <3> QED BY <3>1, Zenon
  <2>6. IsPods(pods')
    BY <2>4, <2>5, Zenon DEF IsPods
  <2> QED BY <1>0, <2>2, <2>4, <2>6, Zenon DEF Removed, RemovesNamed
<1>3. CASE ~(PodSave(p) \/ PodRemove(p))
  <2>1. pods' = pods
    BY <1>3 DEF SnapStep, ParseRefs, ResolveS3Credentials, ResolveDeps, RequireToken, EnsureBucketExists, CheckHealth,
                LaunchEmulator, RequireRunning, ConfirmRemoval, CreateFile, OpenFile, CallFails, ExportState,
                ImportState, ResetState, RegisterRemote, ListPodsRemote, DiffPodSnapshot, PodSaveFails, PodLoad,
                PlatformCall, SnapKilled, SnapWorld, ReadsOnly
  <2> QED BY <1>0, <2>1, Zenon DEF IsPods
<1> QED BY <1>1, <1>2, <1>3

-----------------------------------------------------------------------------
\* Nothing is parsed, or agreed to, at the start.
LEMMA InitInv == SnapInit => Inv
<1> SUFFICES ASSUME SnapInit PROVE Inv
  OBVIOUS
<1>1. /\ snapReq \in [SnapProcs -> SnapRequests] /\ snapYes = [p \in SnapProcs |-> FALSE]
      /\ snapPlan = [p \in SnapProcs |-> Opening(snapReq[p])] /\ DOMAIN snapDst = SnapProcs
  BY Zenon DEF SnapInit
<1>2. IsEmu(emu)
  <2>1. emu \in [Hosts -> {[running |-> TRUE, items |-> {}], [running |-> FALSE, items |-> {}]}]
    BY Zenon DEF SnapInit
  <2>2. \A x \in {[running |-> TRUE, items |-> {}], [running |-> FALSE, items |-> {}]} : DOMAIN x = {"running", "items"}
    BY Zenon
  <2> QED BY <2>1, <2>2, Zenon DEF IsEmu
<1>3. IsPods(pods)
  <2>1. PICK versions \in {<<>>, <<[items |-> Items, deleted |-> TRUE], [items |-> {}, deleted |-> FALSE]>>} :
          pods = [NoVersions EXCEPT !["platform"]["pod"] = versions]
    BY Zenon DEF SnapInit
  <2> DEFINE a == [items |-> Items, deleted |-> TRUE]
             b == [items |-> {}, deleted |-> FALSE]
  <2>2. \E V : versions \in Seq(V)
    <3>1. versions = <<>> \/ versions = <<a, b>>
      BY <2>1, Zenon
    <3> HIDE DEF a, b
    <3>2. \A x, y : <<x, y>> \in Seq({x, y}) /\ <<>> \in Seq({x, y})
      OBVIOUS
    <3>3. <<a, b>> \in Seq({a, b}) /\ <<>> \in Seq({a, b})
      BY <3>2, Zenon
    <3> QED BY <3>1, <3>3, Zenon
  <2>3. \E V : <<>> \in Seq(V)
    <3>1. <<>> \in Seq({})
      OBVIOUS
    <3> QED BY <3>1, Zenon
  <2>4. DOMAIN NoVersions = Stores /\ \A s \in Stores : DOMAIN NoVersions[s] = PodNames
    BY Zenon DEF NoVersions
  <2>5. \A s \in Stores, n \in PodNames : NoVersions[s][n] = <<>>
    BY Zenon DEF NoVersions
  <2> HIDE DEF a, b
  <2>6. DOMAIN pods = Stores /\ \A s \in Stores : DOMAIN pods[s] = PodNames
    BY <2>1, <2>4
  <2>7. \A s \in Stores, n \in PodNames : pods[s][n] = versions \/ pods[s][n] = <<>>
    BY <2>1, <2>4, <2>5
  <2> QED BY <2>2, <2>3, <2>6, <2>7, Zenon DEF IsPods
<1>4. ASSUME NEW p \in SnapProcs PROVE PlanInv(p)
  <2>1. \A req, d, yes : PlanOK(Opening(req), req, d, yes)
    <3>1. \A req, d, yes : PlanOK(<<"parse">>, req, d, yes)
      BY DEF PlanOK, StepOK, StepNames
    <3>2. \A req, d, yes : PlanOK(<<"deps", "parse">>, req, d, yes)
      BY DEF PlanOK, StepOK, StepNames
    <3> QED BY <3>1, <3>2, Zenon DEF Opening
  <2> QED BY <1>1, <2>1, Zenon DEF PlanInv
<1>5. Shapes
  <2>1. snapYes \in [SnapProcs -> BOOLEAN] /\ DOMAIN snapPlan = SnapProcs
    BY <1>1
  <2> QED BY <1>1, <1>2, <1>3, <2>1, Zenon DEF Shapes, IsEmu, IsPods
<1> QED BY <1>4, <1>5 DEF Inv

\* The user's application and the emulator's end leave the commands alone.
LEMMA Outside ==
  ASSUME Inv, NEW h \in Hosts, Deploy(h) \/ EmulatorStops(h)
  PROVE  /\ Inv' /\ UNCHANGED pods
         /\ \A g \in Hosts : emu[g].items \subseteq emu'[g].items \/ ~emu'[g].running
<1>0. IsEmu(emu)
  BY Zenon DEF Inv, Shapes, IsEmu
<1>1. UNCHANGED <<snapReq, snapPlan, snapDst, snapYes, pods>>
  BY Zenon DEF Deploy, EmulatorStops
<1>2. IsEmu(emu') /\ \A g \in Hosts : emu[g].items \subseteq emu'[g].items \/ ~emu'[g].running
  <2>1. CASE Deploy(h)
    <3>1. PICK i \in Items \ emu[h].items : emu' = [emu EXCEPT ![h].items = @ \cup {i}]
      BY <2>1, Zenon DEF Deploy
    <3>2. emu' = [emu EXCEPT ![h].items = emu[h].items \cup {i}]
      BY <1>0, <3>1, Zenon DEF IsEmu
    <3>3. IsEmu(emu')
      BY <1>0, <3>2, SetItems, Zenon DEF IsEmu
    <3>4. ASSUME NEW g \in Hosts PROVE emu'[g].items = IF g = h THEN emu[h].items \cup {i} ELSE emu[g].items
      BY <1>0, <3>2, SetItems, Zenon DEF IsEmu
    <3> QED BY <3>3, <3>4, Zenon
  <2>2. CASE EmulatorStops(h)
    <3>1. emu' = [emu EXCEPT ![h] = [running |-> FALSE, items |-> {}]]
      BY <2>2, Zenon DEF EmulatorStops
    <3>2. IsEmu(emu')
      BY <1>0, <3>1, Zenon DEF IsEmu
    <3>3. \A g \in Hosts : IF g = h THEN ~emu'[g].running ELSE emu'[g] = emu[g]
      BY <1>0, <3>1, Zenon DEF IsEmu
    <3> QED BY <3>2, <3>3, Zenon
  <2> QED BY <2>1, <2>2, Zenon
<1>3. Shapes'
  BY <1>1, <1>2, Zenon DEF Inv, Shapes, IsEmu
<1>4. \A p \in SnapProcs : PlanInv(p)'
  BY <1>1, Zenon DEF Inv, PlanInv
<1> QED BY <1>1, <1>2, <1>3, <1>4, Zenon DEF Inv

\* A command's step keeps the invariant.
LEMMA StepInv ==
  ASSUME Inv, NEW p \in SnapProcs, SnapStep(p)
  PROVE  Inv'
<1>1. /\ snapReq' = snapReq /\ snapYes' \in [SnapProcs -> BOOLEAN]
      /\ DOMAIN snapPlan' = SnapProcs /\ DOMAIN snapDst' = SnapProcs
      /\ \A q \in SnapProcs : PlanInv(q)'
  BY PlansStay, Zenon
<1>2. IsEmu(emu')
  <2>1. "docker" \in Hosts
    BY Zenon DEF Hosts
  <2> QED BY <2>1, LoadsLose, Zenon DEF IsEmu
<1>3. IsPods(pods')
  BY OnlyRemoves, Zenon DEF IsPods
<1>4. snapReq' \in [SnapProcs -> SnapRequests]
  BY <1>1, Zenon DEF Inv, Shapes
<1>5. Shapes'
  BY <1>1, <1>2, <1>3, <1>4, Zenon DEF Shapes, IsEmu, IsPods
<1> QED BY <1>1, <1>5, Zenon DEF Inv

\* One step of one command, or of the world.
LEMMA NextInv == Inv /\ [SnapNext]_snapVars => Inv'
<1> SUFFICES ASSUME Inv, [SnapNext]_snapVars PROVE Inv'
  OBVIOUS
<1>1. CASE UNCHANGED snapVars
  BY <1>1, Zenon DEF snapVars, Inv, Shapes, PlanInv
<1>2. CASE SnapNext
  BY <1>2, StepInv, Outside, Zenon DEF SnapNext
<1> QED BY <1>1, <1>2

\* The inductive invariant: what the steps a command has left may be.
\* (cmd/snapshot.go)
THEOREM InvHolds == SnapSpec => []Inv
<1> QED BY InitInv, NextInv, PTL DEF SnapSpec

\* A pod disappears from the platform only by a remove of that very pod that
\* was agreed to or forced, whatever other commands run. (snapshot/remove.go)
THEOREM RemovalsConfirmed == SnapSpec => RemovalConfirmed
<1> DEFINE Confirmed ==
      \A n \in PodNames : pods["platform"][n] # <<>> /\ pods'["platform"][n] = <<>> =>
        \E p \in SnapProcs : Removed(p, n)
<1>1. Inv /\ [SnapNext]_snapVars => [Confirmed]_snapVars
  <2> SUFFICES ASSUME Inv, SnapNext PROVE Confirmed
    OBVIOUS
  <2>1. CASE \E p \in SnapProcs : SnapStep(p)
    BY <2>1, OnlyRemoves, Zenon
  <2>2. CASE \E h \in Hosts : Deploy(h) \/ EmulatorStops(h)
    <3>1. pods' = pods
      BY <2>2, Outside, Zenon
    <3> QED BY <3>1, Zenon
  <2> QED BY <2>1, <2>2, Zenon DEF SnapNext
<1> QED BY <1>1, InvHolds, PTL DEF SnapSpec, RemovalConfirmed, Removed

\* What an emulator holds shrinks only when it stops or by a load that may
\* replace it; never by a preview, a save or a command on pods.
\* (cmd/snapshot.go, snapshot/load.go)
THEOREM StateLostByLoads == SnapSpec => StateLostOnlyByLoad
<1> DEFINE Kept ==
      \A h \in Hosts : ~(emu[h].items \subseteq emu'[h].items) =>
        \/ ~emu'[h].running
        \/ \E p \in SnapProcs : Loses(p, h)
<1>1. Inv /\ [SnapNext]_snapVars => [Kept]_snapVars
  <2> SUFFICES ASSUME Inv, SnapNext PROVE Kept
    OBVIOUS
  <2>1. CASE \E p \in SnapProcs : SnapStep(p)
    BY <2>1, LoadsLose, Zenon
  <2>2. CASE \E h \in Hosts : Deploy(h) \/ EmulatorStops(h)
    BY <2>2, Outside, Zenon
  <2> QED BY <2>1, <2>2, Zenon DEF SnapNext
<1> QED BY <1>1, InvHolds, PTL DEF SnapSpec, StateLostOnlyByLoad, Loses

-----------------------------------------------------------------------------
\* SavedIsFound. A local save is a command whose destination is a file; only
\* such a command writes files, and two of them with different destinations
\* never have the same inode open.
FileSteps == {"create", "export"}
Quiet(s) == s \in Seq(StepNames \ FileSteps)
SaveSteps ==
  {SaveLocal, <<"health", "running", "create", "export">>, <<"running", "create", "export">>,
   <<"create", "export">>, <<"export">>, <<>>}
Target(req) == WithSnapshotExt(FirstArg(req).path)
Writes(p) == snapReq[p].cmd = "save" /\ snapDst[p].kind = "local"
WriteInv(p) ==
  /\ Writes(p) => /\ snapPlan[p] \in SaveSteps
                  /\ snapDst[p] = Local(Target(snapReq[p])) /\ Len(snapReq[p].args) <= 1
  /\ ~Writes(p) => Quiet(snapPlan[p])

\* A local path is kept as it is.
LEMMA LocalPath == \A path : Local(path).path = path
BY Zenon DEF Local, BadRef

\* A local save has at most one argument, and its file the archive's
\* extension. (ParseDestination)
LEMMA SaveParsed ==
  ASSUME NEW req \in SnapRequests, req.cmd = "save", Parsed(req).kind = "local"
  PROVE  Parsed(req) = Local(Target(req)) /\ Len(req.args) <= 1
<1> DEFINE r == FirstArg(req)
<1>1. Parsed(req) = ParsedSave(req) /\ (Len(req.args) > 1 => IsRemote(req))
  BY Makers, Zenon DEF Parsed
<1>2. ParsedSave(req) = ParseDestination(r) /\ ~IsRemote(req)
  <2>1. CASE ~req.servicesOk
    BY <1>1, <2>1, Makers, Zenon DEF ParsedSave
  <2>2. CASE req.servicesOk /\ IsRemote(req)
    <3>1. ParsedSave(req) = ClassifyArgs(req)
      BY <2>2, Zenon DEF ParsedSave
    <3> QED BY <1>1, <3>1, Args, Zenon
  <2>3. CASE req.servicesOk /\ ~IsRemote(req)
    BY <2>3, Zenon DEF ParsedSave
  <2> QED BY <2>1, <2>2, <2>3
<1>3. ParseDestination(r) = Local(WithSnapshotExt(r.path))
  <2>0. r \in Refs /\ ParseDestination(r).kind = "local"
    BY <1>1, <1>2, FirstArgs, Zenon
  <2> HIDE DEF r
  <2>1. CASE r.form = "pod"
    <3>1. ParseDestination(r) = ParsePodRef(r, FALSE)
      BY <2>1, Zenon DEF ParseDestination
    <3> QED BY <2>0, <3>1, PodRefs, Zenon
  <2>2. CASE r.form = "s3"
    <3>1. ParseDestination(r) = S3("") \/ ParseDestination(r) = BadRef("s3Url")
      BY <2>2, Zenon DEF ParseDestination, ParseS3
    <3> QED BY <2>0, <3>1, Makers, Zenon
  <2>3. CASE r.form \in {"empty", "path"}
    <3>1. ParseDestination(r) = IF ~r.ok THEN BadRef("parent")
                                ELSE IF dir[r.path] = "folder" THEN BadRef("directory")
                                ELSE Local(WithSnapshotExt(r.path))
      BY <2>3, Zenon DEF ParseDestination
    <3> QED BY <2>0, <3>1, Makers, Zenon
  <2>4. CASE r.form \notin {"pod", "s3", "empty", "path"}
    <3>1. ParseDestination(r) = BadRef(RefusedForm(r))
      BY <2>4, Zenon DEF ParseDestination
    <3> QED BY <2>0, <3>1, Makers, Zenon
  <2> QED BY <2>1, <2>2, <2>3, <2>4
<1>4. Len(req.args) <= 1
  <2>1. ~(Len(req.args) > 1)
    BY <1>1, <1>2, Zenon
  <2>2. Len(req.args) \in Nat
    <3>1. req.args \in Seq(Refs)
      BY SnapRequestsOK, Zenon
    <3> QED BY <3>1
  <2> QED BY <2>1, <2>2
<1> QED BY <1>1, <1>2, <1>3, <1>4, Zenon DEF Target

\* No other command has a step that writes a file.
LEMMA QuietPlans ==
  ASSUME NEW req \in SnapRequests, Parsed(req).kind # "error",
         ~(req.cmd = "save" /\ Parsed(req).kind = "local")
  PROVE  Quiet(AfterParse(req, Parsed(req)))
<1> DEFINE d == Parsed(req)
<1>0. req.cmd \in {"save", "load", "start", "remove", "list", "show", "versions"}
  BY SnapRequestsOK, Zenon
<1>1. /\ Quiet(SavePod) /\ Quiet(SaveRemoteS3) /\ Quiet(LoadRemoteS3) /\ Quiet(DiffPod) /\ Quiet(LoadPod)
      /\ Quiet(ListRemoteS3) /\ Quiet(ListPods) /\ Quiet(ShowPod) /\ Quiet(PodVersions)
  <2>1. Quiet(SavePod) /\ Quiet(LoadPod) /\ Quiet(DiffPod)
    BY DEF Quiet, FileSteps, StepNames, SavePod, LoadPod, DiffPod
  <2>2. Quiet(SaveRemoteS3)
    BY DEF Quiet, FileSteps, StepNames, SaveRemoteS3
  <2>3. Quiet(LoadRemoteS3)
    BY DEF Quiet, FileSteps, StepNames, LoadRemoteS3
  <2>4. Quiet(ListRemoteS3)
    BY DEF Quiet, FileSteps, StepNames, ListRemoteS3
  <2>5. Quiet(ListPods) /\ Quiet(ShowPod) /\ Quiet(PodVersions)
    BY DEF Quiet, FileSteps, StepNames, ListPods, ShowPod, PodVersions
  <2> QED BY <2>1, <2>2, <2>3, <2>4, <2>5
<1>2. /\ Quiet(<<>>) /\ Quiet(<<"deps">>) /\ Quiet(<<"launch">>) /\ Quiet(<<"reset">>) /\ Quiet(<<"confirm">>)
      /\ Quiet(<<"open", "import">>) /\ Quiet(<<"health", "running">>) /\ Quiet(<<"podRemove">>)
      /\ Quiet(<<"auth", "health", "running">>)
  BY DEF Quiet, FileSteps, StepNames
<1>3. \A s, t : Quiet(s) /\ Quiet(t) => Quiet(s \o t)
  BY DEF Quiet
<1>4. Quiet(LoadLocal(req))
  <2>1. \/ LoadLocal(req) = (<<"health", "running">> \o <<"reset">>) \o <<"open", "import">>
        \/ LoadLocal(req) = (<<"health", "running">> \o <<>>) \o <<"open", "import">>
    BY Zenon DEF LoadLocal
  <2> QED BY <1>2, <1>3, <2>1, Zenon
<1>5. CASE req.cmd = "save"
  <2>1. d.kind \in DestKinds
    BY <1>5, ParsedSaves, Zenon
  <2> HIDE DEF d
  <2>2. d.kind = "pod" \/ d.kind = "s3"
    BY <1>5, <2>1, Zenon DEF DestKinds, d
  <2>3. CASE d.kind = "pod"
    BY <1>1, <1>5, <2>3, Zenon DEF AfterParse, d
  <2>4. CASE d.kind = "s3"
    BY <1>1, <1>5, <2>4, Zenon DEF AfterParse, d
  <2> QED BY <2>2, <2>3, <2>4
<1>6. CASE req.cmd = "load"
  <2>1. d.kind \in DestKinds
    BY <1>6, ParsedLoads, Zenon
  <2> HIDE DEF d
  <2>2. d.kind = "local" \/ d.kind = "pod" \/ d.kind = "s3"
    BY <2>1, Zenon DEF DestKinds, d
  <2>3. CASE d.kind = "local"
    <3>1. AfterParse(req, d) = <<"deps">> \o LoadLocal(req)
      BY <1>6, <2>3, Zenon DEF AfterParse
    <3> QED BY <1>2, <1>3, <1>4, <3>1, Zenon DEF d
  <2>4. CASE d.kind = "pod" /\ req.dryRun
    BY <1>1, <1>6, <2>4, Zenon DEF AfterParse, d
  <2>5. CASE d.kind = "pod" /\ ~req.dryRun
    <3>1. AfterParse(req, d) = <<"deps">> \o LoadPod
      BY <1>6, <2>5, Zenon DEF AfterParse
    <3> QED BY <1>1, <1>2, <1>3, <3>1, Zenon DEF d
  <2>6. CASE d.kind = "s3"
    BY <1>1, <1>6, <2>6, Zenon DEF AfterParse, d
  <2> QED BY <2>2, <2>3, <2>4, <2>5, <2>6
<1>7. CASE req.cmd = "start"
  <2> HIDE DEF d
  <2>1. AfterParse(req, d) = AutoLoad(req, d)
    BY <1>7, Zenon DEF AfterParse
  <2>2. \/ AutoLoad(req, d) = <<"launch">> \o <<>>
        \/ AutoLoad(req, d) = <<"launch">> \o LoadPod
        \/ AutoLoad(req, d) = <<"launch">> \o LoadLocal(req)
    BY Zenon DEF AutoLoad
  <2>3. Quiet(AutoLoad(req, d))
    BY <1>1, <1>2, <1>3, <1>4, <2>2, Zenon
  <2> QED BY <2>1, <2>3, Zenon DEF d
<1>8. CASE req.cmd = "remove"
  <2> DEFINE front == IF req.interactive THEN <<>> ELSE <<"deps">>
             ask == IF req.force THEN <<>> ELSE <<"confirm">>
  <2> HIDE DEF d
  <2>1. AfterParse(req, d) = ((front \o <<"auth", "health", "running">>) \o ask) \o <<"podRemove">>
    BY <1>8, Zenon DEF AfterParse, RemovePlan
  <2>2. Quiet(front) /\ Quiet(ask)
    BY <1>2, Zenon
  <2> HIDE DEF front, ask
  <2> QED BY <1>2, <1>3, <2>1, <2>2, Zenon DEF d
<1>9. CASE req.cmd \in {"list", "show", "versions"}
  <2> HIDE DEF d
  <2>1. AfterParse(req, d) \in {ListRemoteS3, ListPods, ShowPod, PodVersions}
    <3>1. CASE req.cmd = "list"
      BY <3>1, Zenon DEF AfterParse
    <3>2. CASE req.cmd = "show"
      BY <3>2, Zenon DEF AfterParse
    <3>3. CASE req.cmd = "versions"
      BY <3>3, Zenon DEF AfterParse
    <3> QED BY <1>9, <3>1, <3>2, <3>3, Zenon
  <2> QED BY <1>1, <2>1, Zenon DEF d
<1> QED BY <1>0, <1>5, <1>6, <1>7, <1>8, <1>9, Zenon

\* The steps of a save, one by one.
LEMMA SaveTails ==
  ASSUME NEW s \in SaveSteps, s # <<>>
  PROVE  /\ Tail(s) \in SaveSteps /\ Head(s) \in {"deps", "health", "running", "create", "export"}
         /\ Head(s) = "export" <=> s = <<"export">>
         /\ Head(s) = "export" <=> Len(s) = 1
         /\ Head(s) = "create" <=> Tail(s) = <<"export">>
<1>1. CASE s = SaveLocal
  BY <1>1 DEF SaveLocal, SaveSteps
<1>2. CASE s = <<"health", "running", "create", "export">>
  BY <1>2 DEF SaveSteps
<1>3. CASE s = <<"running", "create", "export">>
  BY <1>3 DEF SaveSteps
<1>4. CASE s = <<"create", "export">>
  BY <1>4 DEF SaveSteps
<1>5. CASE s = <<"export">>
  BY <1>5 DEF SaveSteps
<1> QED BY <1>1, <1>2, <1>3, <1>4, <1>5 DEF SaveSteps

\* Of a quiet plan the rest is quiet.
LEMMA QuietTails ==
  ASSUME NEW s, Quiet(s), s # <<>>
  PROVE  Quiet(Tail(s)) /\ Head(s) \notin FileSteps
BY DEF Quiet

\* A step of p keeps the writers writing to where they did; a new one starts
\* with its first step.
LEMMA WritersStay ==
  ASSUME Inv, \A q \in SnapProcs : WriteInv(q), NEW p \in SnapProcs, SnapStep(p)
  PROVE  /\ \A q \in SnapProcs : WriteInv(q)'
         /\ \A q \in SnapProcs : Writes(q) => Writes(q)' /\ snapDst'[q] = snapDst[q]
         /\ \A q \in SnapProcs : q # p => (Writes(q)' => Writes(q)) /\ snapPlan'[q] = snapPlan[q]
         /\ ~Writes(p) /\ Writes(p)' =>
              snapPlan'[p] = SaveLocal /\ snapEnd' = snapEnd /\ snapEnd[p] = "busy"
<1>0. /\ snapReq \in [SnapProcs -> SnapRequests] /\ DOMAIN snapPlan = SnapProcs /\ DOMAIN snapDst = SnapProcs
      /\ WriteInv(p) /\ PlanInv(p)
  BY Zenon DEF Inv, Shapes
<1>1. CASE ParseRefs(p)
  <2> DEFINE d == Parsed(snapReq[p])
  <2>1. /\ snapReq' = snapReq /\ snapDst' = [snapDst EXCEPT ![p] = d]
        /\ snapEnd[p] = "busy" /\ snapPlan[p] # <<>> /\ Head(snapPlan[p]) = "parse"
        /\ d.kind = "error" => snapPlan' = snapPlan
        /\ d.kind # "error" =>
             snapPlan' = [snapPlan EXCEPT ![p] = AfterParse(snapReq[p], d) \o Tail(@)] /\ snapEnd' = snapEnd
    BY <1>1 DEF ParseRefs, SnapAt, SnapStops
  <2> HIDE DEF d
  <2>2. ~Writes(p) /\ Quiet(snapPlan[p])
    <3>1. Writes(p) => snapPlan[p] \in SaveSteps
      BY <1>0, Zenon DEF WriteInv
    <3> QED BY <1>0, <2>1, <3>1, SaveTails DEF WriteInv
  <2>3. snapPlan[p] = <<"parse">>
    <3>1. snapPlan[p] \in Seq(StepNames) /\ 1 \in 1..Len(snapPlan[p]) /\ snapPlan[p][1] = "parse"
      BY <1>0, <2>1 DEF PlanInv, PlanOK
    <3>2. StepOK(snapPlan[p], 1, snapReq[p], snapDst[p], snapYes[p])
      BY <1>0, <3>1, Zenon DEF PlanInv, PlanOK
    <3>3. Len(snapPlan[p]) = 1
      BY <3>1, <3>2, Zenon DEF StepOK
    <3> QED BY <3>1, <3>3
  <2>4. snapDst'[p] = d /\ snapReq'[p] = snapReq[p]
    BY <1>0, <2>1, Zenon
  <2>5. CASE d.kind = "error"
    <3>1. ~Writes(p)' /\ snapPlan'[p] = snapPlan[p]
      <4>1. "error" # "local"
        OBVIOUS
      <4> QED BY <2>1, <2>4, <2>5, <4>1, Zenon DEF Writes
    <3>2. WriteInv(p)'
      BY <2>2, <3>1, Zenon DEF WriteInv
    <3> QED BY <1>0, <2>1, <2>2, <2>5, <3>1, <3>2, Zenon DEF WriteInv, Writes
  <2>6. CASE d.kind # "error"
    <3>1. snapPlan'[p] = AfterParse(snapReq[p], d) \o <<>>
      <4>1. Tail(<<"parse">>) = <<>>
        OBVIOUS
      <4>2. snapPlan'[p] = AfterParse(snapReq[p], d) \o Tail(snapPlan[p])
        BY <1>0, <2>1, <2>6, Zenon
      <4> QED BY <2>3, <4>1, <4>2, Zenon
    <3>2. CASE snapReq[p].cmd = "save" /\ d.kind = "local"
      <4>1. AfterParse(snapReq[p], d) = SaveLocal
        BY <3>2, Zenon DEF AfterParse
      <4>2. SaveLocal \o <<>> = SaveLocal
        BY DEF SaveLocal
      <4>3. snapPlan'[p] = SaveLocal
        BY <3>1, <4>1, <4>2, Zenon
      <4>4. d = Local(Target(snapReq[p])) /\ Len(snapReq[p].args) <= 1
        BY <1>0, <3>2, SaveParsed, Zenon DEF d
      <4>5. WriteInv(p)'
        BY <2>4, <3>2, <4>3, <4>4, Zenon DEF WriteInv, Writes, SaveSteps
      <4> QED BY <1>0, <2>1, <2>2, <2>6, <4>3, <4>5, Zenon DEF WriteInv, Writes
    <3>3. CASE ~(snapReq[p].cmd = "save" /\ d.kind = "local")
      <4>1. Quiet(AfterParse(snapReq[p], d))
        BY <1>0, <2>6, <3>3, QuietPlans, Zenon DEF d
      <4>2. Quiet(snapPlan'[p])
        <5>1. \A s : Quiet(s) => s \o <<>> = s
          BY DEF Quiet
        <5> QED BY <3>1, <4>1, <5>1, Zenon
      <4>3. ~Writes(p)' /\ WriteInv(p)'
        BY <2>4, <3>3, <4>2, Zenon DEF WriteInv, Writes
      <4> QED BY <1>0, <2>1, <2>2, <2>6, <4>3, Zenon DEF WriteInv, Writes
    <3> QED BY <3>2, <3>3
  <2> QED BY <2>5, <2>6
<1>2. CASE ConfirmRemoval(p) \/ Advances(p)
  <2>1. /\ UNCHANGED <<snapReq, snapDst>>
        /\ \/ snapPlan' = snapPlan
           \/ snapPlan[p] # <<>> /\ snapPlan' = [snapPlan EXCEPT ![p] = Tail(@)]
    BY <1>2 DEF ConfirmRemoval, Advances, SnapAt, SnapProceeds, SnapStops, SnapWorld
  <2>2. \A q \in SnapProcs : (Writes(q)' <=> Writes(q)) /\ snapDst'[q] = snapDst[q] /\ snapReq'[q] = snapReq[q]
    BY <2>1, Zenon DEF Writes
  <2>3. ASSUME NEW q \in SnapProcs PROVE WriteInv(q)' /\ (q # p => snapPlan'[q] = snapPlan[q])
    <3>1. CASE snapPlan'[q] = snapPlan[q]
      BY <2>2, <3>1, Zenon DEF WriteInv
    <3>2. CASE snapPlan'[q] # snapPlan[q]
      <4>1. q = p /\ snapPlan[p] # <<>> /\ snapPlan'[p] = Tail(snapPlan[p])
        BY <1>0, <2>1, <3>2, Zenon
      <4> QED BY <1>0, <2>2, <4>1, SaveTails, QuietTails, Zenon DEF WriteInv
    <3> QED BY <3>1, <3>2
  <2> QED BY <2>2, <2>3, Zenon
<1> QED BY <1>1, <1>2, StepsAdvance, Zenon

\* What a step of a local save may be.
LEMMA WriterSteps ==
  ASSUME NEW p \in SnapProcs, Writes(p), WriteInv(p), SnapStep(p)
  PROVE  \/ ResolveDeps(p) \/ CheckHealth(p) \/ RequireRunning(p) \/ SnapKilled(p)
         \/ CreateFile(p) \/ ExportState(p) \/ (CallFails(p) /\ SnapAt(p, "export"))
<1>1. \A step : SnapAt(p, step) => step \in {"deps", "health", "running", "create", "export"}
  BY SaveTails, Zenon DEF SnapAt, WriteInv
<1>2. /\ ~SnapAt(p, "parse") /\ ~SnapAt(p, "credentials") /\ ~SnapAt(p, "auth") /\ ~SnapAt(p, "bucket")
      /\ ~SnapAt(p, "launch") /\ ~SnapAt(p, "confirm") /\ ~SnapAt(p, "open") /\ ~SnapAt(p, "platform")
      /\ \A c \in Calls : SnapAt(p, c) => c = "export"
  BY <1>1 DEF Calls
<1>3. /\ ~SnapAt(p, "import") /\ ~SnapAt(p, "reset") /\ ~SnapAt(p, "register") /\ ~SnapAt(p, "listRemote")
      /\ ~SnapAt(p, "diff") /\ ~SnapAt(p, "podSave") /\ ~SnapAt(p, "podLoad") /\ ~SnapAt(p, "podRemove")
  BY <1>1
<1>4. CallFails(p) => SnapAt(p, "export")
  BY <1>2, Zenon DEF CallFails
<1> QED BY <1>2, <1>3, <1>4, Zenon
        DEF SnapStep, ParseRefs, ResolveS3Credentials, RequireToken, EnsureBucketExists, LaunchEmulator,
            ConfirmRemoval, OpenFile, ImportState, ResetState, RegisterRemote, ListPodsRemote, DiffPodSnapshot,
            PodSave, PodSaveFails, PodLoad, PodRemove, PlatformCall, Answered

\* Any other command leaves the files alone.
LEMMA OthersWriteNothing ==
  ASSUME NEW p \in SnapProcs, ~Writes(p), WriteInv(p), SnapStep(p)
  PROVE  UNCHANGED <<dir, inodes>>
<1>1. ~SnapAt(p, "create") /\ ~SnapAt(p, "export")
  BY QuietTails, Zenon DEF SnapAt, WriteInv, FileSteps
<1>2. ~CreateFile(p) /\ ~ExportState(p)
  BY <1>1, Zenon DEF CreateFile, ExportState, Answered
<1>3. CallFails(p) => UNCHANGED <<dir, inodes>>
  BY <1>1, Zenon DEF CallFails
<1> QED BY <1>2, <1>3, Zenon
        DEF SnapStep, ParseRefs, ResolveS3Credentials, ResolveDeps, RequireToken, EnsureBucketExists, CheckHealth,
            LaunchEmulator, RequireRunning, ConfirmRemoval, OpenFile, ImportState, ResetState, RegisterRemote,
            ListPodsRemote, DiffPodSnapshot, PodSave, PodSaveFails, PodLoad, PodRemove, PlatformCall, SnapKilled,
            SnapWorld, ReadsOnly

-----------------------------------------------------------------------------
\* An inode belongs where it was made: the earlier one at the path early,
\* another at its maker's destination. Opened: the file is made, and the
\* export to come or done.
Owned(early, i, path) ==
  (i = "earlier" /\ path = early) \/ (i \in SnapProcs /\ Writes(i) /\ path = snapDst[i].path)
Opened(p) ==
  Writes(p) /\ ((snapEnd[p] = "busy" /\ snapPlan[p] = <<"export">>) \/ snapEnd[p] = "ok")
Sole(p) == \A q \in SnapProcs \ {p} : Writes(q) => snapDst[q].path # snapDst[p].path
OpenInv(early, p) ==
  Opened(p) =>
    /\ Owned(early, snapFd[p], snapDst[p].path)
    /\ Sole(p) => dir[snapDst[p].path] = snapFd[p]
    /\ Sole(p) /\ snapEnd[p] = "ok" => inodes[snapFd[p]] = Archive(snapHeld[p])
FileTypes ==
  /\ DOMAIN dir = Paths /\ DOMAIN inodes = SnapProcs \cup {"earlier"}
  /\ DOMAIN snapFd = SnapProcs /\ DOMAIN snapHeld = SnapProcs /\ DOMAIN snapEnd = SnapProcs
FileInv(early) ==
  /\ FileTypes
  /\ \A p \in SnapProcs : WriteInv(p) /\ OpenInv(early, p)
  /\ \A path \in Paths : IsFile(path) => Owned(early, dir[path], path)

\* Inodes of different places are different.
LEMMA Elsewhere ==
  ASSUME NEW early, NEW i, NEW j, NEW x, NEW y, Owned(early, i, x), Owned(early, j, y), x # y
  PROVE  i # j /\ i \in SnapProcs \cup {"earlier"} /\ i \notin {"none", "folder"}
BY SnapConstants DEF Owned

\* The variables of the other commands.
LEMMA OthersLocals ==
  ASSUME FileTypes, NEW p \in SnapProcs, SnapStep(p), NEW q \in SnapProcs, q # p
  PROVE  snapFd'[q] = snapFd[q] /\ snapHeld'[q] = snapHeld[q] /\ snapEnd'[q] = snapEnd[q]
<1> USE DEF SnapAt, SnapProceeds, SnapStops, SnapLocals, SnapWorld, Answered, ReadsOnly, FileTypes
<1>1. CASE ParseRefs(p) \/ ResolveS3Credentials(p) \/ ResolveDeps(p) \/ RequireToken(p)
  BY <1>1 DEF ParseRefs, ResolveS3Credentials, ResolveDeps, RequireToken
<1>2. CASE EnsureBucketExists(p) \/ CheckHealth(p) \/ LaunchEmulator(p) \/ RequireRunning(p)
  BY <1>2 DEF EnsureBucketExists, CheckHealth, LaunchEmulator, RequireRunning
<1>3. CASE CreateFile(p) \/ OpenFile(p) \/ ConfirmRemoval(p)
  BY <1>3 DEF CreateFile, OpenFile, ConfirmRemoval
<1>4. CASE CallFails(p) \/ ExportState(p)
  BY <1>4 DEF CallFails, ExportState
<1>5. CASE ImportState(p) \/ PodLoad(p)
  BY <1>5 DEF ImportState, PodLoad, LoadStream
<1>6. CASE ResetState(p) \/ RegisterRemote(p) \/ ListPodsRemote(p) \/ DiffPodSnapshot(p)
  BY <1>6 DEF ResetState, RegisterRemote, ListPodsRemote, DiffPodSnapshot
<1>7. CASE PodSave(p) \/ PodSaveFails(p) \/ PodRemove(p)
  BY <1>7 DEF PodSave, PodSaveFails, PodRemove
<1>8. CASE PlatformCall(p) \/ SnapKilled(p)
  BY <1>8 DEF PlatformCall, SnapKilled
<1> QED BY <1>1, <1>2, <1>3, <1>4, <1>5, <1>6, <1>7, <1>8, Zenon DEF SnapStep

\* The variables keep their domains.
LEMMA FrameDomains ==
  ASSUME FileTypes, NEW p \in SnapProcs, SnapStep(p)
  PROVE  DOMAIN snapFd' = SnapProcs /\ DOMAIN snapHeld' = SnapProcs /\ DOMAIN snapEnd' = SnapProcs
<1> USE DEF SnapAt, SnapProceeds, SnapStops, SnapLocals, SnapWorld, Answered, ReadsOnly, FileTypes
<1>1. CASE ParseRefs(p) \/ ResolveS3Credentials(p) \/ ResolveDeps(p) \/ RequireToken(p)
  BY <1>1 DEF ParseRefs, ResolveS3Credentials, ResolveDeps, RequireToken
<1>2. CASE EnsureBucketExists(p) \/ CheckHealth(p) \/ LaunchEmulator(p) \/ RequireRunning(p)
  BY <1>2 DEF EnsureBucketExists, CheckHealth, LaunchEmulator, RequireRunning
<1>3. CASE CreateFile(p) \/ OpenFile(p) \/ ConfirmRemoval(p)
  BY <1>3 DEF CreateFile, OpenFile, ConfirmRemoval
<1>4. CASE CallFails(p) \/ ExportState(p)
  BY <1>4 DEF CallFails, ExportState
<1>5. CASE ImportState(p) \/ PodLoad(p)
  BY <1>5 DEF ImportState, PodLoad, LoadStream
<1>6. CASE ResetState(p) \/ RegisterRemote(p) \/ ListPodsRemote(p) \/ DiffPodSnapshot(p)
  BY <1>6 DEF ResetState, RegisterRemote, ListPodsRemote, DiffPodSnapshot
<1>7. CASE PodSave(p) \/ PodSaveFails(p) \/ PodRemove(p)
  BY <1>7 DEF PodSave, PodSaveFails, PodRemove
<1>8. CASE PlatformCall(p) \/ SnapKilled(p)
  BY <1>8 DEF PlatformCall, SnapKilled
<1> QED BY <1>1, <1>2, <1>3, <1>4, <1>5, <1>6, <1>7, <1>8, Zenon DEF SnapStep

\* The destination of a local save is a path.
LEMMA WriterPaths ==
  ASSUME snapReq \in [SnapProcs -> SnapRequests], NEW p \in SnapProcs, Writes(p), WriteInv(p)
  PROVE  snapDst[p].path \in Paths /\ snapDst[p].path = Target(snapReq[p])
<1>1. snapDst[p].path = Target(snapReq[p])
  BY LocalPath, Zenon DEF WriteInv
<1>2. FirstArg(snapReq[p]).path \in Paths
  <2>1. FirstArg(snapReq[p]) \in Refs
    BY FirstArgs, Zenon
  <2> QED BY <2>1 DEF Refs
<1>3. \A path \in Paths : WithSnapshotExt(path) \in Paths
  BY DEF WithSnapshotExt, Paths
<1> QED BY <1>1, <1>2, <1>3, Zenon DEF Target

\* A command that stops is not open, nor is one whose next step is another.
LEMMA NotOpened ==
  ASSUME NEW p \in SnapProcs, Writes(p), WriteInv(p), DOMAIN snapPlan = SnapProcs, DOMAIN snapEnd = SnapProcs,
         \/ \E why : SnapStops(p, why) /\ why \notin {"ok", "busy"}
         \/ SnapProceeds(p) /\ \E step \in {"deps", "health", "running"} : SnapAt(p, step)
  PROVE  ~Opened(p)'
<1>1. CASE \E why : SnapStops(p, why) /\ why \notin {"ok", "busy"}
  BY <1>1 DEF SnapStops, Opened
<1>2. CASE SnapProceeds(p) /\ \E step \in {"deps", "health", "running"} : SnapAt(p, step)
  <2>1. /\ snapPlan[p] \in SaveSteps /\ snapPlan[p] # <<>> /\ Head(snapPlan[p]) \in {"deps", "health", "running"}
        /\ snapPlan'[p] = Tail(snapPlan[p])
        /\ snapEnd'[p] = IF Len(snapPlan[p]) = 1 THEN "ok" ELSE "busy"
    BY <1>2 DEF SnapProceeds, SnapAt, WriteInv
  <2>2. Head(snapPlan[p]) # "create" /\ Head(snapPlan[p]) # "export"
    BY <2>1
  <2>3. Tail(snapPlan[p]) # <<"export">> /\ Len(snapPlan[p]) # 1
    BY <2>1, <2>2, SaveTails, Zenon
  <2> QED BY <2>1, <2>3 DEF Opened
<1> QED BY <1>1, <1>2

\* A failed export has no good name.
LEMMA ExportErrors == \A r : Classify("export", r) \notin {"ok", "busy"}
<1> SUFFICES ASSUME NEW r PROVE Classify("export", r) \notin {"ok", "busy"}
  OBVIOUS
<1>1. CASE IsFeatureUnavailable(r)
  BY <1>1, Zenon DEF Classify
<1>2. CASE ~IsFeatureUnavailable(r)
  BY <1>2, Zenon DEF Classify
<1> QED BY <1>1, <1>2

\* A local save changes the file at its destination and the inode there.
LEMMA WriterWrites ==
  ASSUME Inv, NEW early, FileInv(early), NEW p \in SnapProcs, SnapStep(p), Writes(p), snapDst[p].path \in Paths
  PROVE  \E i : /\ Owned(early, i, snapDst[p].path)
                /\ inodes' = inodes \/ \E x : inodes' = [inodes EXCEPT ![i] = x]
                /\ \/ dir' = dir
                   \/ \E y : /\ dir' = [dir EXCEPT ![snapDst[p].path] = y]
                             /\ y \in {"none", "folder"} \/ Owned(early, y, snapDst[p].path)
                /\ OpenInv(early, p)'
<1> DEFINE path == snapDst[p].path
<1>0. /\ FileTypes /\ WriteInv(p) /\ OpenInv(early, p) /\ Owned(early, p, path)
      /\ DOMAIN snapPlan = SnapProcs /\ DOMAIN snapDst = SnapProcs /\ DOMAIN snapEnd = SnapProcs
      /\ \A q \in SnapProcs : WriteInv(q)
  BY Zenon DEF Inv, Shapes, FileInv, FileTypes, Owned
<1>K. /\ \A q \in SnapProcs : Writes(q) => Writes(q)' /\ snapDst'[q] = snapDst[q]
      /\ \A i, x : Owned(early, i, x) => Owned(early, i, x)'
      /\ Sole(p)' => Sole(p)
  <2>1. \A q \in SnapProcs : Writes(q) => Writes(q)' /\ snapDst'[q] = snapDst[q]
    BY <1>0, WritersStay, Zenon
  <2> QED BY <2>1, Zenon DEF Owned, Sole
<1>1. CASE ~Opened(p)' /\ UNCHANGED <<dir, inodes>>
  BY <1>0, <1>1, Zenon DEF OpenInv
<1>2. CASE ~Opened(p)' /\ RemoveFile(p) /\ UNCHANGED inodes
  <2>1. dir' = [dir EXCEPT ![path] = IF dir[path] = "folder" THEN dir[path] ELSE "none"]
    BY <1>0, <1>2 DEF RemoveFile, FileTypes
  <2> DEFINE y == IF dir[path] = "folder" THEN dir[path] ELSE "none"
  <2>2. y \in {"none", "folder"}
    BY Zenon
  <2>3. dir' = [dir EXCEPT ![path] = y]
    BY <2>1
  <2> HIDE DEF y
  <2> QED BY <1>0, <1>2, <2>2, <2>3, Zenon DEF OpenInv
<1>3. CASE ResolveDeps(p) \/ CheckHealth(p) \/ RequireRunning(p) \/ SnapKilled(p)
  <2>1. UNCHANGED <<dir, inodes>>
    BY <1>3 DEF ResolveDeps, CheckHealth, RequireRunning, SnapKilled, SnapWorld
  <2>2. \/ \E why : SnapStops(p, why) /\ why \notin {"ok", "busy"}
        \/ SnapProceeds(p) /\ \E step \in {"deps", "health", "running"} : SnapAt(p, step)
    <3>1. CASE ResolveDeps(p)
      BY <3>1 DEF ResolveDeps
    <3>2. CASE CheckHealth(p)
      BY <3>2 DEF CheckHealth
    <3>3. CASE RequireRunning(p)
      BY <3>3 DEF RequireRunning
    <3>4. CASE SnapKilled(p)
      BY <3>4 DEF SnapKilled
    <3> QED BY <1>3, <3>1, <3>2, <3>3, <3>4
  <2> QED BY <1>0, <1>1, <2>1, <2>2, NotOpened, Zenon
<1>4. CASE CreateFile(p)
  <2> DEFINE inode == IF dir[path] = "none" THEN p ELSE dir[path]
  <2>1. CASE SnapStops(p, "create") /\ UNCHANGED <<dir, inodes, snapFd>>
    <3>1. "create" \notin {"ok", "busy"}
      OBVIOUS
    <3> QED BY <1>0, <1>1, <2>1, <3>1, NotOpened, Zenon
  <2>2. CASE ~(SnapStops(p, "create") /\ UNCHANGED <<dir, inodes, snapFd>>)
    <3>1. /\ dir[path] # "folder" /\ SnapProceeds(p) /\ SnapAt(p, "create")
          /\ dir' = [dir EXCEPT ![path] = inode] /\ inodes' = [inodes EXCEPT ![inode] = Torn]
          /\ snapFd' = [snapFd EXCEPT ![p] = inode]
      BY <1>4, <2>2, Zenon DEF CreateFile
    <3>2. Owned(early, inode, path)
      BY <1>0, <3>1, Zenon DEF FileInv, IsFile
    <3> HIDE DEF inode
    <3>3. snapEnd'[p] = "busy"
      <4>1. snapPlan[p] \in SaveSteps /\ snapPlan[p] # <<>> /\ Head(snapPlan[p]) = "create"
        BY <1>0, <3>1, Zenon DEF SnapAt, WriteInv
      <4>2. Len(snapPlan[p]) # 1
        BY <4>1, SaveTails
      <4> QED BY <1>0, <3>1, <4>2 DEF SnapProceeds
    <3>4. snapFd'[p] = inode /\ dir'[path] = inode /\ snapDst'[p] = snapDst[p]
      BY <1>0, <1>K, <3>1 DEF FileTypes
    <3>5. OpenInv(early, p)'
      <4>1. snapEnd'[p] # "ok"
        BY <3>3
      <4> QED BY <1>K, <3>2, <3>4, <4>1, Zenon DEF OpenInv
    <3> QED BY <3>1, <3>2, <3>5, Zenon
  <2> QED BY <2>1, <2>2
<1>5. CASE ExportState(p)
  <2>1. SnapAt(p, "export")
    BY <1>5, Zenon DEF ExportState, Answered
  <2>2. Opened(p) /\ snapPlan[p] = <<"export">>
    <3>1. snapPlan[p] \in SaveSteps /\ snapPlan[p] # <<>> /\ Head(snapPlan[p]) = "export" /\ snapEnd[p] = "busy"
      BY <1>0, <2>1, Zenon DEF SnapAt, WriteInv
    <3> QED BY <3>1, SaveTails, Zenon DEF Opened
  <2>3. Owned(early, snapFd[p], path) /\ (Sole(p) => dir[path] = snapFd[p])
    BY <1>0, <2>2, Zenon DEF OpenInv
  <2>4. snapFd' = snapFd
    BY <1>5 DEF ExportState
  <2>5. CASE /\ SnapProceeds(p) /\ inodes' = [inodes EXCEPT ![snapFd[p]] = Archive(Held(p))]
             /\ snapHeld' = [snapHeld EXCEPT ![p] = Held(p)] /\ UNCHANGED dir
    <3>1. inodes'[snapFd[p]] = Archive(Held(p)) /\ snapHeld'[p] = Held(p)
      <4>1. snapFd[p] \in DOMAIN inodes
        BY <1>0, <2>3 DEF Owned, FileTypes
      <4>2. inodes'[snapFd[p]] = Archive(Held(p))
        BY <2>5, <4>1, Zenon
      <4>3. snapHeld'[p] = Held(p)
        BY <1>0, <2>5, Zenon DEF FileTypes
      <4> QED BY <4>2, <4>3
    <3>2. OpenInv(early, p)'
      BY <1>K, <2>3, <2>4, <2>5, <3>1, Zenon DEF OpenInv
    <3> QED BY <2>3, <2>5, <3>2, Zenon
  <2>6. CASE SnapStops(p, "stream") /\ RemoveFile(p) /\ UNCHANGED <<inodes, snapHeld>>
    <3>1. "stream" \notin {"ok", "busy"}
      OBVIOUS
    <3> QED BY <1>0, <1>2, <2>6, <3>1, NotOpened, Zenon
  <2>7. CASE SnapStops(p, "close") /\ inodes' = [inodes EXCEPT ![snapFd[p]] = Torn] /\ UNCHANGED <<dir, snapHeld>>
    <3>1. "close" \notin {"ok", "busy"}
      OBVIOUS
    <3>2. ~Opened(p)'
      BY <1>0, <2>7, <3>1, NotOpened, Zenon
    <3> QED BY <2>3, <2>7, <3>2, Zenon DEF OpenInv
  <2> QED BY <1>5, <2>5, <2>6, <2>7, Zenon DEF ExportState
<1>6. CASE CallFails(p) /\ SnapAt(p, "export")
  <2>1. RemoveFile(p) /\ UNCHANGED inodes
    BY <1>6 DEF CallFails
  <2>2. \E why : SnapStops(p, why) /\ why \notin {"ok", "busy"}
    <3>1. PICK call \in Calls : /\ SnapAt(p, call)
                                /\ SnapStops(p, "connect") \/ \E r : SnapStops(p, Classify(call, r))
      BY <1>6, Zenon DEF CallFails
    <3>2. call = "export" /\ "connect" \notin {"ok", "busy"}
      BY <1>6, <3>1 DEF SnapAt
    <3> QED BY <3>1, <3>2, ExportErrors, Zenon
  <2> QED BY <1>0, <1>2, <2>1, <2>2, NotOpened, Zenon
<1> QED BY <1>0, <1>3, <1>4, <1>5, <1>6, WriterSteps, Zenon

\* A step keeps the files where they belong.
LEMMA FileStep ==
  ASSUME Inv, NEW early, FileInv(early), NEW p \in SnapProcs, SnapStep(p)
  PROVE  FileInv(early)'
<1> DEFINE path == snapDst[p].path
<1>0. FileTypes /\ \A q \in SnapProcs : WriteInv(q) /\ OpenInv(early, q)
  BY Zenon DEF FileInv
<1>K. /\ \A q \in SnapProcs : WriteInv(q)'
      /\ \A q \in SnapProcs : Writes(q) => Writes(q)' /\ snapDst'[q] = snapDst[q]
      /\ \A q \in SnapProcs : q # p => (Writes(q)' => Writes(q)) /\ snapPlan'[q] = snapPlan[q]
      /\ ~Writes(p) /\ Writes(p)' =>
           snapPlan'[p] = SaveLocal /\ snapEnd' = snapEnd /\ snapEnd[p] = "busy"
  BY <1>0, WritersStay, Zenon
<1>M. /\ \A i, x : Owned(early, i, x) => Owned(early, i, x)'
      /\ \A q \in SnapProcs : Writes(q) /\ Sole(q)' => Sole(q)
      /\ \A q \in SnapProcs : q # p /\ Opened(q)' =>
           Opened(q) /\ snapDst'[q] = snapDst[q] /\ snapFd'[q] = snapFd[q] /\ snapHeld'[q] = snapHeld[q]
             /\ snapEnd'[q] = snapEnd[q]
  <2>1. \A i, x : Owned(early, i, x) => Owned(early, i, x)'
    BY <1>K, Zenon DEF Owned
  <2>2. \A q \in SnapProcs : Writes(q) /\ Sole(q)' => Sole(q)
    BY <1>K, Zenon DEF Sole
  <2>3. \A q \in SnapProcs : q # p /\ Opened(q)' =>
           Opened(q) /\ snapDst'[q] = snapDst[q] /\ snapFd'[q] = snapFd[q] /\ snapHeld'[q] = snapHeld[q]
             /\ snapEnd'[q] = snapEnd[q]
    BY <1>0, <1>K, OthersLocals, Zenon DEF Opened
  <2> QED BY <2>1, <2>2, <2>3
<1>1. CASE ~Writes(p)
  <2>1. UNCHANGED <<dir, inodes>>
    BY <1>0, <1>1, OthersWriteNothing, Zenon
  <2>2. OpenInv(early, p)'
    <3>1. ~Opened(p)'
      <4>1. SaveLocal # <<"export">> /\ "busy" # "ok"
        BY DEF SaveLocal
      <4> QED BY <1>1, <1>K, <4>1, Zenon DEF Opened
    <3> QED BY <3>1, Zenon DEF OpenInv
  <2>3. \A q \in SnapProcs : q # p => OpenInv(early, q)'
    BY <1>0, <1>M, <2>1, Zenon DEF OpenInv, Opened
  <2>4. ASSUME NEW x \in Paths, IsFile(x)' PROVE Owned(early, dir[x], x)'
    BY <1>M, <2>1, <2>4, Zenon DEF FileInv, IsFile
  <2>5. FileTypes'
    BY <1>0, <2>1, FrameDomains, Zenon DEF FileTypes
  <2> QED BY <1>K, <2>1, <2>2, <2>3, <2>4, <2>5, Zenon DEF FileInv
<1>2. CASE Writes(p)
  <2>0. path \in Paths
    BY <1>0, <1>2, WriterPaths, Zenon DEF Inv, Shapes
  <2>1. PICK i : /\ Owned(early, i, path)
                 /\ inodes' = inodes \/ \E x : inodes' = [inodes EXCEPT ![i] = x]
                 /\ \/ dir' = dir
                    \/ \E y : /\ dir' = [dir EXCEPT ![path] = y]
                              /\ y \in {"none", "folder"} \/ Owned(early, y, path)
                 /\ OpenInv(early, p)'
    BY <1>2, <2>0, WriterWrites, Zenon
  <2>2. FileTypes'
    BY <1>0, <2>1, FrameDomains DEF FileTypes
  <2>3. ASSUME NEW x \in Paths, IsFile(x)' PROVE Owned(early, dir[x], x)'
    <3>1. CASE dir'[x] = dir[x]
      <4>1. Owned(early, dir[x], x)
        BY <2>3, <3>1, Zenon DEF FileInv, IsFile
      <4> QED BY <1>M, <3>1, <4>1, Zenon
    <3>2. CASE dir'[x] # dir[x]
      <4>1. PICK y : /\ dir' = [dir EXCEPT ![path] = y]
                     /\ y \in {"none", "folder"} \/ Owned(early, y, path)
        BY <2>1, <3>2, Zenon
      <4>2. x = path /\ dir'[x] = y
        BY <1>0, <3>2, <4>1, Zenon DEF FileTypes
      <4> QED BY <1>M, <2>3, <4>1, <4>2, Zenon DEF IsFile
    <3> QED BY <3>1, <3>2
  <2>4. ASSUME NEW q \in SnapProcs, q # p, Opened(q)' PROVE OpenInv(early, q)'
    <3>1. Opened(q) /\ OpenInv(early, q) /\ Writes(q)
      BY <1>0, <1>M, <2>4, Zenon DEF Opened
    <3>2. Sole(q) => dir'[snapDst[q].path] = dir[snapDst[q].path] /\ inodes'[snapFd[q]] = inodes[snapFd[q]]
      <4> SUFFICES ASSUME Sole(q)
                   PROVE  dir'[snapDst[q].path] = dir[snapDst[q].path] /\ inodes'[snapFd[q]] = inodes[snapFd[q]]
        OBVIOUS
      <4>1. snapDst[q].path # path
        BY <1>2, <2>4, Zenon DEF Sole
      <4>2. snapFd[q] # i /\ snapFd[q] \in SnapProcs \cup {"earlier"}
        BY <2>1, <3>1, <4>1, Elsewhere, Zenon DEF OpenInv
      <4>3. snapDst[q].path \in Paths
        BY <1>0, <3>1, WriterPaths, Zenon DEF Inv, Shapes
      <4>4. dir'[snapDst[q].path] = dir[snapDst[q].path]
        BY <1>0, <2>1, <4>1, <4>3, Zenon DEF FileTypes
      <4>5. inodes'[snapFd[q]] = inodes[snapFd[q]]
        BY <1>0, <2>1, <4>2, Zenon DEF FileTypes
      <4> QED BY <4>4, <4>5
    <3> QED BY <1>M, <2>4, <3>1, <3>2, Zenon DEF OpenInv
  <2>5. \A q \in SnapProcs : OpenInv(early, q)'
    <3>1. ASSUME NEW q \in SnapProcs PROVE OpenInv(early, q)'
      <4>1. CASE ~Opened(q)'
        BY <4>1, Zenon DEF OpenInv
      <4> QED BY <2>1, <2>4, <4>1
    <3> QED BY <3>1
  <2> QED BY <1>K, <2>2, <2>3, <2>5, Zenon DEF FileInv
<1> QED BY <1>1, <1>2

\* What every command starts with writes nothing.
LEMMA OpeningsQuiet == Quiet(<<"parse">>) /\ Quiet(<<"deps", "parse">>)
<1>1. Quiet(<<"parse">>)
  BY DEF Quiet, FileSteps, StepNames
<1>2. Quiet(<<"deps", "parse">>)
  BY DEF Quiet, FileSteps, StepNames
<1> QED BY <1>1, <1>2

\* At the start only the earlier file is there.
LEMMA FileInit == SnapInit => \E early \in Paths : FileInv(early)
<1> SUFFICES ASSUME SnapInit PROVE \E early \in Paths : FileInv(early)
  OBVIOUS
<1>1. PICK there \in {"none", "folder", "earlier"}, ext \in {"", "snapshot", "zip"} :
        dir = [path \in Paths |-> IF path = [base |-> "state", ext |-> ext] THEN there ELSE "none"]
  BY Zenon DEF SnapInit
<1> DEFINE early == [base |-> "state", ext |-> ext]
<1>2. early \in Paths
  BY DEF Paths, Bases
<1>3. FileTypes
  BY <1>1 DEF SnapInit, FileTypes
<1>4. \A path \in Paths : IsFile(path) => Owned(early, dir[path], path)
  BY <1>1 DEF IsFile, Owned
<1>5. ASSUME NEW p \in SnapProcs PROVE WriteInv(p) /\ OpenInv(early, p)
  <2>1. snapDst[p] = BadRef("") /\ snapPlan[p] = Opening(snapReq[p])
    BY <1>5 DEF SnapInit
  <2>2. ~Writes(p)
    <3>1. BadRef("").kind = "error" /\ "error" # "local"
      BY Makers
    <3> QED BY <2>1, <3>1, Zenon DEF Writes
  <2> QED BY <2>1, <2>2, OpeningsQuiet, Zenon DEF WriteInv, OpenInv, Opened, Opening
<1> HIDE DEF early
<1> QED BY <1>2, <1>3, <1>4, <1>5, Zenon DEF FileInv

\* The rest of the world does not touch the commands' files.
LEMMA FilesFrame ==
  ASSUME NEW early, FileInv(early),
         UNCHANGED <<snapReq, snapPlan, snapDst, snapFd, snapHeld, snapEnd, dir, inodes>>
  PROVE  FileInv(early)'
<1>1. FileTypes'
  BY Zenon DEF FileInv, FileTypes
<1>2. \A i, x : Owned(early, i, x) <=> Owned(early, i, x)'
  BY Zenon DEF Owned, Writes
<1>3. \A p \in SnapProcs : WriteInv(p)' /\ (Sole(p)' <=> Sole(p)) /\ (Opened(p)' <=> Opened(p))
  BY Zenon DEF FileInv, WriteInv, Writes, Sole, Opened
<1>4. \A p \in SnapProcs : OpenInv(early, p)'
  BY <1>2, <1>3, Zenon DEF FileInv, OpenInv
<1>5. \A path \in Paths : IsFile(path)' => Owned(early, dir[path], path)'
  BY <1>2, Zenon DEF FileInv, IsFile
<1> QED BY <1>1, <1>3, <1>4, <1>5, Zenon DEF FileInv

LEMMA FileNext ==
  Inv /\ (\E early \in Paths : FileInv(early)) /\ [SnapNext]_snapVars => (\E early \in Paths : FileInv(early))'
<1> SUFFICES ASSUME Inv, NEW early \in Paths, FileInv(early), [SnapNext]_snapVars
             PROVE  FileInv(early)' /\ early \in Paths'
  BY Zenon
<1>0. Paths' = Paths
  BY DEF Paths, Bases
<1>1. CASE \E p \in SnapProcs : SnapStep(p)
  BY <1>0, <1>1, FileStep, Zenon
<1>2. CASE (\E h \in Hosts : Deploy(h) \/ EmulatorStops(h)) \/ UNCHANGED snapVars
  <2>1. UNCHANGED <<snapReq, snapPlan, snapDst, snapFd, snapHeld, snapEnd, dir, inodes>>
    BY <1>2 DEF Deploy, EmulatorStops, snapVars
  <2> QED BY <1>0, <2>1, FilesFrame, Zenon
<1> QED BY <1>1, <1>2, Zenon DEF SnapNext

-----------------------------------------------------------------------------
\* The elements of short sequences.
LEMMA Tuples ==
  \A a, b, c : /\ DOMAIN <<a>> = {1} /\ <<a>>[1] = a
              /\ DOMAIN <<a, b, c>> = {1, 2, 3} /\ <<a, b, c>>[1] = a /\ <<a, b, c>>[2] = b
<1> TAKE a, b, c
<1>1. DOMAIN <<a>> = {1} /\ <<a>>[1] = a
  OBVIOUS
<1>2. DOMAIN <<a, b, c>> = {1, 2, 3} /\ <<a, b, c>>[1] = a /\ <<a, b, c>>[2] = b
  OBVIOUS
<1> QED BY <1>1, <1>2

LEMMA SmallNumbers ==
  /\ {1} \subseteq Nat /\ \A j \in {1} : 1 <= j
  /\ {1, 2, 3} \subseteq Nat /\ \A j \in {1, 2, 3} : j = 1 \/ 2 <= j
OBVIOUS

\* The least of some numbers.
LEMMA Least ==
  ASSUME NEW S \in SUBSET Nat, NEW k \in S, \A j \in S : k <= j
  PROVE  (CHOOSE i \in S : \A j \in S : i <= j) = k
<1> DEFINE first == CHOOSE i \in S : \A j \in S : i <= j
<1>1. first \in S /\ \A j \in S : first <= j
  OBVIOUS
<1> HIDE DEF first
<1>2. first <= k /\ k <= first /\ first \in Nat /\ k \in Nat
  BY <1>1
<1>3. first = k
  BY <1>2
<1> QED BY <1>3 DEF first

\* The first of the candidates that is a file.
FilesOf(tries) == {i \in DOMAIN tries : IsFile(tries[i])}
FirstOfThem(tries) == CHOOSE i \in FilesOf(tries) : \A j \in FilesOf(tries) : i <= j
LEMMA FirstTried ==
  ASSUME NEW tries, DOMAIN tries \subseteq Nat, NEW k \in DOMAIN tries, IsFile(tries[k]),
         \A j \in DOMAIN tries : IsFile(tries[j]) => k <= j
  PROVE  FilesOf(tries) # {} /\ FirstOfThem(tries) = k
<1>1. k \in FilesOf(tries) /\ FilesOf(tries) \in SUBSET Nat /\ \A j \in FilesOf(tries) : k <= j
  BY DEF FilesOf
<1> QED BY <1>1, Least, Zenon DEF FirstOfThem

\* A path the user gave is found with the archive's extension, unless it is a
\* file itself. (ResolveSourcePath)
LEMMA ResolvesToArchive ==
  ASSUME NEW path \in Paths, path.ext # "zip", ~IsFile([path EXCEPT !.ext = ""]), IsFile(WithSnapshotExt(path))
  PROVE  ResolveSourcePath(path) = Local(WithSnapshotExt(path))
<1>0. path = [base |-> path.base, ext |-> path.ext] /\ path.ext \in {"", "snapshot"}
  BY DEF Paths
<1>1. PICK tries : tries = SourceCandidates(path)
  OBVIOUS
<1>2. FilesOf(tries) # {} => ResolveSourcePath(path) = Local(tries[FirstOfThem(tries)])
  BY <1>1, Zenon DEF ResolveSourcePath, FilesOf, FirstOfThem
<1>3. CASE path.ext = "snapshot"
  <2>1. WithSnapshotExt(path) = path
    BY <1>0, <1>3 DEF WithSnapshotExt
  <2>2. tries = <<path>>
    BY <1>1, <1>3 DEF SourceCandidates
  <2>3. DOMAIN tries = {1} /\ tries[1] = path
    BY <2>2, Tuples, Zenon
  <2>4. FilesOf(tries) # {} /\ FirstOfThem(tries) = 1
    <3>1. DOMAIN tries \subseteq Nat /\ 1 \in DOMAIN tries /\ \A j \in DOMAIN tries : 1 <= j
      BY <2>3, SmallNumbers, Zenon
    <3> QED BY <2>1, <2>3, <3>1, FirstTried, Zenon
  <2> QED BY <1>2, <2>1, <2>3, <2>4, Zenon
<1>4. CASE path.ext = ""
  <2>1. [path EXCEPT !.ext = ""] = path
    BY <1>0, <1>4
  <2>2. PICK last : tries = <<path, WithSnapshotExt(path), last>>
    BY <1>1, <1>4 DEF SourceCandidates
  <2>3. DOMAIN tries = {1, 2, 3} /\ tries[1] = path /\ tries[2] = WithSnapshotExt(path)
    BY <2>2, Tuples, Zenon
  <2>4. FilesOf(tries) # {} /\ FirstOfThem(tries) = 2
    <3>1. DOMAIN tries \subseteq Nat /\ 2 \in DOMAIN tries /\ \A j \in DOMAIN tries : j = 1 \/ 2 <= j
      BY <2>3, SmallNumbers, Zenon
    <3>2. ~IsFile(tries[1]) /\ IsFile(tries[2])
      BY <2>1, <2>3, Zenon
    <3>3. \A j \in DOMAIN tries : IsFile(tries[j]) => 2 <= j
      BY <3>1, <3>2, Zenon
    <3> QED BY <3>1, <3>2, <3>3, FirstTried, Zenon
  <2> QED BY <1>2, <2>3, <2>4, Zenon
<1> QED BY <1>0, <1>3, <1>4

\* What SoleWriter says of every save it says of those that write.
LEMMA SoleWriters ==
  ASSUME NEW p \in SnapProcs, SoleWriter(p)
  PROVE  Sole(p)
BY Zenon DEF SoleWriter, Sole, Writes

\* A local save that ended well is found under the path the user gave, with
\* all it reported, whatever other commands, stops and kills came between,
\* unless another save was to the same file. (snapshot/save.go, destination.go)
THEOREM SavesAreFound == SnapSpec => []SavedIsFound
<1> DEFINE Found == \E early \in Paths : FileInv(early)
<1>1. SnapSpec => [](Inv /\ Found)
  <2>1. SnapInit => Inv /\ Found
    BY InitInv, FileInit
  <2>2. (Inv /\ Found) /\ [SnapNext]_snapVars => (Inv /\ Found)'
    BY NextInv, FileNext, Zenon
  <2> HIDE DEF Found
  <2> QED BY <2>1, <2>2, PTL DEF SnapSpec
<1>2. Inv /\ Found => SavedIsFound
  <2> SUFFICES ASSUME Inv, NEW early \in Paths, FileInv(early), NEW p \in SnapProcs,
                      snapReq[p].cmd = "save", snapEnd[p] = "ok", snapDst[p].kind = "local", SoleWriter(p)
               PROVE  /\ IsFile(snapDst[p].path) /\ inodes[dir[snapDst[p].path]] = Archive(snapHeld[p])
                      /\ \A r \in {snapReq[p].args[i] : i \in DOMAIN snapReq[p].args} :
                           r.form = "path" /\ r.path.ext # "zip" /\ ~IsFile([r.path EXCEPT !.ext = ""]) =>
                             ParseSource(r) = Local(snapDst[p].path)
    BY Zenon DEF SavedIsFound
  <2>0. snapReq \in [SnapProcs -> SnapRequests]
    BY Zenon DEF Inv, Shapes
  <2>1. Writes(p) /\ Opened(p) /\ WriteInv(p) /\ OpenInv(early, p)
    BY Zenon DEF FileInv, Writes, Opened
  <2>2. /\ Owned(early, snapFd[p], snapDst[p].path) /\ dir[snapDst[p].path] = snapFd[p]
        /\ inodes[snapFd[p]] = Archive(snapHeld[p])
    BY <2>1, SoleWriters, Zenon DEF OpenInv
  <2>3. IsFile(snapDst[p].path)
    BY <2>2, SnapConstants DEF Owned, IsFile
  <2>4. snapDst[p].path \in Paths /\ snapDst[p].path = Target(snapReq[p])
    BY <2>0, <2>1, WriterPaths, Zenon
  <2>5. ASSUME NEW i \in DOMAIN snapReq[p].args, snapReq[p].args[i].form = "path",
               snapReq[p].args[i].path.ext # "zip", ~IsFile([snapReq[p].args[i].path EXCEPT !.ext = ""])
        PROVE  ParseSource(snapReq[p].args[i]) = Local(snapDst[p].path)
    <3> DEFINE r == snapReq[p].args[i]
    <3>1. i = 1 /\ snapReq[p].args # <<>>
      <4>1. snapReq[p].args \in Seq(Refs)
        BY <2>0, SnapRequestsOK, Zenon
      <4>2. Len(snapReq[p].args) <= 1
        BY <2>1, Zenon DEF WriteInv
      <4> QED BY <4>1, <4>2
    <3>2. r = FirstArg(snapReq[p]) /\ r \in Refs
      BY <2>0, <3>1, FirstArgs, Zenon
    <3>3. r.path \in Paths
      BY <3>2 DEF Refs
    <3>4. WithSnapshotExt(r.path) = snapDst[p].path
      BY <2>4, <3>2, Zenon DEF Target
    <3>5. ParseSource(r) = ResolveSourcePath(r.path)
      BY <2>5, Zenon DEF ParseSource
    <3> QED BY <2>3, <2>5, <3>3, <3>4, <3>5, ResolvesToArchive, Zenon
  <2> QED BY <2>2, <2>3, <2>5, Zenon
<1> HIDE DEF Found
<1> QED BY <1>1, <1>2, PTL
-----------------------------------------------------------------------------
\* SnapTypeOK. Every destination has a path, a pod that is loaded a name.
Placed(d) == d.path \in Paths
LEMMA PlacedMakers ==
  /\ \A e : Placed(BadRef(e))
  /\ \A n, v : Placed(Pod(n, v))
  /\ \A n : Placed(S3(n)) /\ S3(n).pod = n
  /\ \A path \in Paths : Placed(Local(path)) /\ Placed(Local(WithSnapshotExt(path)))
<1>1. NoPath \in Paths
  BY Zenon DEF NoPath, Paths, Bases
<1>2. \A path \in Paths : WithSnapshotExt(path) \in Paths
  BY DEF WithSnapshotExt, Paths
<1>3. (\A e : BadRef(e).path = NoPath) /\ (\A n, v : Pod(n, v).path = NoPath) /\ (\A n : S3(n).path = NoPath)
  BY Zenon DEF BadRef, Pod, S3
<1>4. \A n : S3(n).pod = n
  BY Zenon DEF BadRef, S3
<1> QED BY <1>1, <1>2, <1>3, <1>4, LocalPath, Zenon DEF Placed

\* What is made of one reference. (snapshot/destination.go)
LEMMA RefsPlaced ==
  ASSUME NEW r
  PROVE  /\ Placed(ParsePodRef(r, TRUE)) /\ Placed(ParsePodRef(r, FALSE))
         /\ Placed(ParseS3(r)) /\ Placed(RemotePodName(r))
<1>1. ASSUME NEW allow \in BOOLEAN PROVE Placed(ParsePodRef(r, allow))
  <2>1. CASE r.version = BadVersion
    BY <2>1, PlacedMakers, Zenon DEF ParsePodRef
  <2>2. CASE r.version # BadVersion /\ ~r.ok
    BY <2>2, PlacedMakers, Zenon DEF ParsePodRef
  <2>3. CASE r.version # BadVersion /\ r.ok /\ r.version # 0 /\ ~allow
    BY <2>3, PlacedMakers, Zenon DEF ParsePodRef
  <2>4. CASE r.version # BadVersion /\ r.ok /\ (r.version = 0 \/ allow)
    BY <2>4, PlacedMakers, Zenon DEF ParsePodRef
  <2> QED BY <2>1, <2>2, <2>3, <2>4, Zenon
<1>2. Placed(ParseS3(r))
  BY PlacedMakers, Zenon DEF ParseS3
<1>3. Placed(RemotePodName(r))
  <2>1. CASE r.form # "path" \/ r.version = BadVersion
    BY <2>1, PlacedMakers, Zenon DEF RemotePodName
  <2>2. CASE r.form = "path" /\ r.version \notin {0, BadVersion}
    BY <2>2, PlacedMakers, Zenon DEF RemotePodName
  <2>3. CASE r.form = "path" /\ r.version # BadVersion /\ r.version = 0 /\ ~r.ok
    BY <2>3, PlacedMakers, Zenon DEF RemotePodName
  <2>4. CASE r.form = "path" /\ r.version # BadVersion /\ r.version = 0 /\ r.ok
    BY <2>4, PlacedMakers, Zenon DEF RemotePodName
  <2> QED BY <2>1, <2>2, <2>3, <2>4, Zenon
<1> QED BY <1>1, <1>2, <1>3, Zenon

\* A file is one of those that were tried. (resolveSourcePath)
LEMMA ResolvedPlaced ==
  ASSUME NEW path \in Paths
  PROVE  Placed(ResolveSourcePath(path))
<1> DEFINE tries == SourceCandidates(path)
<1>1. DOMAIN tries \subseteq {1, 2, 3} /\ \A i \in DOMAIN tries : tries[i] \in Paths
  <2>1. WithSnapshotExt(path) \in Paths /\ [path EXCEPT !.ext = "zip"] \in Paths
    BY DEF WithSnapshotExt, Paths
  <2>2. tries = <<path>> \/ tries = <<path, WithSnapshotExt(path), [path EXCEPT !.ext = "zip"]>>
    BY Zenon DEF SourceCandidates
  <2> HIDE DEF tries
  <2>3. CASE tries = <<path>>
    <3>1. DOMAIN tries = {1} /\ tries[1] = path
      BY <2>3, Tuples, Zenon
    <3> QED BY <3>1
  <2>4. CASE tries = <<path, WithSnapshotExt(path), [path EXCEPT !.ext = "zip"]>>
    <3>1. /\ DOMAIN tries = {1, 2, 3} /\ tries[1] = path /\ tries[2] = WithSnapshotExt(path)
          /\ tries[3] = [path EXCEPT !.ext = "zip"]
      BY <2>4, Tuples, Zenon
    <3> QED BY <2>1, <3>1
  <2> QED BY <2>2, <2>3, <2>4
<1> HIDE DEF tries
<1>2. CASE FilesOf(tries) = {}
  <2>1. \E e : ResolveSourcePath(path) = BadRef(e)
    BY <1>2, Zenon DEF ResolveSourcePath, FilesOf, tries
  <2> QED BY <2>1, PlacedMakers, Zenon
<1>3. ASSUME NEW i \in FilesOf(tries), \A j \in FilesOf(tries) : i <= j
      PROVE  Placed(ResolveSourcePath(path))
  <2>1. FirstOfThem(tries) \in FilesOf(tries)
    BY <1>3, Zenon DEF FirstOfThem
  <2>2. ResolveSourcePath(path) = Local(tries[FirstOfThem(tries)])
    BY <1>3, Zenon DEF ResolveSourcePath, FilesOf, FirstOfThem, tries
  <2>3. tries[FirstOfThem(tries)] \in Paths
    BY <1>1, <2>1, Zenon DEF FilesOf
  <2> QED BY <2>2, <2>3, PlacedMakers, Zenon
<1>4. FilesOf(tries) # {} => \E i \in FilesOf(tries) : \A j \in FilesOf(tries) : i <= j
  <2>1. FilesOf(tries) \subseteq {1, 2, 3}
    BY <1>1, Zenon DEF FilesOf
  <2> SUFFICES ASSUME NEW S, S \subseteq {1, 2, 3}, S # {} PROVE \E i \in S : \A j \in S : i <= j
    BY <2>1, Zenon
  <2>2. 1 \in S \/ (1 \notin S /\ 2 \in S) \/ (1 \notin S /\ 2 \notin S /\ 3 \in S)
    OBVIOUS
  <2> QED BY <2>2
<1> QED BY <1>2, <1>3, <1>4, Zenon

\* What is made of the reference a command is given.
LEMMA GivenPlaced ==
  ASSUME NEW r \in Refs
  PROVE  /\ Placed(ParseSource(r)) /\ Placed(ParseDestination(r))
         /\ Placed(ParseCloudOnly(r, TRUE)) /\ Placed(ParseCloudOnly(r, FALSE)) /\ Placed(ParseVersionable(r))
<1>0. r.path \in Paths
  BY DEF Refs
<1>1. Placed(ParseSource(r))
  <2>1. \/ ParseSource(r) = ParsePodRef(r, TRUE) \/ ParseSource(r) = ParseS3(r)
        \/ ParseSource(r) = ResolveSourcePath(r.path) \/ \E e : ParseSource(r) = BadRef(e)
    <3>1. CASE r.form = "empty"
      BY <3>1, Zenon DEF ParseSource
    <3>2. CASE r.form = "pod"
      BY <3>2, Zenon DEF ParseSource
    <3>3. CASE r.form = "s3"
      BY <3>3, Zenon DEF ParseSource
    <3>4. CASE r.form = "path"
      BY <3>4, Zenon DEF ParseSource
    <3>5. CASE r.form \notin {"empty", "pod", "s3", "path"}
      BY <3>5, Zenon DEF ParseSource
    <3> QED BY <3>1, <3>2, <3>3, <3>4, <3>5, Zenon
  <2> QED BY <1>0, <2>1, RefsPlaced, ResolvedPlaced, PlacedMakers, Zenon
<1>2. Placed(ParseDestination(r))
  <2>1. \/ ParseDestination(r) = ParsePodRef(r, FALSE) \/ ParseDestination(r) = ParseS3(r)
        \/ ParseDestination(r) = Local(WithSnapshotExt(r.path)) \/ \E e : ParseDestination(r) = BadRef(e)
    <3>1. CASE r.form = "pod"
      BY <3>1, Zenon DEF ParseDestination
    <3>2. CASE r.form = "s3"
      BY <3>2, Zenon DEF ParseDestination
    <3>3. CASE r.form \in {"empty", "path"}
      BY <3>3, Zenon DEF ParseDestination
    <3>4. CASE r.form \notin {"pod", "s3", "empty", "path"}
      BY <3>4, Zenon DEF ParseDestination
    <3> QED BY <3>1, <3>2, <3>3, <3>4, Zenon
  <2> QED BY <1>0, <2>1, RefsPlaced, PlacedMakers, Zenon
<1>3. ASSUME NEW allow \in BOOLEAN PROVE Placed(ParseCloudOnly(r, allow))
  <2> DEFINE d == ParseSource(r)
  <2>1. CASE r.form \in {"empty", "path"}
    BY <2>1, PlacedMakers, Zenon DEF ParseCloudOnly
  <2>2. CASE r.form \notin {"empty", "path"} /\ d.kind = "s3"
    BY <2>2, PlacedMakers, Zenon DEF ParseCloudOnly
  <2>3. CASE r.form \notin {"empty", "path"} /\ d.kind # "s3" /\ d.version # 0 /\ ~allow
    BY <2>3, PlacedMakers, Zenon DEF ParseCloudOnly
  <2>4. CASE r.form \notin {"empty", "path"} /\ d.kind # "s3" /\ (d.version = 0 \/ allow)
    BY <1>1, <2>4, Zenon DEF ParseCloudOnly
  <2> QED BY <2>1, <2>2, <2>3, <2>4, Zenon
<1>4. Placed(ParseVersionable(r))
  BY <1>3, PlacedMakers, Zenon DEF ParseVersionable
<1> QED BY <1>1, <1>2, <1>3, <1>4, Zenon

LEMMA ArgsPlaced ==
  ASSUME NEW req
  PROVE  Placed(ClassifyArgs(req))
<1> DEFINE pod == FirstOf(req.args, OtherArgs(req.args))
           url == ParseS3(FirstOf(req.args, S3Args(req.args)))
<1>1. \/ ClassifyArgs(req) = RemotePodName(pod) \/ ClassifyArgs(req) = url
      \/ ClassifyArgs(req) = S3("auto") \/ \E e : ClassifyArgs(req) = BadRef(e)
  BY Zenon DEF ClassifyArgs
<1> QED BY <1>1, RefsPlaced, PlacedMakers, Zenon

\* The snapshot that a start is to load is a reference.
LEMMA StartRefs ==
  ASSUME NEW req \in SnapRequests
  PROVE  StartRef(req) \in Refs
<1>1. NoRef \in Refs
  <2>1. NoPath \in Paths
    BY Zenon DEF NoPath, Paths, Bases
  <2>2. 0 \in 0..BadVersion
    BY SnapConstants DEF BadVersion
  <2> QED BY <2>1, <2>2, Zenon DEF NoRef, Refs
<1>2. req.args \in Seq(Refs) /\ req.configRef \in Refs
  BY SnapRequestsOK, Zenon
<1>3. req.args # <<>> => req.args[1] \in Refs
  BY <1>2
<1> QED BY <1>1, <1>2, <1>3, Zenon DEF StartRef

\* Whatever a command is asked, its destination has a path. (cmd/snapshot.go)
LEMMA ParsedPlaced ==
  ASSUME NEW req \in SnapRequests
  PROVE  Placed(Parsed(req))
<1> DEFINE r == FirstArg(req)
<1>1. r \in Refs /\ StartRef(req) \in Refs
  BY FirstArgs, StartRefs, Zenon
<1>2. Placed(ParsedSave(req))
  <2>1. ParsedSave(req) = ClassifyArgs(req) \/ ParsedSave(req) = ParseDestination(r) \/ \E e : ParsedSave(req) = BadRef(e)
    BY Zenon DEF ParsedSave
  <2> QED BY <1>1, <2>1, ArgsPlaced, GivenPlaced, PlacedMakers, Zenon
<1>3. Placed(ParsedLoad(req))
  <2>1. CASE MergeStrategy(req) \notin Strategies
    BY <2>1, PlacedMakers, Zenon DEF ParsedLoad
  <2>2. CASE MergeStrategy(req) \in Strategies /\ IsRemote(req)
    BY <2>2, ArgsPlaced, Zenon DEF ParsedLoad
  <2>3. CASE MergeStrategy(req) \in Strategies /\ ~IsRemote(req)
    <3>1. ParsedLoad(req) = IF req.dryRun /\ ParseSource(r).kind = "local" THEN BadRef("dryRunPodOnly") ELSE ParseSource(r)
      BY <2>3, Zenon DEF ParsedLoad
    <3> QED BY <1>1, <3>1, GivenPlaced, PlacedMakers, Zenon
  <2> QED BY <2>1, <2>2, <2>3
<1>4. Placed(ParsedStart(req))
  <2>1. ParsedStart(req) = ParseSource(StartRef(req)) \/ ParsedStart(req) = S3("none") \/ \E e : ParsedStart(req) = BadRef(e)
    BY Zenon DEF ParsedStart
  <2> QED BY <1>1, <2>1, GivenPlaced, PlacedMakers, Zenon
<1>5. Placed(ParsedRemove(req)) /\ Placed(ParseCloudOnly(r, TRUE)) /\ Placed(ParseVersionable(r))
  <2>1. ParsedRemove(req) = ParseCloudOnly(r, FALSE) \/ ParsedRemove(req) = BadRef("confirmationRequired")
    BY Zenon DEF ParsedRemove
  <2> QED BY <1>1, <2>1, GivenPlaced, PlacedMakers, Zenon
<1>6. Placed(ParsedList(req))
  <2>1. \/ ParsedList(req) = ClassifyArgs(req) \/ ParsedList(req) = Pod("", 0)
        \/ ParsedList(req) = BadRef("unexpectedArgument")
    BY Zenon DEF ParsedList
  <2> QED BY <2>1, ArgsPlaced, PlacedMakers, Zenon
<1> HIDE DEF r
<1>7. \/ Parsed(req) \in {ParsedSave(req), ParsedLoad(req), ParsedStart(req), ParsedRemove(req), ParsedList(req)}
      \/ Parsed(req) \in {ParseCloudOnly(r, TRUE), ParseVersionable(r)} \/ \E e : Parsed(req) = BadRef(e)
  <2>0. req.cmd \in {"save", "load", "start", "remove", "list", "show", "versions"}
    BY SnapRequestsOK, Zenon
  <2>1. CASE req.cmd \in {"save", "load"}
    BY <2>1, Zenon DEF Parsed
  <2>2. CASE req.cmd \in {"start", "remove"}
    BY <2>2, Zenon DEF Parsed
  <2>3. CASE req.cmd \in {"list", "show", "versions"}
    BY <2>3, Zenon DEF Parsed, r
  <2> QED BY <2>0, <2>1, <2>2, <2>3, Zenon
<1> QED BY <1>2, <1>3, <1>4, <1>5, <1>6, <1>7, PlacedMakers, Zenon

\* A pod that is to be loaded has a name. (snapshot/load.go)
LEMMA SourceNamed ==
  ASSUME NEW r \in Refs, r.ok /\ r.form = "pod" => r.name \in PodNames, ParseSource(r).kind = "pod"
  PROVE  ParseSource(r).pod \in PodNames
<1>1. r.form = "pod" /\ ParseSource(r).pod = r.name
  BY SourceShape, Zenon
<1>2. ParseSource(r) = ParsePodRef(r, TRUE)
  BY <1>1, Zenon DEF ParseSource
<1>3. r.ok
  <2>1. CASE r.version = BadVersion
    BY <1>2, <2>1, Makers, Zenon DEF ParsePodRef
  <2>2. CASE r.version # BadVersion /\ ~r.ok
    BY <1>2, <2>2, Makers, Zenon DEF ParsePodRef
  <2> QED BY <2>1, <2>2, Makers, Zenon
<1> QED BY <1>1, <1>3, Zenon

LEMMA RemoteNamed ==
  ASSUME NEW req \in SnapRequests, req.cmd = "load", IsRemote(req), ClassifyArgs(req).kind = "s3"
  PROVE  ClassifyArgs(req).pod \in PodNames
<1> DEFINE idx == OtherArgs(req.args)
           pod == FirstOf(req.args, idx)
<1>1. pod # NoRef /\ RemotePodName(pod).kind # "error" /\ ClassifyArgs(req) = RemotePodName(pod)
  BY Makers, Zenon DEF ClassifyArgs
<1>2. PICK i \in DOMAIN req.args : pod = req.args[i]
  <2>1. idx # {}
    BY <1>1, Zenon DEF FirstOf
  <2>2. (CHOOSE i \in idx : TRUE) \in idx
    BY <2>1, Zenon
  <2>3. idx \subseteq DOMAIN req.args
    BY Zenon DEF OtherArgs
  <2> QED BY <2>1, <2>2, <2>3, Zenon DEF FirstOf
<1> HIDE DEF pod
<1>3. pod.form = "path" /\ pod.ok /\ RemotePodName(pod) = S3(pod.name)
  <2>1. CASE pod.form # "path" \/ pod.version = BadVersion
    BY <1>1, <2>1, Makers, Zenon DEF RemotePodName
  <2>2. CASE pod.form = "path" /\ pod.version \notin {0, BadVersion}
    BY <1>1, <2>2, Makers, Zenon DEF RemotePodName
  <2>3. CASE pod.form = "path" /\ pod.version # BadVersion /\ pod.version = 0 /\ ~pod.ok
    BY <1>1, <2>3, Makers, Zenon DEF RemotePodName
  <2>4. CASE pod.form = "path" /\ pod.version # BadVersion /\ pod.version = 0 /\ pod.ok
    BY <2>4, Zenon DEF RemotePodName
  <2> QED BY <2>1, <2>2, <2>3, <2>4, Zenon
<1>4. pod.name \in PodNames
  BY <1>2, <1>3, SnapNames, Zenon
<1> QED BY <1>1, <1>3, <1>4, PlacedMakers, Zenon

LEMMA LoadedNamed ==
  ASSUME NEW req \in SnapRequests, req.cmd \in {"load", "start"},
         Parsed(req).kind = "pod" \/ (req.cmd = "load" /\ Parsed(req).kind = "s3")
  PROVE  Parsed(req).pod \in PodNames
<1>0. Parsed(req).kind # "error" /\ \A e : Parsed(req) # BadRef(e)
  BY Makers, Zenon
<1>1. CASE req.cmd = "load"
  <2>1. Parsed(req) = ParsedLoad(req)
    BY <1>0, <1>1, Zenon DEF Parsed
  <2>2. MergeStrategy(req) \in Strategies
    BY <1>0, <2>1, Zenon DEF ParsedLoad
  <2>3. CASE IsRemote(req)
    <3>1. ParsedLoad(req) = ClassifyArgs(req)
      BY <2>2, <2>3, Zenon DEF ParsedLoad
    <3>2. ClassifyArgs(req).kind = "s3"
      BY <1>0, <2>1, <3>1, Args, Zenon
    <3> QED BY <1>1, <2>1, <2>3, <3>1, <3>2, RemoteNamed, Zenon
  <2>4. CASE ~IsRemote(req)
    <3>1. ParsedLoad(req) = ParseSource(FirstArg(req))
      BY <1>0, <2>1, <2>2, <2>4, Zenon DEF ParsedLoad
    <3>2. Parsed(req).kind = "pod"
      BY <1>1, <2>4, ParsedLoads, Zenon
    <3>3. FirstArg(req) \in Refs
      BY FirstArgs, Zenon
    <3>4. FirstArg(req).ok /\ FirstArg(req).form = "pod" => FirstArg(req).name \in PodNames
      BY FirstArgs, SnapNames, Zenon
    <3> QED BY <2>1, <3>1, <3>2, <3>3, <3>4, SourceNamed, Zenon
  <2> QED BY <2>3, <2>4
<1>2. CASE req.cmd = "start"
  <2>1. Parsed(req) = ParsedStart(req) /\ Parsed(req).kind = "pod"
    BY <1>0, <1>2, Zenon DEF Parsed
  <2>2. ParsedStart(req) = ParseSource(StartRef(req))
    BY <1>0, <2>1, Makers, Zenon DEF ParsedStart
  <2>3. StartRef(req).form = "pod" => (req.args # <<>> /\ StartRef(req) = req.args[1]) \/ StartRef(req) = req.configRef
    <3>1. NoRef.form = "empty"
      BY Zenon DEF NoRef
    <3> QED BY <3>1, Zenon DEF StartRef
  <2>4. req.args # <<>> => 1 \in DOMAIN req.args
    BY FirstArgs, Zenon
  <2>5. StartRef(req).ok /\ StartRef(req).form = "pod" => StartRef(req).name \in PodNames
    BY <2>3, <2>4, SnapNames, Zenon
  <2> QED BY <2>1, <2>2, <2>5, StartRefs, SourceNamed, Zenon
<1> QED BY <1>1, <1>2, Zenon

-----------------------------------------------------------------------------
\* A file is opened before it is imported, and a pod to load has a name.
Supplied(s, opened, named) ==
  s \in Seq(StepNames) /\ \A i \in 1..Len(s) :
    /\ s[i] = "import" => opened \/ (i > 1 /\ s[i - 1] = "open")
    /\ s[i] = "podLoad" => named
Unsupplied(s) == s \in Seq(StepNames) /\ \A i \in 1..Len(s) : s[i] \notin {"import", "podLoad"}

LEMMA SuppliedLater ==
  ASSUME NEW opened, NEW named, NEW s, Supplied(s, opened, named), NEW t, Supplied(t, opened, named)
  PROVE  Supplied(s \o t, opened, named)
<1>0. s \in Seq(StepNames) /\ t \in Seq(StepNames) /\ Len(s) \in Nat /\ Len(t) \in Nat
  BY DEF Supplied
<1> DEFINE q == s \o t
<1>1. /\ q \in Seq(StepNames) /\ Len(q) = Len(s) + Len(t)
      /\ \A i \in 1..Len(s) : q[i] = s[i]
      /\ \A i \in 1..Len(t) : q[Len(s) + i] = t[i]
      /\ \A i \in 1..Len(q) : i \in 1..Len(s) \/ i - Len(s) \in 1..Len(t)
  BY <1>0, Joined
<1> HIDE DEF q
<1>2. ASSUME NEW i \in 1..Len(q)
      PROVE  (q[i] = "import" => opened \/ (i > 1 /\ q[i - 1] = "open")) /\ (q[i] = "podLoad" => named)
  <2>1. CASE i \in 1..Len(s)
    <3>1. i > 1 => i - 1 \in 1..Len(s)
      BY <1>0, <2>1
    <3>2. q[i] = s[i] /\ (i > 1 => q[i - 1] = s[i - 1])
      BY <1>1, <2>1, <3>1, Zenon
    <3> QED BY <2>1, <3>2, Zenon DEF Supplied
  <2>2. CASE i - Len(s) \in 1..Len(t)
    <3>1. PICK j \in 1..Len(t) : i = Len(s) + j
      <4>1. i = Len(s) + (i - Len(s))
        BY <1>0, <1>1
      <4> QED BY <2>2, <4>1, Zenon
    <3>2. j > 1 => j - 1 \in 1..Len(t) /\ i - 1 = Len(s) + (j - 1) /\ i > 1
      BY <1>0, <3>1
    <3>3. q[i] = t[j] /\ (j > 1 => q[i - 1] = t[j - 1])
      BY <1>1, <3>1, <3>2, Zenon
    <3> QED BY <3>2, <3>3, Zenon DEF Supplied
  <2> QED BY <1>1, <2>1, <2>2, Zenon
<1>3. Supplied(q, opened, named)
  BY <1>1, <1>2, Zenon DEF Supplied
<1> QED BY <1>3 DEF q

\* Steps that need neither.
LEMMA UnsuppliedSteps ==
  /\ \A s, opened, named : Unsupplied(s) => Supplied(s, opened, named)
  /\ \A s, t : Unsupplied(s) /\ Unsupplied(t) => Unsupplied(s \o t)
<1>1. \A s, opened, named : Unsupplied(s) => Supplied(s, opened, named)
  BY Zenon DEF Unsupplied, Supplied
<1>2. ASSUME NEW s, NEW t, Unsupplied(s), Unsupplied(t) PROVE Unsupplied(s \o t)
  BY <1>2 DEF Unsupplied
<1> QED BY <1>1, <1>2, Zenon

\* Whatever the command, what it is to do after its references are parsed
\* opens a file before it imports it, and loads pods that have names.
LEMMA SuppliedPlans ==
  ASSUME NEW req \in SnapRequests, Parsed(req).kind # "error", NEW opened \in BOOLEAN
  PROVE  Supplied(AfterParse(req, Parsed(req)), opened, Parsed(req).pod \in PodNames)
<1> DEFINE d == Parsed(req)
           named == d.pod \in PodNames
           Ok(s) == Supplied(s, opened, named)
<1>0. req.cmd \in {"save", "load", "start", "remove", "list", "show", "versions"}
  BY SnapRequestsOK, Zenon
<1>1. /\ Ok(SaveLocal) /\ Ok(SavePod) /\ Ok(SaveRemoteS3) /\ Ok(DiffPod)
      /\ Ok(ListRemoteS3) /\ Ok(ListPods) /\ Ok(ShowPod) /\ Ok(PodVersions)
  <2>1. \A s : Plainly(s) => Unsupplied(s)
    BY Zenon DEF Plainly, Unsupplied
  <2> QED BY <2>1, OtherPlans, UnsuppliedSteps, Zenon
<1>2. /\ Ok(<<>>) /\ Ok(<<"deps">>) /\ Ok(<<"launch">>) /\ Ok(<<"reset">>) /\ Ok(<<"confirm">>)
      /\ Ok(<<"health", "running">>) /\ Ok(<<"podRemove">>) /\ Ok(<<"auth", "health", "running">>)
  <2>1. /\ Unsupplied(<<>>) /\ Unsupplied(<<"deps">>) /\ Unsupplied(<<"launch">>) /\ Unsupplied(<<"reset">>)
        /\ Unsupplied(<<"confirm">>) /\ Unsupplied(<<"health", "running">>) /\ Unsupplied(<<"podRemove">>)
        /\ Unsupplied(<<"auth", "health", "running">>)
    BY DEF Unsupplied, StepNames
  <2> QED BY <2>1, UnsuppliedSteps, Zenon
<1>3. Ok(<<"open", "import">>)
  BY DEF Supplied, StepNames
<1>4. named => Ok(LoadPod) /\ Ok(LoadRemoteS3)
  <2> SUFFICES ASSUME named PROVE Ok(LoadPod) /\ Ok(LoadRemoteS3)
    OBVIOUS
  <2> HIDE DEF named
  <2>1. Ok(LoadPod)
    BY DEF Supplied, LoadPod, StepNames
  <2>2. Ok(LoadRemoteS3)
    BY DEF Supplied, LoadRemoteS3, StepNames
  <2> QED BY <2>1, <2>2
<1>5. \A s, t : Ok(s) /\ Ok(t) => Ok(s \o t)
  BY SuppliedLater, Zenon
<1> HIDE DEF Ok
<1>6. Ok(LoadLocal(req))
  <2>1. \/ LoadLocal(req) = (<<"health", "running">> \o <<"reset">>) \o <<"open", "import">>
        \/ LoadLocal(req) = (<<"health", "running">> \o <<>>) \o <<"open", "import">>
    BY Zenon DEF LoadLocal
  <2> QED BY <1>2, <1>3, <1>5, <2>1, Zenon
<1>7. CASE req.cmd = "save"
  <2>1. d.kind = "local" \/ d.kind = "pod" \/ d.kind = "s3"
    BY <1>7, ParsedSaves, Zenon DEF DestKinds
  <2>2. AfterParse(req, d) \in {SaveLocal, SavePod, SaveRemoteS3}
    <3> HIDE DEF d
    <3>1. CASE d.kind = "local"
      BY <1>7, <3>1, Zenon DEF AfterParse
    <3>2. CASE d.kind = "pod"
      BY <1>7, <3>2, Zenon DEF AfterParse
    <3>3. CASE d.kind = "s3"
      BY <1>7, <3>3, Zenon DEF AfterParse
    <3> QED BY <2>1, <3>1, <3>2, <3>3, Zenon
  <2> QED BY <1>1, <2>2, Zenon DEF Ok
<1>8. CASE req.cmd = "load"
  <2>1. d.kind = "local" \/ d.kind = "pod" \/ d.kind = "s3"
    BY <1>8, ParsedLoads, Zenon DEF DestKinds
  <2>2. d.kind # "local" => named
    BY <1>8, <2>1, LoadedNamed, Zenon
  <2>3. \/ d.kind = "local" /\ AfterParse(req, d) = <<"deps">> \o LoadLocal(req)
        \/ d.kind = "pod" /\ AfterParse(req, d) \in {DiffPod, <<"deps">> \o LoadPod}
        \/ d.kind = "s3" /\ AfterParse(req, d) = LoadRemoteS3
    <3> HIDE DEF d
    <3>1. CASE d.kind = "local"
      BY <1>8, <3>1, Zenon DEF AfterParse
    <3>2. CASE d.kind = "pod" /\ req.dryRun
      BY <1>8, <3>2, Zenon DEF AfterParse
    <3>3. CASE d.kind = "pod" /\ ~req.dryRun
      BY <1>8, <3>3, Zenon DEF AfterParse
    <3>4. CASE d.kind = "s3"
      BY <1>8, <3>4, Zenon DEF AfterParse
    <3> QED BY <2>1, <3>1, <3>2, <3>3, <3>4, Zenon
  <2>4. Ok(AfterParse(req, d))
    <3>1. d.kind # "local" => Ok(LoadPod) /\ Ok(LoadRemoteS3)
      BY <1>4, <2>2, Zenon
    <3> HIDE DEF d
    <3> QED BY <1>1, <1>2, <1>5, <1>6, <2>3, <3>1, Zenon
  <2> QED BY <2>4 DEF Ok
<1>9. CASE req.cmd = "start"
  <2>1. d.kind = "pod" => named
    BY <1>9, LoadedNamed, Zenon
  <2>2. AfterParse(req, d) = AutoLoad(req, d)
    <3> HIDE DEF d
    <3> QED BY <1>9, Zenon DEF AfterParse
  <2>3. \/ AutoLoad(req, d) = <<"launch">> \o <<>>
        \/ d.kind = "pod" /\ AutoLoad(req, d) = <<"launch">> \o LoadPod
        \/ AutoLoad(req, d) = <<"launch">> \o LoadLocal(req)
    <3> HIDE DEF d
    <3> QED BY Zenon DEF AutoLoad
  <2>4. Ok(AfterParse(req, d))
    <3>1. d.kind = "pod" => Ok(LoadPod)
      BY <1>4, <2>1, Zenon
    <3> HIDE DEF d
    <3> QED BY <1>2, <1>5, <1>6, <2>2, <2>3, <3>1, Zenon
  <2> QED BY <2>4 DEF Ok
<1>10. CASE req.cmd = "remove"
  <2> DEFINE front == IF req.interactive THEN <<>> ELSE <<"deps">>
             ask == IF req.force THEN <<>> ELSE <<"confirm">>
  <2>1. AfterParse(req, d) = ((front \o <<"auth", "health", "running">>) \o ask) \o <<"podRemove">>
    <3> HIDE DEF d
    <3> QED BY <1>10, Zenon DEF AfterParse, RemovePlan
  <2>2. Ok(front) /\ Ok(ask)
    BY <1>2, Zenon
  <2> HIDE DEF front, ask
  <2>3. Ok(AfterParse(req, d))
    BY <1>2, <1>5, <2>1, <2>2, Zenon
  <2> QED BY <2>3 DEF Ok
<1>11. CASE req.cmd \in {"list", "show", "versions"}
  <2>1. AfterParse(req, d) \in {ListRemoteS3, ListPods, ShowPod, PodVersions}
    <3> HIDE DEF d
    <3>1. CASE req.cmd = "list"
      BY <3>1, Zenon DEF AfterParse
    <3>2. CASE req.cmd = "show"
      BY <3>2, Zenon DEF AfterParse
    <3>3. CASE req.cmd = "versions"
      BY <3>3, Zenon DEF AfterParse
    <3> QED BY <1>11, <3>1, <3>2, <3>3, Zenon
  <2> QED BY <1>1, <2>1, Zenon DEF Ok
<1> QED BY <1>0, <1>7, <1>8, <1>9, <1>10, <1>11, Zenon

\* The rest of a plan, once the file of an open is there.
LEMMA SuppliedTail ==
  ASSUME NEW s, s # <<>>, NEW opened, NEW yet, NEW named, Supplied(s, opened, named),
         opened => yet, s[1] = "open" => yet
  PROVE  Supplied(Tail(s), yet, named)
<1>1. /\ Tail(s) \in Seq(StepNames) /\ Len(Tail(s)) = Len(s) - 1 /\ Len(s) \in Nat
      /\ \A i \in 1..Len(Tail(s)) : Tail(s)[i] = s[i + 1] /\ i + 1 \in 1..Len(s)
  BY DEF Supplied
<1>2. ASSUME NEW i \in 1..Len(Tail(s))
      PROVE  /\ Tail(s)[i] = "import" => yet \/ (i > 1 /\ Tail(s)[i - 1] = "open")
             /\ Tail(s)[i] = "podLoad" => named
  <2>1. PICK j \in 1..Len(s) : j = i + 1 /\ Tail(s)[i] = s[j]
    BY <1>1, Zenon
  <2>2. j - 1 = i /\ (i = 1 \/ i > 1)
    BY <1>1, <2>1
  <2>3. i > 1 => Tail(s)[i - 1] = s[i]
    BY <1>1, <2>2
  <2>4. (s[j] = "import" => opened \/ s[j - 1] = "open") /\ (s[j] = "podLoad" => named)
    BY Zenon DEF Supplied
  <2> QED BY <2>1, <2>2, <2>3, <2>4, Zenon
<1> QED BY <1>1, <1>2, Zenon DEF Supplied

-----------------------------------------------------------------------------
\* What the emulators, the files and the pods are.
Emulators == [running : BOOLEAN, items : SUBSET Items]
Archives == [whole : BOOLEAN, items : SUBSET Items]
Version == [items : SUBSET Items, deleted : BOOLEAN]
Inodes == SnapProcs \cup {"earlier"}
WorldTypes ==
  /\ snapHost \in [SnapProcs -> Hosts] /\ snapFd \in [SnapProcs -> Inodes \cup {"none"}]
  /\ snapHeld \in [SnapProcs -> SUBSET Items]
  /\ emu \in [Hosts -> Emulators] /\ dir \in [Paths -> Inodes \cup {"none", "folder"}]
  /\ inodes \in [Inodes -> Archives]
  /\ pods \in [Stores -> [PodNames -> Seq(Version)]] /\ bucket \in BOOLEAN /\ licensed \in BOOLEAN
PlanSupplied(p) ==
  Placed(snapDst[p]) /\ Supplied(snapPlan[p], snapFd[p] # "none", snapDst[p].pod \in PodNames)

\* Setting a field of an emulator, of an archive, of a pod.
LEMMA EmulatorSet ==
  ASSUME emu \in [Hosts -> Emulators], NEW h \in Hosts, NEW held \in SUBSET Items, NEW up \in BOOLEAN
  PROVE  /\ [emu EXCEPT ![h].items = held] \in [Hosts -> Emulators]
         /\ [emu EXCEPT ![h].running = up] \in [Hosts -> Emulators]
         /\ [emu EXCEPT ![h] = [running |-> up, items |-> held]] \in [Hosts -> Emulators]
         /\ emu[h].items \in SUBSET Items
BY DEF Emulators

LEMMA ArchiveTyped ==
  ASSUME NEW held \in SUBSET Items
  PROVE  Archive(held) \in Archives /\ Torn \in Archives
BY DEF Archive, Torn, Archives

\* What a stream makes of what the emulator holds are items.
LEMMA StreamTyped ==
  ASSUME emu \in [Hosts -> Emulators], NEW p \in SnapProcs, snapHost[p] \in Hosts,
         NEW items \in SUBSET Items, NEW strategy, LoadStream(p, items, strategy)
  PROVE  emu' \in [Hosts -> Emulators]
<1>0. Held(p) \in SUBSET Items
  BY EmulatorSet DEF Held
<1>1. ASSUME NEW held \in Merged(Held(p), items, strategy), emu' = [emu EXCEPT ![snapHost[p]].items = held]
      PROVE  emu' \in [Hosts -> Emulators]
  <2>1. \/ held = items \/ held = Held(p) \cup items \/ \E rest \in SUBSET Held(p) : held = items \cup rest
    <3>1. CASE strategy = "overwrite"
      <4>1. Merged(Held(p), items, strategy) = {items}
        BY <3>1, Zenon DEF Merged
      <4> QED BY <1>1, <4>1
    <3>2. CASE strategy = "service-merge"
      <4>1. Merged(Held(p), items, strategy) = {Held(p) \cup items}
        BY <3>2, Zenon DEF Merged
      <4> QED BY <1>1, <4>1
    <3>3. CASE strategy \notin {"overwrite", "service-merge"}
      <4>1. Merged(Held(p), items, strategy) = {items \cup rest : rest \in SUBSET Held(p)}
        BY <3>3, Zenon DEF Merged
      <4> QED BY <1>1, <4>1
    <3> QED BY <3>1, <3>2, <3>3, Zenon
  <2>2. held \in SUBSET Items
    BY <1>0, <2>1
  <2> QED BY <1>1, <2>2, EmulatorSet
<1>2. ASSUME NEW part \in SUBSET items, emu' = [emu EXCEPT ![snapHost[p]].items = @ \cup part]
      PROVE  emu' \in [Hosts -> Emulators]
  <2>1. PICK held : held = Held(p) \cup part
    OBVIOUS
  <2>2. held \in SUBSET Items
    BY <1>0, <2>1
  <2>3. emu' = [emu EXCEPT ![snapHost[p]].items = held]
    BY <1>2, <2>1 DEF Held
  <2> QED BY <2>2, <2>3, EmulatorSet
<1> QED BY <1>1, <1>2, Zenon DEF LoadStream

\* A step at which a load is next has an open file, or a name.
LEMMA NextSupplied ==
  ASSUME NEW p \in SnapProcs, PlanSupplied(p), WorldTypes
  PROVE  /\ SnapAt(p, "import") => snapFd[p] \in Inodes
         /\ SnapAt(p, "podLoad") => snapDst[p].pod \in PodNames
<1> SUFFICES ASSUME snapPlan[p] # <<>>
             PROVE  /\ Head(snapPlan[p]) = "import" => snapFd[p] \in Inodes
                    /\ Head(snapPlan[p]) = "podLoad" => snapDst[p].pod \in PodNames
  BY Zenon DEF SnapAt
<1>1. snapPlan[p] \in Seq(StepNames) /\ 1 \in 1..Len(snapPlan[p]) /\ Head(snapPlan[p]) = snapPlan[p][1] /\ ~(1 > 1)
  BY DEF PlanSupplied, Supplied
<1>2. /\ snapPlan[p][1] = "import" => snapFd[p] # "none"
      /\ snapPlan[p][1] = "podLoad" => snapDst[p].pod \in PodNames
  BY <1>1, Zenon DEF PlanSupplied, Supplied
<1>3. snapFd[p] \in Inodes \cup {"none"}
  BY DEF WorldTypes
<1> QED BY <1>1, <1>2, <1>3, Zenon

\* The latest of some versions is one of them.
LEMMA LatestIsOne ==
  ASSUME NEW n \in Nat, NEW S, S \subseteq 1..n, S # {}
  PROVE  (CHOOSE v \in S : \A w \in S : w <= v) \in S
<1>1. IsWellFoundedOn(OpToRel(<, Nat), Nat)
  BY NatLessThanWellFounded
<1> DEFINE T == {x \in Nat : \E v \in S : x = n - v}
<1>2. T \subseteq Nat /\ T # {}
  <2>1. PICK v \in S : TRUE
    OBVIOUS
  <2>2. n - v \in Nat
    BY <2>1
  <2> QED BY <2>1, <2>2
<1>3. PICK x \in T : \A y \in T : <<y, x>> \notin OpToRel(<, Nat)
  <2> HIDE DEF T
  <2> QED BY <1>1, <1>2, WFMin, Zenon
<1>4. PICK last \in S : x = n - last
  OBVIOUS
<1>5. ASSUME NEW w \in S PROVE w <= last
  <2>1. n - w \in T /\ n - w \in Nat /\ x \in Nat
    BY <1>2
  <2>2. ~(n - w < x)
    BY <1>3, <2>1 DEF OpToRel
  <2> QED BY <1>4, <2>1, <2>2
<1> QED BY <1>5

\* Whatever a command does, the emulators hold items, the files are archives
\* and the pods have versions. (internal/snapshot)
LEMMA EmulatorsTyped ==
  ASSUME WorldTypes, NEW p \in SnapProcs, PlanSupplied(p), SnapStep(p)
  PROVE  emu' \in [Hosts -> Emulators]
<1>0. emu \in [Hosts -> Emulators] /\ snapHost[p] \in Hosts /\ "docker" \in Hosts
  BY DEF WorldTypes, Hosts
<1>1. CASE ImportState(p)
  <2>1. SnapAt(p, "import")
    BY <1>1, Zenon DEF ImportState, Answered
  <2>2. inodes[snapFd[p]] \in Archives
    BY <2>1, NextSupplied DEF WorldTypes
  <2>3. inodes[snapFd[p]].items \in SUBSET Items
    BY <2>2 DEF Archives
  <2>4. emu' = emu \/ \E strategy : LoadStream(p, inodes[snapFd[p]].items, strategy)
    BY <1>1, Zenon DEF ImportState
  <2> QED BY <1>0, <2>3, <2>4, StreamTyped, Zenon
<1>2. CASE PodLoad(p)
  <2>1. SnapAt(p, "podLoad")
    BY <1>2, Zenon DEF PodLoad, Answered
  <2>2. Versions(p) \in Seq(Version)
    <3>1. snapDst[p].pod \in PodNames /\ Store(p) \in Stores
      BY <2>1, NextSupplied, Zenon DEF Store, Stores
    <3> QED BY <3>1 DEF WorldTypes, Versions
  <2>3. emu' = emu \/ \E v \in Wanted(p) : \E strategy : LoadStream(p, Versions(p)[v].items, strategy)
    <3>1. CASE Wanted(p) = {}
      BY <1>2, <3>1, Zenon DEF PodLoad
    <3>2. CASE Wanted(p) # {}
      <4> DEFINE latest == CHOOSE v \in Wanted(p) : \A w \in Wanted(p) : w <= v
      <4>1. LoadStream(p, Versions(p)[latest].items, MergeStrategy(snapReq[p]))
        BY <1>2, <3>2, Zenon DEF PodLoad
      <4>2. Wanted(p) \subseteq 1..Len(Versions(p)) /\ Len(Versions(p)) \in Nat
        BY <2>2 DEF Wanted, Live
      <4>3. latest \in Wanted(p)
        BY <3>2, <4>2, LatestIsOne, Zenon
      <4> QED BY <4>1, <4>3, Zenon
    <3> QED BY <3>1, <3>2
  <2>4. \A v \in Wanted(p) : Versions(p)[v].items \in SUBSET Items
    <3>1. Wanted(p) \subseteq DOMAIN Versions(p)
      BY Zenon DEF Wanted, Live
    <3>2. \A v \in DOMAIN Versions(p) : Versions(p)[v] \in Version
      BY <2>2
    <3>3. \A v \in Version : v.items \in SUBSET Items
      BY DEF Version
    <3> QED BY <3>1, <3>2, <3>3, Zenon
  <2> QED BY <1>0, <2>3, <2>4, StreamTyped, Zenon
<1>3. CASE ResetState(p)
  <2>1. emu' = [emu EXCEPT ![snapHost[p]].items = {}]
    BY <1>3, Zenon DEF ResetState
  <2> QED BY <1>0, <2>1, EmulatorSet
<1>4. CASE LaunchEmulator(p) \/ RequireRunning(p)
  <2>1. emu' = emu \/ emu' = [emu EXCEPT !["docker"].running = TRUE]
    BY <1>4, Zenon DEF LaunchEmulator, RequireRunning
  <2> QED BY <1>0, <2>1 DEF Emulators
<1>5. CASE ~(ImportState(p) \/ PodLoad(p) \/ ResetState(p) \/ LaunchEmulator(p) \/ RequireRunning(p))
  <2>1. emu' = emu
    BY <1>5 DEF SnapStep, ParseRefs, ResolveS3Credentials, ResolveDeps, RequireToken, EnsureBucketExists, CheckHealth,
                ConfirmRemoval, CreateFile, OpenFile, CallFails, ExportState, PodSave, PodRemove,
                RegisterRemote, ListPodsRemote, DiffPodSnapshot, PodSaveFails, PlatformCall, SnapKilled, SnapWorld, ReadsOnly
  <2> QED BY <1>0, <2>1
<1> QED BY <1>1, <1>2, <1>3, <1>4, <1>5

LEMMA PodSet ==
  ASSUME NEW V, NEW f \in [Stores -> [PodNames -> V]], NEW s \in Stores, NEW n, NEW x, n \in PodNames => x \in V
  PROVE  [f EXCEPT ![s][n] = x] \in [Stores -> [PodNames -> V]]
<1>1. f[s] \in [PodNames -> V]
  OBVIOUS
<1>2. [f[s] EXCEPT ![n] = x] \in [PodNames -> V]
  BY <1>1
<1> QED BY <1>2

LEMMA PodsTyped ==
  ASSUME WorldTypes, NEW p \in SnapProcs, SnapStep(p)
  PROVE  pods' \in [Stores -> [PodNames -> Seq(Version)]] /\ bucket' \in BOOLEAN /\ licensed' = licensed
<1>0. /\ pods \in [Stores -> [PodNames -> Seq(Version)]] /\ bucket \in BOOLEAN
      /\ Held(p) \in SUBSET Items
  BY EmulatorSet DEF WorldTypes, Held
<1>1. CASE PodSave(p)
  <2> DEFINE new == [items |-> Held(p), deleted |-> FALSE]
  <2>1. /\ pods' = [pods EXCEPT ![Store(p)][snapDst[p].pod] = Append(@, new)]
        /\ bucket' = (bucket \/ Store(p) = "bucket") /\ licensed' = licensed
    BY <1>1, Zenon DEF PodSave
  <2>2. new \in Version
    BY <1>0 DEF Version
  <2> HIDE DEF new
  <2>3. PICK s, n : s = Store(p) /\ n = snapDst[p].pod
    OBVIOUS
  <2>4. pods' = [pods EXCEPT ![s][n] = Append(pods[s][n], new)] /\ s \in Stores
    <3>1. s \in Stores
      BY <2>3, Zenon DEF Store, Stores
    <3> QED BY <2>1, <2>3, <3>1, Zenon
  <2>5. pods' \in [Stores -> [PodNames -> Seq(Version)]]
    <3>1. PICK x : x = Append(pods[s][n], new)
      OBVIOUS
    <3>2. n \in PodNames => x \in Seq(Version)
      <4>1. n \in PodNames => pods[s][n] \in Seq(Version)
        BY <1>0, <2>4
      <4> QED BY <2>2, <3>1, <4>1
    <3>3. pods' = [pods EXCEPT ![s][n] = x]
      BY <2>4, <3>1, Zenon
    <3>4. [pods EXCEPT ![s][n] = x] \in [Stores -> [PodNames -> Seq(Version)]]
      BY <1>0, <2>4, <3>2, PodSet, Zenon
    <3> QED BY <3>3, <3>4, Zenon
  <2>6. bucket' \in BOOLEAN
    BY <2>1, Zenon
  <2> QED BY <2>1, <2>5, <2>6
<1>2. CASE PodRemove(p)
  <2>1. pods' = [pods EXCEPT !["platform"][snapDst[p].pod] = <<>>] /\ bucket' = bucket /\ licensed' = licensed
    BY <1>2, Zenon DEF PodRemove
  <2>2. PICK n : n = snapDst[p].pod
    OBVIOUS
  <2>3. pods' = [pods EXCEPT !["platform"][n] = <<>>]
    BY <2>1, <2>2, Zenon
  <2>4. <<>> \in Seq(Version) /\ "platform" \in Stores
    BY DEF Stores
  <2>5. [pods EXCEPT !["platform"][n] = <<>>] \in [Stores -> [PodNames -> Seq(Version)]]
    BY <1>0, <2>4, PodSet, Zenon
  <2> QED BY <1>0, <2>1, <2>3, <2>5, Zenon
<1>3. CASE ~(PodSave(p) \/ PodRemove(p))
  <2>1. pods' = pods /\ bucket' = bucket /\ licensed' = licensed
    BY <1>3 DEF SnapStep, ParseRefs, ResolveS3Credentials, ResolveDeps, RequireToken, EnsureBucketExists, CheckHealth,
                LaunchEmulator, RequireRunning, ConfirmRemoval, CreateFile, OpenFile, CallFails, ExportState,
                ImportState, ResetState, RegisterRemote, ListPodsRemote, DiffPodSnapshot, PodSaveFails, PodLoad,
                PlatformCall, SnapKilled, SnapWorld, ReadsOnly
  <2> QED BY <1>0, <2>1
<1> QED BY <1>1, <1>2, <1>3

\* A command's files are inodes, and an open one stays open; what is opened
\* is a file.
LEMMA FilesTyped ==
  ASSUME WorldTypes, NEW p \in SnapProcs, PlanSupplied(p), SnapStep(p)
  PROVE  /\ dir' \in [Paths -> Inodes \cup {"none", "folder"}] /\ inodes' \in [Inodes -> Archives]
         /\ snapFd' = snapFd \/ \E i \in Inodes : snapFd' = [snapFd EXCEPT ![p] = i]
         /\ snapHeld' \in [SnapProcs -> SUBSET Items]
<1>0. /\ dir \in [Paths -> Inodes \cup {"none", "folder"}] /\ inodes \in [Inodes -> Archives]
      /\ snapHeld \in [SnapProcs -> SUBSET Items] /\ snapDst[p].path \in Paths /\ p \in Inodes
      /\ Held(p) \in SUBSET Items
  BY EmulatorSet DEF WorldTypes, Held, PlanSupplied, Placed, Inodes
<1>1. Torn \in Archives /\ Archive(Held(p)) \in Archives
  BY <1>0, ArchiveTyped
<1>R. RemoveFile(p) => dir' \in [Paths -> Inodes \cup {"none", "folder"}]
  BY <1>0 DEF RemoveFile
<1>2. CASE CreateFile(p)
  <2> DEFINE path == snapDst[p].path
             inode == IF dir[path] = "none" THEN p ELSE dir[path]
  <2>1. \/ UNCHANGED <<dir, inodes, snapFd>>
        \/ /\ dir[path] # "folder" /\ dir' = [dir EXCEPT ![path] = inode]
           /\ inodes' = [inodes EXCEPT ![inode] = Torn] /\ snapFd' = [snapFd EXCEPT ![p] = inode]
    BY <1>2, Zenon DEF CreateFile
  <2>2. snapHeld' = snapHeld
    BY <1>2, Zenon DEF CreateFile
  <2>3. dir[path] # "folder" => inode \in Inodes
    BY <1>0
  <2>4. PICK i, x : i = inode /\ x = path
    OBVIOUS
  <2>5. \/ UNCHANGED <<dir, inodes, snapFd>>
        \/ /\ i \in Inodes /\ dir' = [dir EXCEPT ![x] = i]
           /\ inodes' = [inodes EXCEPT ![i] = Torn] /\ snapFd' = [snapFd EXCEPT ![p] = i]
    BY <2>1, <2>3, <2>4, Zenon
  <2> HIDE DEF path, inode
  <2> QED BY <1>0, <1>1, <2>2, <2>5
<1>3. CASE OpenFile(p)
  <2>1. UNCHANGED <<snapHeld, dir, inodes>>
    BY <1>3 DEF OpenFile, SnapWorld
  <2>2. snapFd' = snapFd \/ (IsFile(snapDst[p].path) /\ snapFd' = [snapFd EXCEPT ![p] = dir[snapDst[p].path]])
    BY <1>3, Zenon DEF OpenFile
  <2>3. IsFile(snapDst[p].path) => dir[snapDst[p].path] \in Inodes
    BY <1>0 DEF IsFile
  <2> QED BY <1>0, <2>1, <2>2, <2>3
<1>4. CASE CallFails(p)
  <2>1. UNCHANGED <<snapFd, snapHeld, inodes>> /\ (RemoveFile(p) \/ dir' = dir)
    BY <1>4 DEF CallFails, SnapLocals
  <2> QED BY <1>0, <1>R, <2>1
<1>5. CASE ExportState(p)
  <2>1. /\ snapFd' = snapFd /\ (RemoveFile(p) \/ dir' = dir)
        /\ inodes' = inodes \/ inodes' = [inodes EXCEPT ![snapFd[p]] = Archive(Held(p))]
             \/ inodes' = [inodes EXCEPT ![snapFd[p]] = Torn]
        /\ snapHeld' = snapHeld \/ snapHeld' = [snapHeld EXCEPT ![p] = Held(p)]
    BY <1>5, Zenon DEF ExportState
  <2>2. inodes' \in [Inodes -> Archives]
    BY <1>0, <1>1, <2>1
  <2>3. snapHeld' \in [SnapProcs -> SUBSET Items]
    BY <1>0, <2>1
  <2> QED BY <1>0, <1>R, <2>1, <2>2, <2>3
<1>6. CASE PodSave(p)
  <2>1. /\ UNCHANGED <<snapFd, dir, inodes>>
        /\ snapHeld' = snapHeld \/ snapHeld' = [snapHeld EXCEPT ![p] = Held(p)]
    BY <1>6, Zenon DEF PodSave
  <2> QED BY <1>0, <2>1
<1>7. CASE ~(CreateFile(p) \/ OpenFile(p) \/ CallFails(p) \/ ExportState(p) \/ PodSave(p))
  <2>1. UNCHANGED <<snapFd, snapHeld, dir, inodes>>
    BY <1>7 DEF SnapStep, ParseRefs, ResolveS3Credentials, ResolveDeps, RequireToken, EnsureBucketExists, CheckHealth,
                LaunchEmulator, RequireRunning, ConfirmRemoval, ImportState, ResetState, RegisterRemote, ListPodsRemote,
                DiffPodSnapshot, PodSaveFails, PodLoad, PodRemove, PlatformCall, SnapKilled, SnapLocals, SnapWorld, ReadsOnly
  <2> QED BY <1>0, <2>1
<1> QED BY <1>2, <1>3, <1>4, <1>5, <1>6, <1>7

\* Its step keeps what a command's plan needs, of every command.
LEMMA OpensFile ==
  ASSUME WorldTypes, NEW p \in SnapProcs, PlanSupplied(p), SnapStep(p), snapPlan' # snapPlan,
         snapPlan[p] # <<>>, Head(snapPlan[p]) = "open"
  PROVE  \E i \in Inodes : snapFd' = [snapFd EXCEPT ![p] = i]
<1>1. CASE OpenFile(p)
  <2>1. IsFile(snapDst[p].path) /\ snapFd' = [snapFd EXCEPT ![p] = dir[snapDst[p].path]]
    BY <1>1, Zenon DEF OpenFile, SnapStops
  <2>2. dir[snapDst[p].path] \in Inodes
    BY <2>1 DEF IsFile, WorldTypes, PlanSupplied, Placed
  <2> QED BY <2>1, <2>2, Zenon
<1>2. CASE SnapKilled(p) \/ CallFails(p) \/ PodSaveFails(p)
  BY <1>2, Zenon DEF SnapKilled, CallFails, PodSaveFails, SnapStops
<1>3. CASE ParseRefs(p) \/ ResolveS3Credentials(p) \/ ResolveDeps(p) \/ RequireToken(p)
  BY <1>3, Zenon DEF ParseRefs, ResolveS3Credentials, ResolveDeps, RequireToken, SnapAt
<1>4. CASE EnsureBucketExists(p) \/ CheckHealth(p) \/ LaunchEmulator(p) \/ RequireRunning(p)
  BY <1>4, Zenon DEF EnsureBucketExists, CheckHealth, LaunchEmulator, RequireRunning, SnapAt
<1>5. CASE ConfirmRemoval(p) \/ CreateFile(p) \/ ExportState(p) \/ ImportState(p)
  BY <1>5, Zenon DEF ConfirmRemoval, CreateFile, ExportState, ImportState, Answered, SnapAt
<1>6. CASE ResetState(p) \/ RegisterRemote(p) \/ ListPodsRemote(p) \/ DiffPodSnapshot(p)
  BY <1>6, Zenon DEF ResetState, RegisterRemote, ListPodsRemote, DiffPodSnapshot, Answered, SnapAt
<1>7. CASE PodSave(p) \/ PodLoad(p) \/ PodRemove(p) \/ PlatformCall(p)
  BY <1>7, Zenon DEF PodSave, PodLoad, PodRemove, PlatformCall, Answered, SnapAt
<1> QED BY <1>1, <1>2, <1>3, <1>4, <1>5, <1>6, <1>7, Zenon DEF SnapStep

LEMMA SuppliedStays ==
  ASSUME Inv, WorldTypes, \A q \in SnapProcs : PlanSupplied(q), NEW p \in SnapProcs, SnapStep(p)
  PROVE  \A q \in SnapProcs : PlanSupplied(q)'
<1>1. /\ DOMAIN snapPlan = SnapProcs /\ DOMAIN snapDst = SnapProcs /\ DOMAIN snapFd = SnapProcs
      /\ snapReq[p] \in SnapRequests /\ PlanInv(p) /\ "none" \notin Inodes
  BY SnapConstants DEF Inv, Shapes, WorldTypes, Inodes
<1>2. snapFd' = snapFd \/ \E i \in Inodes : snapFd' = [snapFd EXCEPT ![p] = i]
  BY FilesTyped, Zenon
<1>3. ASSUME NEW q \in SnapProcs PROVE snapFd[q] # "none" => snapFd'[q] # "none"
  BY <1>1, <1>2
<1>4. ASSUME NEW q \in SnapProcs, snapPlan'[q] = snapPlan[q], snapDst'[q].pod = snapDst[q].pod, Placed(snapDst'[q])
      PROVE  PlanSupplied(q)'
  <2>1. Supplied(snapPlan[q], snapFd'[q] # "none", snapDst[q].pod \in PodNames)
    BY <1>3, Zenon DEF PlanSupplied, Supplied
  <2> QED BY <1>4, <2>1, Zenon DEF PlanSupplied
<1>5. CASE ParseRefs(p)
  <2> DEFINE d == Parsed(snapReq[p])
  <2>1. /\ snapDst' = [snapDst EXCEPT ![p] = d] /\ snapPlan[p] # <<>> /\ Head(snapPlan[p]) = "parse"
        /\ d.kind = "error" => snapPlan' = snapPlan
        /\ d.kind # "error" => snapPlan' = [snapPlan EXCEPT ![p] = AfterParse(snapReq[p], d) \o Tail(@)]
    BY <1>5 DEF ParseRefs, SnapAt, SnapStops
  <2>2. Placed(d)
    BY <1>1, ParsedPlaced, Zenon
  <2>3. d.kind # "error" => Supplied(AfterParse(snapReq[p], d), snapFd'[p] # "none", d.pod \in PodNames)
    <3>1. (snapFd'[p] # "none") \in BOOLEAN
      OBVIOUS
    <3> QED BY <1>1, <3>1, SuppliedPlans, Zenon
  <2> HIDE DEF d
  <2>4. snapPlan[p] \in Seq(StepNames) /\ Len(snapPlan[p]) = 1 /\ snapPlan[p][1] = "parse"
    <3>1. snapPlan[p] \in Seq(StepNames) /\ 1 \in 1..Len(snapPlan[p]) /\ snapPlan[p][1] = "parse"
      BY <1>1, <2>1 DEF PlanInv, PlanOK
    <3>2. StepOK(snapPlan[p], 1, snapReq[p], snapDst[p], snapYes[p])
      BY <1>1, <3>1, Zenon DEF PlanInv, PlanOK
    <3> QED BY <3>1, <3>2, Zenon DEF StepOK
  <2>5. PlanSupplied(p)'
    <3>1. CASE d.kind = "error"
      <4>1. snapPlan'[p] = snapPlan[p] /\ snapDst'[p] = d /\ Unsupplied(snapPlan[p])
        <5>1. Unsupplied(snapPlan[p])
          BY <2>4 DEF Unsupplied
        <5> QED BY <1>1, <2>1, <3>1, <5>1, Zenon
      <4> QED BY <2>2, <4>1, UnsuppliedSteps, Zenon DEF PlanSupplied
    <3>2. CASE d.kind # "error"
      <4>1. Tail(snapPlan[p]) = <<>>
        <5>1. Tail(snapPlan[p]) \in Seq(StepNames) /\ Len(Tail(snapPlan[p])) = 0
          BY <2>4
        <5>2. \A s \in Seq(StepNames) : Len(s) = 0 => s = <<>>
          OBVIOUS
        <5> QED BY <5>1, <5>2, Zenon
      <4>2. AfterParse(snapReq[p], d) \in Seq(StepNames)
        BY <2>3, <3>2, Zenon DEF Supplied
      <4>3. \A s \in Seq(StepNames) : s \o <<>> = s
        OBVIOUS
      <4>4. snapPlan'[p] = AfterParse(snapReq[p], d) /\ snapDst'[p] = d
        BY <1>1, <2>1, <3>2, <4>1, <4>2, <4>3, Zenon
      <4> QED BY <2>2, <2>3, <3>2, <4>4, Zenon DEF PlanSupplied
    <3> QED BY <3>1, <3>2
  <2>6. ASSUME NEW q \in SnapProcs, q # p PROVE PlanSupplied(q)'
    <3>1. snapPlan'[q] = snapPlan[q] /\ snapDst'[q] = snapDst[q]
      BY <1>1, <2>1, <2>6, Zenon
    <3> QED BY <1>4, <3>1, Zenon DEF PlanSupplied
  <2> QED BY <2>5, <2>6, Zenon
<1>6. CASE ConfirmRemoval(p) \/ Advances(p)
  <2>1. /\ snapDst' = snapDst
        /\ \/ snapPlan' = snapPlan
           \/ snapPlan[p] # <<>> /\ snapPlan' = [snapPlan EXCEPT ![p] = Tail(@)]
    BY <1>6 DEF ConfirmRemoval, Advances, SnapAt, SnapProceeds, SnapStops, SnapWorld
  <2>2. ASSUME NEW q \in SnapProcs, snapPlan'[q] # snapPlan[q] PROVE PlanSupplied(q)'
    <3>1. q = p /\ snapPlan[p] # <<>> /\ snapPlan'[p] = Tail(snapPlan[p]) /\ snapPlan' # snapPlan
      BY <1>1, <2>1, <2>2, Zenon
    <3>2. snapPlan[p][1] = Head(snapPlan[p])
      BY <1>1, <3>1 DEF PlanInv, PlanOK
    <3>3. Head(snapPlan[p]) = "open" => snapFd'[p] # "none"
      <4>1. Head(snapPlan[p]) = "open" => \E i \in Inodes : snapFd' = [snapFd EXCEPT ![p] = i]
        BY <3>1, OpensFile, Zenon
      <4> QED BY <1>1, <4>1
    <3>4. Supplied(Tail(snapPlan[p]), snapFd'[p] # "none", snapDst[p].pod \in PodNames)
      BY <1>3, <3>1, <3>2, <3>3, SuppliedTail, Zenon DEF PlanSupplied
    <3> QED BY <2>1, <3>1, <3>4, Zenon DEF PlanSupplied
  <2>3. ASSUME NEW q \in SnapProcs, snapPlan'[q] = snapPlan[q] PROVE PlanSupplied(q)'
    BY <1>4, <2>1, <2>3, Zenon DEF PlanSupplied
  <2> QED BY <2>2, <2>3, Zenon
<1> QED BY <1>5, <1>6, StepsAdvance, Zenon

LEMMA WorldStep ==
  ASSUME WorldTypes, NEW p \in SnapProcs, PlanSupplied(p), SnapStep(p)
  PROVE  WorldTypes'
<1>1. snapHost' \in [SnapProcs -> Hosts]
  <2>1. CASE ResolveDeps(p)
    <3>1. \/ snapHost' = snapHost \/ snapHost' = [snapHost EXCEPT ![p] = "external"]
          \/ snapHost' = [snapHost EXCEPT ![p] = "docker"]
      BY <2>1, Zenon DEF ResolveDeps
    <3> QED BY <3>1 DEF WorldTypes, Hosts
  <2>2. CASE ~ResolveDeps(p)
    <3>1. snapHost' = snapHost
      BY <2>2 DEF SnapStep, ParseRefs, ResolveS3Credentials, RequireToken, EnsureBucketExists, CheckHealth, LaunchEmulator,
                  RequireRunning, ConfirmRemoval, CreateFile, OpenFile, CallFails, ExportState, ImportState, ResetState,
                  RegisterRemote, ListPodsRemote, DiffPodSnapshot, PodSave, PodSaveFails, PodLoad, PodRemove,
                  PlatformCall, SnapKilled, SnapLocals, ReadsOnly
    <3> QED BY <3>1 DEF WorldTypes
  <2> QED BY <2>1, <2>2
<1>2. snapFd' \in [SnapProcs -> Inodes \cup {"none"}]
  <2>1. snapFd' = snapFd \/ \E i \in Inodes : snapFd' = [snapFd EXCEPT ![p] = i]
    BY FilesTyped, Zenon
  <2> QED BY <2>1 DEF WorldTypes
<1>3. /\ dir' \in [Paths -> Inodes \cup {"none", "folder"}] /\ inodes' \in [Inodes -> Archives]
      /\ snapHeld' \in [SnapProcs -> SUBSET Items]
  BY FilesTyped, Zenon
<1>4. emu' \in [Hosts -> Emulators]
  BY EmulatorsTyped, Zenon
<1>5. pods' \in [Stores -> [PodNames -> Seq(Version)]] /\ bucket' \in BOOLEAN /\ licensed' \in BOOLEAN
  <2>1. licensed \in BOOLEAN
    BY Zenon DEF WorldTypes
  <2> QED BY <2>1, PodsTyped, Zenon
<1> QED BY <1>1, <1>2, <1>3, <1>4, <1>5, Zenon DEF WorldTypes

LEMMA WorldOutside ==
  ASSUME WorldTypes, NEW h \in Hosts, Deploy(h) \/ EmulatorStops(h)
  PROVE  WorldTypes'
<1>1. emu' \in [Hosts -> Emulators]
  <2>1. CASE Deploy(h)
    <3>1. PICK i \in Items : emu' = [emu EXCEPT ![h].items = @ \cup {i}]
      BY <2>1, Zenon DEF Deploy
    <3>2. PICK held : held = emu[h].items \cup {i}
      OBVIOUS
    <3>3. held \in SUBSET Items
      BY <3>2 DEF WorldTypes, Emulators
    <3>4. emu' = [emu EXCEPT ![h].items = held]
      BY <3>1, <3>2 DEF WorldTypes
    <3> QED BY <3>3, <3>4, EmulatorSet DEF WorldTypes
  <2>2. CASE EmulatorStops(h)
    <3>1. emu' = [emu EXCEPT ![h] = [running |-> FALSE, items |-> {}]]
      BY <2>2, Zenon DEF EmulatorStops
    <3>2. [running |-> FALSE, items |-> {}] \in Emulators
      BY DEF Emulators
    <3> QED BY <3>1, <3>2 DEF WorldTypes
  <2> QED BY <2>1, <2>2
<1>2. UNCHANGED <<snapHost, snapFd, snapHeld, dir, inodes, pods, bucket, licensed>>
  BY Zenon DEF Deploy, EmulatorStops
<1> QED BY <1>1, <1>2 DEF WorldTypes

LEMMA WorldInit == SnapInit => WorldTypes /\ \A p \in SnapProcs : PlanSupplied(p)
<1> SUFFICES ASSUME SnapInit PROVE WorldTypes /\ \A p \in SnapProcs : PlanSupplied(p)
  OBVIOUS
<1>1. /\ snapHost \in [SnapProcs -> Hosts] /\ snapFd \in [SnapProcs -> Inodes \cup {"none"}]
      /\ snapHeld \in [SnapProcs -> SUBSET Items] /\ bucket \in BOOLEAN /\ licensed \in BOOLEAN
  BY DEF SnapInit, Hosts
<1>2. emu \in [Hosts -> Emulators]
  <2>1. [running |-> TRUE, items |-> {}] \in Emulators /\ [running |-> FALSE, items |-> {}] \in Emulators
    BY DEF Emulators
  <2>2. emu \in [Hosts -> {[running |-> TRUE, items |-> {}], [running |-> FALSE, items |-> {}]}]
    BY Zenon DEF SnapInit
  <2> QED BY <2>1, <2>2
<1>3. dir \in [Paths -> Inodes \cup {"none", "folder"}]
  <2>1. PICK there \in {"none", "folder", "earlier"}, ext \in {"", "snapshot", "zip"} :
          dir = [path \in Paths |-> IF path = [base |-> "state", ext |-> ext] THEN there ELSE "none"]
    BY Zenon DEF SnapInit
  <2>2. there \in Inodes \cup {"none", "folder"}
    BY <2>1 DEF Inodes
  <2> QED BY <2>1, <2>2
<1>4. inodes \in [Inodes -> Archives]
  <2>1. Archive({}) \in Archives /\ Torn \in Archives
    BY ArchiveTyped
  <2>2. inodes = [i \in Inodes |-> IF i = "earlier" THEN Archive({}) ELSE Torn]
    BY Zenon DEF SnapInit, Inodes
  <2> QED BY <2>1, <2>2
<1>5. pods \in [Stores -> [PodNames -> Seq(Version)]]
  <2> DEFINE a == [items |-> Items, deleted |-> TRUE]
             b == [items |-> {}, deleted |-> FALSE]
  <2>1. PICK versions \in {<<>>, <<a, b>>} : pods = [NoVersions EXCEPT !["platform"]["pod"] = versions]
    BY Zenon DEF SnapInit
  <2>2. a \in Version /\ b \in Version
    BY DEF Version
  <2> HIDE DEF a, b
  <2>3. versions \in Seq(Version)
    <3>1. \A V : \A x, y \in V : <<x, y>> \in Seq(V) /\ <<>> \in Seq(V)
      OBVIOUS
    <3> QED BY <2>1, <2>2, <3>1, Zenon
  <2>4. NoVersions \in [Stores -> [PodNames -> Seq(Version)]] /\ "platform" \in Stores
    BY DEF NoVersions, Stores
  <2>5. [NoVersions EXCEPT !["platform"]["pod"] = versions] \in [Stores -> [PodNames -> Seq(Version)]]
    BY <2>3, <2>4, PodSet, Zenon
  <2> QED BY <2>1, <2>5, Zenon
<1>6. ASSUME NEW p \in SnapProcs PROVE PlanSupplied(p)
  <2>1. \A req : Unsupplied(Opening(req))
    <3>1. Unsupplied(<<"parse">>) /\ Unsupplied(<<"deps", "parse">>)
      BY DEF Unsupplied, StepNames
    <3> QED BY <3>1, Zenon DEF Opening
  <2>2. snapPlan[p] = Opening(snapReq[p]) /\ snapDst[p] = BadRef("")
    BY Zenon DEF SnapInit
  <2> QED BY <2>1, <2>2, UnsuppliedSteps, PlacedMakers, Zenon DEF PlanSupplied
<1> QED BY <1>1, <1>2, <1>3, <1>4, <1>5, <1>6, Zenon DEF WorldTypes

\* The snapshot commands' variables keep their types: what is imported is a
\* file that was opened, what is loaded a pod that has a name, and whatever
\* is broken off or fails leaves archives, items and versions.
\* (internal/snapshot)
THEOREM SnapTyped == SnapSpec => []SnapTypeOK
<1>1. /\ Inv /\ WorldTypes /\ (\A p \in SnapProcs : PlanSupplied(p)) /\ [SnapNext]_snapVars
        => WorldTypes' /\ (\A p \in SnapProcs : PlanSupplied(p))'
  <2> SUFFICES ASSUME Inv, WorldTypes, \A p \in SnapProcs : PlanSupplied(p), [SnapNext]_snapVars
               PROVE  WorldTypes' /\ \A p \in SnapProcs : PlanSupplied(p)'
    OBVIOUS
  <2>1. CASE \E p \in SnapProcs : SnapStep(p)
    BY <2>1, WorldStep, SuppliedStays, Zenon
  <2>2. CASE \E h \in Hosts : Deploy(h) \/ EmulatorStops(h)
    <3>1. UNCHANGED <<snapPlan, snapDst, snapFd>>
      BY <2>2, Zenon DEF Deploy, EmulatorStops
    <3> QED BY <2>2, <3>1, WorldOutside, Zenon DEF PlanSupplied
  <2>3. CASE UNCHANGED snapVars
    <3>1. UNCHANGED <<snapPlan, snapDst, snapFd>>
      BY <2>3, Zenon DEF snapVars
    <3>2. WorldTypes'
      BY <2>3 DEF snapVars, WorldTypes
    <3>3. \A p \in SnapProcs : PlanSupplied(p)'
      BY <3>1, Zenon DEF PlanSupplied
    <3> QED BY <3>2, <3>3
  <2> QED BY <2>1, <2>2, <2>3, Zenon DEF SnapNext
<1>2. Inv /\ WorldTypes => SnapTypeOK
  BY DEF Inv, Shapes, WorldTypes, SnapTypeOK, Emulators, Archives, Version, Inodes
<1> QED BY <1>1, <1>2, WorldInit, InvHolds, PTL DEF SnapSpec
=============================================================================
