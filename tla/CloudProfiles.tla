--------------------------- MODULE CloudProfiles ----------------------------
(***************************************************************************)
(* What lstk writes into the configuration of other people's tools: the    *)
(* "localstack" profile of ~/.aws (setup aws, and the end of a start), and *)
(* the LocalStack cloud of the Azure CLI, in lstk's own directory (setup   *)
(* azure) or in the user's (start-interception, stop-interception).        *)
(***************************************************************************)
EXTENDS Naturals, Sequences, FiniteSets

CONSTANTS
  ProfileProcs,     \* the lstk processes
  ProfileRequests,  \* what they may be asked
  AwsStarts,        \* the ~/.aws there may be at first
  UserSections      \* the profile sections a user may write meanwhile

VARIABLES
  cpReq, cpAt, cpEnd,
  aws,       \* the sections of ~/.aws/config and ~/.aws/credentials
  cpSeen,    \* the sections a process saw when it checked
  cpNeeded,  \* the files it then found to need writing
  cpSaidYes, \* whether its user confirmed
  cpWrote,   \* the files it wrote
  clouds,    \* the Azure CLI configurations: "global" and "lstk"
  marker,    \* whether lstk's own says its setup is complete
  cpOverrun  \* history: the stop-interceptions between whose two steps
             \* LocalStack was made the active cloud again

cpVars ==
  <<cpReq, cpAt, cpEnd, aws, cpSeen, cpNeeded, cpSaidYes, cpWrote, clouds, marker, cpOverrun>>

AwsFiles == {"config", "credentials"}
Absent == "absent"
Broken == "broken"
\* A section: absent, its file unreadable, what lstk writes, without the
\* region, or with values of somebody else.
Sections == {Absent, Broken, "lstk", "partial", "other"}
AzureDirs == {"global", "lstk"}
NoCloud == [registered |-> FALSE, active |-> "AzureCloud", discovery |-> TRUE, loggedIn |-> FALSE,
            telemetry |-> TRUE]
\* What an earlier start-interception has left.
Intercepted == [registered |-> TRUE, active |-> "LocalStack", discovery |-> FALSE, loggedIn |-> TRUE,
                telemetry |-> TRUE]
\* The clouds the Azure CLI may be on: its own, LocalStack, one the user has
\* picked, and those a stop-interception was told to go back to.
CloudNames == {"AzureCloud", "LocalStack", "Mine"} \cup ({r.cloud : r \in ProfileRequests} \ {"Unknown"})

ASSUME ProfileConstants == AwsStarts \subseteq [AwsFiles -> Sections] /\ UserSections \subseteq Sections
-----------------------------------------------------------------------------
ProfileInit ==
  /\ cpReq \in [ProfileProcs -> ProfileRequests]
  /\ cpAt = [p \in ProfileProcs |->
               CASE cpReq[p].cmd \in {"setup-aws", "start"} -> "check"
                 [] cpReq[p].cmd \notin {"setup-aws", "start"} -> "installed"]
  /\ cpEnd = [p \in ProfileProcs |-> "busy"]
  /\ aws \in AwsStarts
  /\ cpSeen = [p \in ProfileProcs |-> [f \in AwsFiles |-> Absent]]
  /\ cpNeeded = [p \in ProfileProcs |-> {}]
  /\ cpSaidYes = [p \in ProfileProcs |-> FALSE]
  /\ cpWrote = [p \in ProfileProcs |-> {}]
  /\ clouds \in {[d \in AzureDirs |-> IF d = "global" THEN g ELSE NoCloud] : g \in {NoCloud, Intercepted}}
  /\ marker = FALSE
  /\ cpOverrun = {}

CpAt(p, at) == cpAt[p] = at /\ cpEnd[p] = "busy"
CpGo(p, at) == cpAt' = [cpAt EXCEPT ![p] = at] /\ UNCHANGED cpEnd
CpStop(p, why) == cpEnd' = [cpEnd EXCEPT ![p] = why] /\ UNCHANGED cpAt
AwsState == <<aws, cpSeen, cpNeeded, cpSaidYes, cpWrote>>
AzureState == <<clouds, marker, cpOverrun>>
-----------------------------------------------------------------------------
\* The AWS profile. The check reads both files; the writes come later, after
\* a prompt or at once, and merge into what is there then.
ConfigNeedsWrite(section) == section # "lstk"
CredsNeedWrite(section) == section # "lstk"
Needed(a) ==
  (IF ConfigNeedsWrite(a["config"]) THEN {"config"} ELSE {})
    \cup (IF CredsNeedWrite(a["credentials"]) THEN {"credentials"} ELSE {})
\* Mutant: only the config file's section counts.
OverwritingConfigOnly(a) == a["config"] # Absent /\ "config" \in Needed(a)
Overwriting(a) == \E f \in Needed(a) : a[f] # Absent

FirstWrite(needed) == IF "config" \in needed THEN "write-config" ELSE "write-credentials"
AfterCheck(p, a) ==
  CASE cpReq[p].cmd = "start" ->
         IF cpReq[p].interactive /\ (\A f \in AwsFiles : a[f] = Absent) THEN "ask" ELSE "noted"
    [] cpReq[p].cmd = "setup-aws" /\ cpReq[p].interactive ->
         IF cpReq[p].force THEN FirstWrite(Needed(a)) ELSE "ask"
    [] OTHER -> IF Overwriting(a) /\ ~cpReq[p].force THEN "refused" ELSE FirstWrite(Needed(a))
CheckProfileSetup(p) ==
  LET next == AfterCheck(p, aws)
  IN  /\ CpAt(p, "check")
      /\ UNCHANGED <<cpReq, aws, cpSaidYes, cpWrote, AzureState>>
      /\ IF \E f \in AwsFiles : aws[f] = Broken
         THEN /\ CpStop(p, IF cpReq[p].cmd = "start" THEN "warned" ELSE "failed")
              /\ UNCHANGED <<cpSeen, cpNeeded>>
         ELSE /\ cpSeen' = [cpSeen EXCEPT ![p] = aws]
              /\ cpNeeded' = [cpNeeded EXCEPT ![p] = Needed(aws)]
              /\ IF Needed(aws) = {} THEN CpStop(p, "configured")
                 ELSE IF next \in {"noted", "refused"} THEN CpStop(p, next)
                 ELSE CpGo(p, next)

\* The confirmation: yes, no, or Ctrl+C.
ConfirmProfile(p) ==
  /\ CpAt(p, "ask")
  /\ UNCHANGED <<cpReq, aws, cpSeen, cpNeeded, cpWrote, AzureState>>
  /\ \/ cpSaidYes' = [cpSaidYes EXCEPT ![p] = TRUE] /\ CpGo(p, FirstWrite(cpNeeded[p]))
     \/ CpStop(p, "skipped") /\ UNCHANGED cpSaidYes

\* upsertSection creates or completes one section and keeps the rest.
UpsertSection(p, f, next) ==
  /\ UNCHANGED <<cpReq, cpSeen, cpNeeded, cpSaidYes, AzureState>>
  /\ IF aws[f] = Broken
     THEN /\ CpStop(p, IF cpReq[p].cmd = "start" THEN "warned" ELSE "failed")
          /\ UNCHANGED <<aws, cpWrote>>
     ELSE \/ /\ aws' = [aws EXCEPT ![f] = "lstk"]
             /\ cpWrote' = [cpWrote EXCEPT ![p] = @ \cup {f}]
             /\ IF next = "" THEN CpStop(p, "written") ELSE CpGo(p, next)
          \/ /\ CpStop(p, IF cpReq[p].cmd = "start" THEN "warned" ELSE "failed")
             /\ UNCHANGED <<aws, cpWrote>>
WriteConfigProfile(p) ==
  /\ CpAt(p, "write-config")
  /\ UpsertSection(p, "config", IF "credentials" \in cpNeeded[p] THEN "write-credentials" ELSE "")
WriteCredsProfile(p) ==
  /\ CpAt(p, "write-credentials")
  /\ UpsertSection(p, "credentials", "")
-----------------------------------------------------------------------------
\* The Azure CLI. Every step is a run of az, which may fail; the steps before
\* stay done.
DirOf(p) == IF cpReq[p].cmd = "setup-azure" THEN "lstk" ELSE "global"
AzSteps ==
  <<"healthy", "list", "register", "activate", "no-discovery", "login", "mark">>
StepAfter(at) == AzSteps[CHOOSE i \in 2..Len(AzSteps) : AzSteps[i - 1] = at]
Global == clouds["global"]
Reactivates(c) == Global.active # "LocalStack" /\ c.active = "LocalStack"
Cloud(p, c) ==
  /\ clouds' = [clouds EXCEPT ![DirOf(p)] = c]
  /\ cpOverrun' = IF DirOf(p) = "global" /\ Reactivates(c)
                  THEN cpOverrun \cup {q \in ProfileProcs : CpAt(q, "restore-discovery")} ELSE cpOverrun

\* az there; for the setup and the interception an emulator that answers.
AzInstalled(p) ==
  /\ CpAt(p, "installed")
  /\ UNCHANGED <<cpReq, AwsState, AzureState>>
  /\ \/ CpGo(p, IF cpReq[p].cmd = "stop" THEN "active" ELSE "healthy")
     \/ CpStop(p, "no-az")
AzCheck(p) ==
  /\ CpAt(p, "healthy") \/ CpAt(p, "list")
  /\ UNCHANGED <<cpReq, AwsState, AzureState>>
  /\ CpGo(p, StepAfter(cpAt[p])) \/ CpStop(p, "failed")

\* Mutant: the marker is written as soon as the cloud is there.
MarksAtEarly(at) == at = "register"
MarksAt(at) == at = "mark"
AzStep(p, at, after) ==
  /\ CpAt(p, at)
  /\ UNCHANGED <<cpReq, AwsState>>
  /\ \/ /\ Cloud(p, after)
        /\ marker' = (marker \/ (DirOf(p) = "lstk" /\ MarksAt(at)))
        /\ IF at = "mark" \/ (at = "login" /\ DirOf(p) = "global")
           THEN CpStop(p, "ready") ELSE CpGo(p, StepAfter(at))
     \/ CpStop(p, "failed") /\ UNCHANGED AzureState
RegisterCloud(p) == AzStep(p, "register", [clouds[DirOf(p)] EXCEPT !.registered = TRUE])
ActivateCloud(p) == AzStep(p, "activate", [clouds[DirOf(p)] EXCEPT !.active = "LocalStack"])
DisableDiscovery(p) ==
  AzStep(p, "no-discovery",
    [clouds[DirOf(p)] EXCEPT !.discovery = FALSE, !.telemetry = @ /\ DirOf(p) = "global"])
LoginDummy(p) == AzStep(p, "login", [clouds[DirOf(p)] EXCEPT !.loggedIn = TRUE])
WriteMarker(p) == AzStep(p, "mark", clouds[DirOf(p)])

\* stop-interception: only when LocalStack is active, and to a known cloud.
TargetKnown(p) == cpReq[p].cloud # "Unknown"
CheckActiveCloud(p) ==
  /\ CpAt(p, "active")
  /\ UNCHANGED <<cpReq, AwsState, AzureState>>
  /\ \/ CpStop(p, "failed")
     \/ Global.active # "LocalStack" /\ CpStop(p, "nothing-to-revert")
     \/ /\ Global.active = "LocalStack"
        /\ IF TargetKnown(p) THEN CpGo(p, "revert") ELSE CpStop(p, "unknown-cloud")
RevertCloud(p) ==
  /\ CpAt(p, "revert")
  /\ UNCHANGED <<cpReq, AwsState, marker>>
  /\ \/ Cloud(p, [Global EXCEPT !.active = cpReq[p].cloud]) /\ CpGo(p, "restore-discovery")
     \/ CpStop(p, "failed") /\ UNCHANGED <<clouds, cpOverrun>>
\* Mutant: the discovery stays off.
DiscoveryRestoredNever(c) == c
DiscoveryRestored(c) == [c EXCEPT !.discovery = TRUE]
RestoreDiscovery(p) ==
  /\ CpAt(p, "restore-discovery")
  /\ UNCHANGED <<cpReq, AwsState, marker>>
  /\ \/ Cloud(p, DiscoveryRestored(Global)) /\ CpStop(p, "stopped")
     \/ CpStop(p, "failed") /\ UNCHANGED <<clouds, cpOverrun>>
-----------------------------------------------------------------------------
\* The user edits ~/.aws or picks a cloud; a process is killed.
UserEditsProfile(f, section) ==
  /\ aws[f] # section
  /\ aws' = [aws EXCEPT ![f] = section]
  /\ UNCHANGED <<cpReq, cpAt, cpEnd, cpSeen, cpNeeded, cpSaidYes, cpWrote, AzureState>>
UserPicksCloud ==
  /\ Global.active = "AzureCloud"
  /\ clouds' = [clouds EXCEPT !["global"].active = "Mine"]
  /\ UNCHANGED <<cpReq, cpAt, cpEnd, AwsState, marker, cpOverrun>>
ProfileKilled(p) ==
  /\ cpEnd[p] = "busy" /\ CpStop(p, "killed")
  /\ UNCHANGED <<cpReq, AwsState, AzureState>>

ProfileStep(p) ==
  \/ CheckProfileSetup(p) \/ ConfirmProfile(p) \/ WriteConfigProfile(p) \/ WriteCredsProfile(p)
  \/ AzInstalled(p) \/ AzCheck(p) \/ RegisterCloud(p) \/ ActivateCloud(p) \/ DisableDiscovery(p)
  \/ LoginDummy(p) \/ WriteMarker(p)
  \/ CheckActiveCloud(p) \/ RevertCloud(p) \/ RestoreDiscovery(p)
ProfileNext ==
  \/ \E p \in ProfileProcs : ProfileStep(p) \/ ProfileKilled(p)
  \/ \E f \in AwsFiles, s \in UserSections : UserEditsProfile(f, s)
  \/ UserPicksCloud
ProfileSpec == ProfileInit /\ [][ProfileNext]_cpVars
-----------------------------------------------------------------------------
ProfileTypeOK ==
  /\ cpReq \in [ProfileProcs -> ProfileRequests]
  /\ DOMAIN cpAt = ProfileProcs /\ DOMAIN cpEnd = ProfileProcs
  /\ aws \in [AwsFiles -> Sections]
  /\ cpSeen \in [ProfileProcs -> [AwsFiles -> Sections]]
  /\ cpNeeded \in [ProfileProcs -> SUBSET AwsFiles]
  /\ cpSaidYes \in [ProfileProcs -> BOOLEAN]
  /\ cpWrote \in [ProfileProcs -> SUBSET AwsFiles]
  /\ clouds \in [AzureDirs -> [registered : BOOLEAN, active : CloudNames,
                               discovery : BOOLEAN, loggedIn : BOOLEAN, telemetry : BOOLEAN]]
  /\ marker \in BOOLEAN /\ cpOverrun \subseteq ProfileProcs

\* A command that was neither confirmed nor forced only ever writes profile
\* sections it had found missing, in both files; and one that stopped over
\* an existing profile wrote neither.
ProfileNotTakenOver ==
  \A p \in ProfileProcs :
    /\ ~cpSaidYes[p] /\ ~cpReq[p].force => \A f \in cpWrote[p] : cpSeen[p][f] = Absent
    /\ cpEnd[p] \in {"refused", "noted", "skipped"} => cpWrote[p] = {}

\* The marker of lstk's own Azure configuration is there only once all of the
\* setup was done, wherever earlier attempts failed or were killed.
MarkerMeansReady ==
  marker => /\ clouds["lstk"].registered /\ clouds["lstk"].active = "LocalStack"
            /\ ~clouds["lstk"].discovery /\ clouds["lstk"].loggedIn

\* A stop-interception that says it stopped leaves the user's Azure CLI
\* validating authorities and on another cloud than LocalStack, whatever else
\* az was used for between its two steps; LocalStack is only active if the
\* user named it as the cloud to go back to, or an interception was begun
\* between the two. Nothing lstk does to its own configuration touches the
\* user's. (interception.go, StopInterception; azureconfig.go, Setup)
StopsIntercepting(p) ==
  /\ clouds'["global"].discovery
  /\ \/ clouds'["global"].active # "LocalStack"
     \/ cpReq[p].cloud = "LocalStack" \/ p \in cpOverrun
InterceptionUndone ==
  [][\A p \in ProfileProcs :
       /\ cpEnd[p] = "busy" /\ cpEnd'[p] = "stopped" => StopsIntercepting(p)
       /\ cpReq[p].cmd = "setup-azure" /\ cpAt'[p] # cpAt[p] => clouds'["global"] = clouds["global"]]_cpVars
=============================================================================
