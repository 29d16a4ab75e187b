--------------------------- MODULE UserFilesProofs ---------------------------
(***************************************************************************)
(* Proofs about the files of the user's that lstk changes: the profiles of *)
(* other tools (CloudProfiles), its own executable (SelfUpdate) and        *)
(* config.toml (ConfigFiles).                                              *)
(*                                                                         *)
(* MarkerMeansReady and ProfileNotTakenOver are proved for any number of   *)
(* commands at once, any starting ~/.aws and any edits of the user's. The  *)
(* Azure part rests on the setup only ever adding to lstk's own            *)
(* configuration, so that what one setup has established no other takes    *)
(* back; the AWS part on what the check knew when the first file was       *)
(* written. InterceptionUndone is proved of each step, from what a stop of *)
(* interception has set back by its last one.                              *)
(* ExecutableSound is proved for any number of updates that run            *)
(* at once, on any systems and file systems, and for any number of         *)
(* releases: by the time an update touches the disk its archive was        *)
(* verified, and the steps that leave no executable, or half of one, are   *)
(* for Windows or another file system.                                     *)
(*                                                                         *)
(* UserConfigKept rests on lstk creating a file only where there is none,  *)
(* so where the user has none, and on an edit only ever changing keys of   *)
(* tables that are there; StartsWhatWasChosen on what each process knows,  *)
(* stage by stage, of the type in its memory and in its file. Both hold    *)
(* for any number of processes, any readable files and any user's saves.   *)
(* PlannedAsAsked rests on the plan: the loops over expose_ports, the      *)
(* gateway's addresses and the profiles are taken by induction on their    *)
(* length, each with what it has kept after n rounds.                      *)
(*                                                                         *)
(* ProfileTypeOK, UpdateTypeOK and ConfigTypeOK are proved beside them.    *)
(***************************************************************************)
EXTENDS CloudProfiles, SelfUpdate, ConfigFiles, SequenceTheorems, FiniteSetTheorems,
  WellFoundedInduction, TLAPS

\* CloudProfiles
AwsStages == {"check", "ask", "write-config", "write-credentials"}
SetupStages == {"healthy", "list", "register", "activate", "no-discovery", "login", "mark"}
RevertStages == {"active", "revert", "restore-discovery"}
ProfileStages == AwsStages \cup SetupStages \cup RevertStages \cup {"installed"}
LstkClouds ==
  [registered : BOOLEAN, active : {"AzureCloud", "LocalStack"}, discovery : BOOLEAN, loggedIn : BOOLEAN,
   telemetry : BOOLEAN]

ProfileTypes ==
  /\ cpAt \in [ProfileProcs -> ProfileStages] /\ DOMAIN cpEnd = ProfileProcs
  /\ DOMAIN cpSeen = ProfileProcs
  /\ cpNeeded \in [ProfileProcs -> SUBSET AwsFiles]
  /\ cpSaidYes \in [ProfileProcs -> BOOLEAN]
  /\ cpWrote \in [ProfileProcs -> SUBSET AwsFiles]
  /\ DOMAIN clouds = AzureDirs /\ clouds["lstk"] \in LstkClouds
  /\ marker \in BOOLEAN

\* How far lstk's own configuration is when a setup of it is at a stage.
SetupDone(c, at) ==
  /\ at \in {"activate", "no-discovery", "login", "mark"} => c.registered
  /\ at \in {"no-discovery", "login", "mark"} => c.active = "LocalStack"
  /\ at \in {"login", "mark"} => ~c.discovery
  /\ at = "mark" => c.loggedIn
AzureInv ==
  /\ \A p \in ProfileProcs : cpReq[p].cmd = "setup-azure" =>
       SetupDone(clouds["lstk"], cpAt[p]) /\ cpAt[p] \notin RevertStages
  /\ MarkerMeansReady

\* A write is for a file that was found to need it; without a confirmation or
\* --force all of those were missing.
AwsWriteInv(p) ==
  /\ cpWrote[p] \subseteq cpNeeded[p]
  /\ cpAt[p] = "check" \/ cpAt[p] = "ask" => cpWrote[p] = {}
  /\ cpAt[p] = "ask" => cpNeeded[p] # {}
  /\ cpAt[p] = "write-config" => "config" \in cpNeeded[p]
  /\ cpAt[p] = "write-credentials" => "credentials" \in cpNeeded[p]
  /\ ~cpSaidYes[p] /\ ~cpReq[p].force /\ cpAt[p] \in {"write-config", "write-credentials"} =>
       \A f \in cpNeeded[p] : cpSeen[p][f] = Absent
  /\ ~cpSaidYes[p] /\ ~cpReq[p].force => \A f \in cpWrote[p] : cpSeen[p][f] = Absent
  /\ cpEnd[p] \in {"refused", "noted", "skipped"} => cpWrote[p] = {}
AwsInv == \A p \in ProfileProcs : AwsWriteInv(p)

ProfileInv == ProfileTypes /\ AzureInv /\ AwsInv

\* The order of the setup's steps. (azureconfig.go, Setup)
LEMMA StepAfterIs ==
  /\ StepAfter("healthy") = "list" /\ StepAfter("list") = "register"
  /\ StepAfter("register") = "activate" /\ StepAfter("activate") = "no-discovery"
  /\ StepAfter("no-discovery") = "login" /\ StepAfter("login") = "mark"
<1>1. Len(AzSteps) = 7
  BY DEF AzSteps
<1>3. /\ AzSteps[1] = "healthy" /\ AzSteps[2] = "list" /\ AzSteps[3] = "register"
      /\ AzSteps[4] = "activate" /\ AzSteps[5] = "no-discovery" /\ AzSteps[6] = "login"
      /\ AzSteps[7] = "mark"
  BY DEF AzSteps
<1>4. ASSUME NEW i \in 2..7
      PROVE  \/ (i = 2 /\ AzSteps[i - 1] = "healthy")
             \/ (i = 3 /\ AzSteps[i - 1] = "list")
             \/ (i = 4 /\ AzSteps[i - 1] = "register")
             \/ (i = 5 /\ AzSteps[i - 1] = "activate")
             \/ (i = 6 /\ AzSteps[i - 1] = "no-discovery")
             \/ (i = 7 /\ AzSteps[i - 1] = "login")
  <2>1. CASE i = 2
    <3>1. i - 1 = 1
      BY <2>1
    <3> QED BY <1>3, <2>1, <3>1
  <2>2. CASE i = 3
    <3>1. i - 1 = 2
      BY <2>2
    <3> QED BY <1>3, <2>2, <3>1
  <2>3. CASE i = 4
    <3>1. i - 1 = 3
      BY <2>3
    <3> QED BY <1>3, <2>3, <3>1
  <2>4. CASE i = 5
    <3>1. i - 1 = 4
      BY <2>4
    <3> QED BY <1>3, <2>4, <3>1
  <2>5. CASE i = 6
    <3>1. i - 1 = 5
      BY <2>5
    <3> QED BY <1>3, <2>5, <3>1
  <2>6. CASE i = 7
    <3>1. i - 1 = 6
      BY <2>6
    <3> QED BY <1>3, <2>6, <3>1
  <2>7. i = 2 \/ i = 3 \/ i = 4 \/ i = 5 \/ i = 6 \/ i = 7
    OBVIOUS
  <2> QED BY <2>1, <2>2, <2>3, <2>4, <2>5, <2>6, <2>7
<1> DEFINE Before(i) == AzSteps[i - 1]
<1>5. ASSUME NEW at, NEW j \in 2..7, \A i \in 2..7 : Before(i) = at <=> i = j
      PROVE  StepAfter(at) = AzSteps[j]
  BY <1>1, <1>5 DEF StepAfter
<1>6. \A i \in 2..7 : \/ (i = 2 /\ Before(i) = "healthy")
                      \/ (i = 3 /\ Before(i) = "list")
                      \/ (i = 4 /\ Before(i) = "register")
                      \/ (i = 5 /\ Before(i) = "activate")
                      \/ (i = 6 /\ Before(i) = "no-discovery")
                      \/ (i = 7 /\ Before(i) = "login")
  BY <1>4
<1> HIDE DEF Before
<1>7. StepAfter("healthy") = AzSteps[2]
  <2>1. \A i \in 2..7 : Before(i) = "healthy" <=> i = 2
    BY <1>6
  <2> QED BY <2>1, <1>5
<1>8. StepAfter("list") = AzSteps[3]
  <2>1. \A i \in 2..7 : Before(i) = "list" <=> i = 3
    BY <1>6
  <2> QED BY <2>1, <1>5
<1>9. StepAfter("register") = AzSteps[4]
  <2>1. \A i \in 2..7 : Before(i) = "register" <=> i = 4
    BY <1>6
  <2> QED BY <2>1, <1>5
<1>10. StepAfter("activate") = AzSteps[5]
  <2>1. \A i \in 2..7 : Before(i) = "activate" <=> i = 5
    BY <1>6
  <2> QED BY <2>1, <1>5
<1>11. StepAfter("no-discovery") = AzSteps[6]
  <2>1. \A i \in 2..7 : Before(i) = "no-discovery" <=> i = 6
    BY <1>6
  <2> QED BY <2>1, <1>5
<1>12. StepAfter("login") = AzSteps[7]
  <2>1. \A i \in 2..7 : Before(i) = "login" <=> i = 7
    BY <1>6
  <2> QED BY <2>1, <1>5
<1> QED BY <1>3, <1>7, <1>8, <1>9, <1>10, <1>11, <1>12

LEMMA ProfileInitInv == ProfileInit => ProfileInv
<1> SUFFICES ASSUME ProfileInit PROVE ProfileInv
  OBVIOUS
<1>1. \A p \in ProfileProcs : cpAt[p] = "check" \/ cpAt[p] = "installed"
  BY DEF ProfileInit
<1>2. ProfileTypes
  <2>1. cpAt \in [ProfileProcs -> ProfileStages]
    BY <1>1 DEF ProfileInit, ProfileStages, AwsStages
  <2>2. DOMAIN clouds = AzureDirs /\ clouds["lstk"] = NoCloud
    BY DEF ProfileInit, AzureDirs
  <2>3. NoCloud \in LstkClouds
    BY DEF NoCloud, LstkClouds
  <2> QED BY <2>1, <2>2, <2>3 DEF ProfileInit, ProfileTypes
<1>3. AzureInv
  BY <1>1 DEF ProfileInit, AzureInv, SetupDone, RevertStages, MarkerMeansReady
<1>4. AwsInv
  BY <1>1 DEF ProfileInit, AwsInv, AwsWriteInv
<1> QED BY <1>2, <1>3, <1>4 DEF ProfileInv

-----------------------------------------------------------------------------
\* The commands that write the AWS profile leave Azure alone, and at stages
\* of their own nothing is asked of it.
LEMMA AzureUntouched ==
  ASSUME ProfileInv, NEW p \in ProfileProcs, UNCHANGED <<cpReq, AzureState>>,
         \E at \in AwsStages : CpGo(p, at) \/ UNCHANGED cpAt
  PROVE  AzureInv'
BY DEF ProfileInv, ProfileTypes, AzureInv, AzureState, SetupDone, MarkerMeansReady, CpGo, AwsStages, RevertStages

\* A step of one process keeps AwsWriteInv of the others, whose part of the
\* state it does not touch.
LEMMA OthersKeepWriteInv ==
  ASSUME ProfileInv, NEW p \in ProfileProcs, UNCHANGED cpReq,
         \A q \in ProfileProcs \ {p} :
           /\ cpAt'[q] = cpAt[q] /\ cpEnd'[q] = cpEnd[q] /\ cpSeen'[q] = cpSeen[q]
           /\ cpNeeded'[q] = cpNeeded[q] /\ cpSaidYes'[q] = cpSaidYes[q] /\ cpWrote'[q] = cpWrote[q],
         AwsWriteInv(p)'
  PROVE  AwsInv'
<1> SUFFICES ASSUME NEW q \in ProfileProcs \ {p} PROVE AwsWriteInv(q)'
  BY DEF AwsInv
<1>1. AwsWriteInv(q)
  BY DEF ProfileInv, AwsInv
<1>2. /\ cpAt'[q] = cpAt[q] /\ cpEnd'[q] = cpEnd[q] /\ cpSeen'[q] = cpSeen[q]
      /\ cpNeeded'[q] = cpNeeded[q] /\ cpSaidYes'[q] = cpSaidYes[q] /\ cpWrote'[q] = cpWrote[q]
      /\ cpReq'[q] = cpReq[q]
  OBVIOUS
<1> QED BY <1>1, <1>2, Zenon DEF AwsWriteInv

LEMMA CheckInv ==
  ASSUME ProfileInv, NEW p \in ProfileProcs, CheckProfileSetup(p)
  PROVE  ProfileInv'
<1> DEFINE next == AfterCheck(p, aws)
<1>0. CpAt(p, "check") /\ UNCHANGED <<cpReq, aws, cpSaidYes, cpWrote, AzureState>>
  BY DEF CheckProfileSetup
<1>1. Needed(aws) \subseteq AwsFiles
  BY DEF Needed, AwsFiles
<1>2. next \in {"ask", "noted", "refused", "write-config", "write-credentials"}
  BY DEF AfterCheck, FirstWrite
<1>3. next \in {"write-config", "write-credentials"} => next = FirstWrite(Needed(aws))
  BY DEF AfterCheck, FirstWrite
<1>4. next \in {"write-config", "write-credentials"} /\ ~cpReq[p].force => ~Overwriting(aws)
  BY DEF AfterCheck, FirstWrite
<1>5. CASE CpGo(p, next)
  <2>1. /\ cpSeen' = [cpSeen EXCEPT ![p] = aws] /\ cpNeeded' = [cpNeeded EXCEPT ![p] = Needed(aws)]
        /\ Needed(aws) # {} /\ next \notin {"noted", "refused"}
    BY <1>0, <1>5 DEF CheckProfileSetup, CpGo, CpStop, CpAt, ProfileInv, ProfileTypes
  <2>2. next \in AwsStages
    BY <1>2, <2>1 DEF AwsStages
  <2>3. ProfileTypes'
    BY <1>0, <1>1, <1>5, <2>1, <2>2 DEF ProfileInv, ProfileTypes, CpGo, AzureState, ProfileStages
  <2>4. AzureInv'
    BY <1>0, <1>5, <2>2, AzureUntouched
  <2>5. AwsWriteInv(p)'
    <3>1. cpAt'[p] = next /\ cpSeen'[p] = aws /\ cpNeeded'[p] = Needed(aws) /\ cpWrote'[p] = {}
          /\ cpEnd'[p] = "busy"
      BY <1>0, <1>5, <2>1 DEF ProfileInv, ProfileTypes, AwsInv, AwsWriteInv, CpGo, CpAt
    <3>2. next = "write-config" => "config" \in Needed(aws)
      BY <1>3, <2>1 DEF FirstWrite
    <3>3. next = "write-credentials" => "credentials" \in Needed(aws)
      BY <1>3, <2>1, <1>1 DEF FirstWrite, AwsFiles
    <3>4. next \in {"write-config", "write-credentials"} /\ ~cpReq[p].force =>
            \A f \in Needed(aws) : aws[f] = Absent
      BY <1>4 DEF Overwriting
    <3> HIDE DEF next
    <3> QED BY <1>0, <2>1, <3>1, <3>2, <3>3, <3>4 DEF AwsWriteInv
  <2>6. AwsInv'
    BY <1>0, <1>5, <2>1, <2>5, OthersKeepWriteInv DEF CpGo, ProfileInv, ProfileTypes
  <2> QED BY <2>3, <2>4, <2>6 DEF ProfileInv
<1>6. CASE ~CpGo(p, next)
  <2>1. PICK why : CpStop(p, why)
    BY <1>0, <1>6 DEF CheckProfileSetup
  <2>2. \/ UNCHANGED <<cpSeen, cpNeeded>>
        \/ cpSeen' = [cpSeen EXCEPT ![p] = aws] /\ cpNeeded' = [cpNeeded EXCEPT ![p] = Needed(aws)]
    BY DEF CheckProfileSetup
  <2>3. ProfileTypes'
    BY <1>0, <1>1, <2>1, <2>2 DEF ProfileInv, ProfileTypes, CpStop, AzureState
  <2>4. AzureInv'
    BY <1>0, <2>1, AzureUntouched DEF CpStop, AwsStages
  <2>5. AwsWriteInv(p)'
    BY <1>0, <2>1, <2>2 DEF ProfileInv, ProfileTypes, AwsInv, AwsWriteInv, CpStop, CpAt
  <2>6. AwsInv'
    BY <1>0, <2>1, <2>2, <2>5, OthersKeepWriteInv DEF CpStop, ProfileInv, ProfileTypes
  <2> QED BY <2>3, <2>4, <2>6 DEF ProfileInv
<1> QED BY <1>5, <1>6

LEMMA ConfirmInv ==
  ASSUME ProfileInv, NEW p \in ProfileProcs, ConfirmProfile(p)
  PROVE  ProfileInv'
<1>0. /\ CpAt(p, "ask") /\ cpNeeded[p] # {} /\ cpNeeded[p] \subseteq AwsFiles
      /\ UNCHANGED <<cpReq, aws, cpSeen, cpNeeded, cpWrote, AzureState>>
  BY DEF ConfirmProfile, CpAt, ProfileInv, ProfileTypes, AwsInv, AwsWriteInv
<1>1. CASE cpSaidYes' = [cpSaidYes EXCEPT ![p] = TRUE] /\ CpGo(p, FirstWrite(cpNeeded[p]))
  <2>1. FirstWrite(cpNeeded[p]) \in {"write-config", "write-credentials"}
    BY DEF FirstWrite
  <2>2. ProfileTypes'
    BY <1>0, <1>1, <2>1 DEF ProfileInv, ProfileTypes, CpGo, AzureState, ProfileStages, AwsStages
  <2>3. AzureInv'
    BY <1>0, <1>1, <2>1, AzureUntouched DEF AwsStages
  <2>4. AwsWriteInv(p)'
    <3>1. /\ cpAt'[p] = FirstWrite(cpNeeded[p]) /\ cpSaidYes'[p] /\ cpWrote'[p] = {}
          /\ cpEnd'[p] = "busy"
      BY <1>0, <1>1 DEF ProfileInv, ProfileTypes, AwsInv, AwsWriteInv, CpGo, CpAt
    <3>2. FirstWrite(cpNeeded[p]) = "write-config" => "config" \in cpNeeded[p]
      BY DEF FirstWrite
    <3>3. FirstWrite(cpNeeded[p]) = "write-credentials" => "credentials" \in cpNeeded[p]
      BY <1>0 DEF FirstWrite, AwsFiles
    <3> QED BY <1>0, <2>1, <3>1, <3>2, <3>3 DEF AwsWriteInv
  <2>5. AwsInv'
    BY <1>0, <1>1, <2>4, OthersKeepWriteInv DEF CpGo, ProfileInv, ProfileTypes
  <2> QED BY <2>2, <2>3, <2>5 DEF ProfileInv
<1>2. CASE CpStop(p, "skipped") /\ UNCHANGED cpSaidYes
  <2>1. ProfileTypes'
    BY <1>0, <1>2 DEF ProfileInv, ProfileTypes, CpStop, AzureState
  <2>2. AzureInv'
    BY <1>0, <1>2, AzureUntouched DEF CpStop, AwsStages
  <2>3. AwsWriteInv(p)'
    BY <1>0, <1>2 DEF ProfileInv, ProfileTypes, AwsInv, AwsWriteInv, CpStop, CpAt
  <2>4. AwsInv'
    BY <1>0, <1>2, <2>3, OthersKeepWriteInv DEF CpStop, ProfileInv, ProfileTypes
  <2> QED BY <2>1, <2>2, <2>4 DEF ProfileInv
<1> QED BY <1>1, <1>2 DEF ConfirmProfile

LEMMA UpsertInv ==
  ASSUME ProfileInv, NEW p \in ProfileProcs, NEW f \in AwsFiles, NEW next \in {"", "write-credentials"},
         UpsertSection(p, f, next), f \in cpNeeded[p],
         cpAt[p] \in {"write-config", "write-credentials"}, cpEnd[p] = "busy",
         next # "" => "credentials" \in cpNeeded[p]
  PROVE  ProfileInv'
<1>0. UNCHANGED <<cpReq, cpSeen, cpNeeded, cpSaidYes, AzureState>>
  BY DEF UpsertSection
<1>1. PICK why \in {"warned", "failed", "written"} :
        CpStop(p, why) \/ (next # "" /\ CpGo(p, next))
  BY DEF UpsertSection
<1>2. UNCHANGED cpWrote \/ cpWrote' = [cpWrote EXCEPT ![p] = @ \cup {f}]
  BY DEF UpsertSection
<1>3. ProfileTypes'
  <2>1. cpWrote' \in [ProfileProcs -> SUBSET AwsFiles]
    <3>1. cpWrote \in [ProfileProcs -> SUBSET AwsFiles] /\ cpWrote[p] \cup {f} \in SUBSET AwsFiles
      BY DEF ProfileInv, ProfileTypes
    <3> QED BY <1>2, <3>1
  <2>2. cpAt' \in [ProfileProcs -> ProfileStages] /\ DOMAIN cpEnd' = ProfileProcs
    BY <1>1 DEF ProfileInv, ProfileTypes, CpGo, CpStop, ProfileStages, AwsStages
  <2> QED BY <1>0, <2>1, <2>2 DEF ProfileInv, ProfileTypes, AzureState
<1>4. AzureInv'
  BY <1>0, <1>1, AzureUntouched DEF CpStop, AwsStages
<1>5. AwsWriteInv(p)'
  <2>1. cpAt'[p] = cpAt[p] \/ (cpAt'[p] = "write-credentials" /\ "credentials" \in cpNeeded[p])
    BY <1>1 DEF ProfileInv, ProfileTypes, CpStop, CpGo
  <2>2. cpEnd'[p] \notin {"refused", "noted", "skipped"}
    BY <1>1 DEF ProfileInv, ProfileTypes, CpStop, CpGo
  <2>3. cpWrote'[p] \subseteq cpWrote[p] \cup {f}
    BY <1>2 DEF ProfileInv, ProfileTypes
  <2> QED BY <1>0, <2>1, <2>2, <2>3 DEF ProfileInv, AwsInv, AwsWriteInv
<1>6. AwsInv'
  BY <1>0, <1>1, <1>2, <1>5, OthersKeepWriteInv DEF CpStop, CpGo, ProfileInv, ProfileTypes
<1> QED BY <1>3, <1>4, <1>6 DEF ProfileInv

-----------------------------------------------------------------------------
\* A step of the setup, of the interception or of its end: the AWS files and
\* what commands know of them stay, and lstk's own configuration only grows.
Grows ==
  /\ clouds["lstk"].registered => clouds'["lstk"].registered
  /\ clouds["lstk"].active = "LocalStack" => clouds'["lstk"].active = "LocalStack"
  /\ ~clouds["lstk"].discovery => ~clouds'["lstk"].discovery
  /\ clouds["lstk"].loggedIn => clouds'["lstk"].loggedIn

LEMMA AzureStepInv ==
  ASSUME ProfileInv, NEW p \in ProfileProcs, UNCHANGED <<cpReq, AwsState>>,
         cpAt[p] \notin AwsStages,
         NEW next \in ProfileStages \ AwsStages, NEW why \in {"no-az", "failed", "ready", "nothing-to-revert",
                                                       "unknown-cloud", "stopped", "killed"},
         CpGo(p, next) \/ CpStop(p, why),
         DOMAIN clouds' = AzureDirs, clouds'["lstk"] \in LstkClouds, marker' \in BOOLEAN, Grows,
         cpReq[p].cmd = "setup-azure" => SetupDone(clouds'["lstk"], next) /\ next \notin RevertStages,
         marker' /\ ~marker => MarkerMeansReady'
  PROVE  ProfileInv'
<1>1. ProfileTypes'
  BY DEF ProfileInv, ProfileTypes, CpGo, CpStop, AwsState
<1>2. AzureInv'
  <2>1. MarkerMeansReady'
    BY DEF ProfileInv, AzureInv, MarkerMeansReady, Grows, ProfileTypes
  <2>2. ASSUME NEW q \in ProfileProcs, cpReq[q].cmd = "setup-azure"
        PROVE  SetupDone(clouds'["lstk"], cpAt'[q]) /\ cpAt'[q] \notin RevertStages
    <3>1. SetupDone(clouds'["lstk"], cpAt[q]) /\ cpAt[q] \notin RevertStages
      BY <2>2 DEF ProfileInv, AzureInv, SetupDone, Grows
    <3>2. cpAt'[q] = cpAt[q] \/ (q = p /\ cpAt'[q] = next)
      BY DEF ProfileInv, ProfileTypes, CpGo, CpStop
    <3> QED BY <2>2, <3>1, <3>2
  <2> QED BY <2>1, <2>2 DEF AzureInv, SetupDone
<1>3. AwsWriteInv(p)'
  <2>1. cpAt'[p] \notin AwsStages /\ (cpEnd'[p] = cpEnd[p] \/ cpEnd'[p] = why)
    BY DEF ProfileInv, ProfileTypes, CpGo, CpStop
  <2> QED BY <2>1 DEF ProfileInv, AwsInv, AwsWriteInv, AwsState, AwsStages
<1>4. AwsInv'
  BY <1>3, OthersKeepWriteInv DEF AwsState, CpGo, CpStop, ProfileInv, ProfileTypes
<1> QED BY <1>1, <1>2, <1>4 DEF ProfileInv

LEMMA AzureReadsInv ==
  ASSUME ProfileInv, NEW p \in ProfileProcs, AzInstalled(p) \/ AzCheck(p) \/ CheckActiveCloud(p)
  PROVE  ProfileInv'
<1>0. UNCHANGED <<cpReq, AwsState, AzureState>>
  BY DEF AzInstalled, AzCheck, CheckActiveCloud
<1>1. UNCHANGED <<clouds, marker>> /\ Grows
  BY <1>0 DEF AzureState, Grows
<1>2. DOMAIN clouds' = AzureDirs /\ clouds'["lstk"] \in LstkClouds /\ marker' \in BOOLEAN
  BY <1>1 DEF ProfileInv, ProfileTypes
<1>3. CASE AzInstalled(p)
  <2>1. cpAt[p] \notin AwsStages
    BY <1>3 DEF AzInstalled, CpAt, AwsStages
  <2>2. CASE CpStop(p, "no-az")
    BY <1>0, <1>1, <1>2, <2>1, <2>2, AzureStepInv
       DEF SetupDone, RevertStages, ProfileStages, SetupStages, AwsStages
  <2> DEFINE next == IF cpReq[p].cmd = "stop" THEN "active" ELSE "healthy"
  <2>3. CASE CpGo(p, next)
    <3>1. next \in ProfileStages \ AwsStages
      BY DEF ProfileStages, SetupStages, AwsStages, RevertStages
    <3>2. cpReq[p].cmd = "setup-azure" => SetupDone(clouds'["lstk"], next) /\ next \notin RevertStages
      BY DEF SetupDone, RevertStages
    <3> HIDE DEF next
    <3> QED BY <1>0, <1>1, <1>2, <2>1, <2>3, <3>1, <3>2, AzureStepInv
  <2> QED BY <1>3, <2>2, <2>3 DEF AzInstalled
<1>4. CASE AzCheck(p)
  <2>1. cpAt[p] \notin AwsStages /\ StepAfter(cpAt[p]) \in {"list", "register"}
    BY <1>4, StepAfterIs DEF AzCheck, CpAt, AwsStages
  <2>2. StepAfter(cpAt[p]) \in ProfileStages \ AwsStages /\ StepAfter(cpAt[p]) \notin RevertStages
    BY <2>1 DEF ProfileStages, SetupStages, AwsStages, RevertStages
  <2>3. SetupDone(clouds'["lstk"], StepAfter(cpAt[p]))
    <3>1. cpAt[p] = "healthy" \/ cpAt[p] = "list"
      BY <1>4 DEF AzCheck, CpAt
    <3>2. \A at \in {"list", "register"} : SetupDone(clouds'["lstk"], at)
      BY DEF SetupDone
    <3> QED BY <2>1, <3>2
  <2> QED BY <1>0, <1>1, <1>2, <1>4, <2>1, <2>2, <2>3, AzureStepInv DEF AzCheck
<1>5. CASE CheckActiveCloud(p)
  <2>1. cpAt[p] \notin AwsStages /\ cpReq[p].cmd # "setup-azure"
    BY <1>5 DEF CheckActiveCloud, CpAt, AwsStages, RevertStages, ProfileInv, AzureInv
  <2>2. "revert" \in ProfileStages \ AwsStages
    BY DEF ProfileStages, RevertStages, AwsStages
  <2>3. PICK why \in {"failed", "nothing-to-revert", "unknown-cloud"} :
          CpGo(p, "revert") \/ CpStop(p, why)
    BY <1>5 DEF CheckActiveCloud
  <2> QED BY <1>0, <1>1, <1>2, <2>1, <2>2, <2>3, AzureStepInv
<1> QED BY <1>3, <1>4, <1>5

\* The steps that write: what each leaves in lstk's own configuration.
LEMMA RevertInv ==
  ASSUME ProfileInv, NEW p \in ProfileProcs, RevertCloud(p) \/ RestoreDiscovery(p)
  PROVE  ProfileInv'
<1>1. /\ cpAt[p] \in {"revert", "restore-discovery"}
      /\ UNCHANGED <<cpReq, AwsState, marker>>
  BY DEF RevertCloud, RestoreDiscovery, CpAt
<1>2. cpReq[p].cmd # "setup-azure" /\ cpAt[p] \notin AwsStages
  BY <1>1 DEF ProfileInv, AzureInv, RevertStages, AwsStages
<1>3. DOMAIN clouds' = AzureDirs /\ clouds'["lstk"] = clouds["lstk"]
  BY <1>2 DEF RevertCloud, RestoreDiscovery, Cloud, DirOf, ProfileInv, ProfileTypes, AzureDirs
<1>4. clouds'["lstk"] \in LstkClouds /\ marker' \in BOOLEAN /\ Grows
  BY <1>1, <1>3 DEF ProfileInv, ProfileTypes, Grows
<1>5. PICK why \in {"failed", "stopped"} : CpGo(p, "restore-discovery") \/ CpStop(p, why)
  BY DEF RevertCloud, RestoreDiscovery
<1>6. "restore-discovery" \in ProfileStages \ AwsStages
  BY DEF ProfileStages, RevertStages, AwsStages
<1> QED BY <1>1, <1>2, <1>3, <1>4, <1>5, <1>6, AzureStepInv

LEMMA AzStepInv ==
  ASSUME ProfileInv, NEW p \in ProfileProcs, NEW at \in SetupStages \ {"healthy", "list"}, NEW after,
         AzStep(p, at, after),
         DirOf(p) = "lstk" =>
           /\ after \in LstkClouds
           /\ clouds' = [clouds EXCEPT !["lstk"] = after] =>
                Grows /\ (at # "mark" => SetupDone(clouds'["lstk"], StepAfter(at)))
  PROVE  ProfileInv'
<1>1. cpAt[p] = at /\ UNCHANGED <<cpReq, AwsState>> /\ at \notin AwsStages
  BY DEF AzStep, CpAt, SetupStages, AwsStages
<1>2. CASE CpStop(p, "failed") /\ UNCHANGED AzureState
  <2>1. UNCHANGED <<clouds, marker>> /\ Grows
    BY <1>2 DEF AzureState, Grows
  <2>2. SetupDone(clouds'["lstk"], "list") /\ "list" \in ProfileStages \ AwsStages /\ "list" \notin RevertStages
    BY DEF SetupDone, ProfileStages, SetupStages, AwsStages, RevertStages
  <2> QED BY <1>1, <1>2, <2>1, <2>2, AzureStepInv DEF ProfileInv, ProfileTypes
<1>3. CASE ~(CpStop(p, "failed") /\ UNCHANGED AzureState)
  <2>1. /\ Cloud(p, after) /\ marker' = (marker \/ (DirOf(p) = "lstk" /\ MarksAt(at)))
        /\ IF at = "mark" \/ (at = "login" /\ DirOf(p) = "global")
           THEN CpStop(p, "ready") ELSE CpGo(p, StepAfter(at))
    BY <1>3 DEF AzStep
  <2>2. DOMAIN clouds' = AzureDirs /\ clouds'["lstk"] \in LstkClouds /\ marker' \in BOOLEAN
    BY <2>1 DEF ProfileInv, ProfileTypes, Cloud, DirOf, AzureDirs
  <2>3. Grows
    BY <2>1 DEF ProfileInv, ProfileTypes, Cloud, DirOf, Grows, AzureDirs
  <2>4. marker' /\ ~marker => MarkerMeansReady'
    <3> SUFFICES ASSUME marker', ~marker PROVE MarkerMeansReady'
      OBVIOUS
    <3>1. at = "mark" /\ cpReq[p].cmd = "setup-azure"
      BY <2>1 DEF MarksAt, DirOf
    <3>2. SetupDone(clouds["lstk"], "mark")
      BY <1>1, <3>1 DEF ProfileInv, AzureInv
    <3> QED BY <2>3, <3>2 DEF SetupDone, Grows, MarkerMeansReady
  <2>5. CASE at = "mark" \/ (at = "login" /\ DirOf(p) = "global")
    <3>1. SetupDone(clouds'["lstk"], "list") /\ "list" \in ProfileStages \ AwsStages /\ "list" \notin RevertStages
      BY DEF SetupDone, ProfileStages, SetupStages, AwsStages, RevertStages
    <3> QED BY <1>1, <2>1, <2>2, <2>3, <2>4, <2>5, <3>1, AzureStepInv
  <2>6. CASE ~(at = "mark" \/ (at = "login" /\ DirOf(p) = "global"))
    <3>1. StepAfter(at) \in {"activate", "no-discovery", "login", "mark"}
      BY <2>6, StepAfterIs DEF SetupStages
    <3>2. StepAfter(at) \in ProfileStages \ AwsStages /\ StepAfter(at) \notin RevertStages
      BY <3>1 DEF ProfileStages, SetupStages, AwsStages, RevertStages
    <3>3. cpReq[p].cmd = "setup-azure" => SetupDone(clouds'["lstk"], StepAfter(at))
      BY <2>1, <2>6 DEF DirOf, Cloud
    <3>4. CpGo(p, StepAfter(at))
      BY <2>1, <2>6
    <3> QED BY <1>1, <2>2, <2>3, <2>4, <3>2, <3>3, <3>4, AzureStepInv
  <2> QED BY <2>5, <2>6
<1> QED BY <1>2, <1>3

\* Each step of the setup leaves lstk's configuration as the next expects it.
LEMMA SetupStepsInv ==
  ASSUME ProfileInv, NEW p \in ProfileProcs,
         \/ RegisterCloud(p) \/ ActivateCloud(p) \/ DisableDiscovery(p) \/ LoginDummy(p) \/ WriteMarker(p)
  PROVE  ProfileInv'
<1> DEFINE c == clouds["lstk"]
<1>0. c \in LstkClouds /\ DOMAIN clouds = AzureDirs /\ "lstk" \in AzureDirs
  BY DEF ProfileInv, ProfileTypes, AzureDirs
<1>1. DirOf(p) = "lstk" => cpReq[p].cmd = "setup-azure"
  BY DEF DirOf
<1>2. CASE RegisterCloud(p)
  <2>1. DirOf(p) = "lstk" =>
          /\ [clouds[DirOf(p)] EXCEPT !.registered = TRUE] \in LstkClouds
          /\ clouds' = [clouds EXCEPT !["lstk"] = [clouds[DirOf(p)] EXCEPT !.registered = TRUE]] =>
               Grows /\ SetupDone(clouds'["lstk"], StepAfter("register"))
    BY <1>0, StepAfterIs DEF LstkClouds, Grows, SetupDone
  <2> QED BY <1>2, <2>1, AzStepInv DEF RegisterCloud, SetupStages
<1>3. CASE ActivateCloud(p)
  <2>1. DirOf(p) = "lstk" => c.registered
    BY <1>1, <1>3 DEF ActivateCloud, AzStep, CpAt, ProfileInv, AzureInv, SetupDone
  <2>2. DirOf(p) = "lstk" =>
          /\ [clouds[DirOf(p)] EXCEPT !.active = "LocalStack"] \in LstkClouds
          /\ clouds' = [clouds EXCEPT !["lstk"] = [clouds[DirOf(p)] EXCEPT !.active = "LocalStack"]] =>
               Grows /\ SetupDone(clouds'["lstk"], StepAfter("activate"))
    BY <1>0, <2>1, StepAfterIs DEF LstkClouds, Grows, SetupDone
  <2> QED BY <1>3, <2>2, AzStepInv DEF ActivateCloud, SetupStages
<1>4. CASE DisableDiscovery(p)
  <2> DEFINE after == [clouds[DirOf(p)] EXCEPT !.discovery = FALSE, !.telemetry = @ /\ DirOf(p) = "global"]
  <2>1. DirOf(p) = "lstk" => c.registered /\ c.active = "LocalStack"
    BY <1>1, <1>4 DEF DisableDiscovery, AzStep, CpAt, ProfileInv, AzureInv, SetupDone
  <2>2. DirOf(p) = "lstk" =>
          /\ after \in LstkClouds
          /\ clouds' = [clouds EXCEPT !["lstk"] = after] => Grows /\ SetupDone(clouds'["lstk"], StepAfter("no-discovery"))
    <3> SUFFICES ASSUME DirOf(p) = "lstk"
                 PROVE  /\ after \in LstkClouds
                        /\ clouds' = [clouds EXCEPT !["lstk"] = after] =>
                             Grows /\ SetupDone(clouds'["lstk"], StepAfter("no-discovery"))
      OBVIOUS
    <3>1. c.telemetry /\ DirOf(p) = "global" <=> FALSE
      OBVIOUS
    <3>2. after = [c EXCEPT !.discovery = FALSE, !.telemetry = FALSE]
      BY <3>1, Zenon
    <3>3. after \in LstkClouds
      BY <1>0, <3>2 DEF LstkClouds
    <3>4. after.registered /\ after.active = "LocalStack" /\ ~after.discovery /\ after.loggedIn = c.loggedIn
      BY <1>0, <2>1, <3>2 DEF LstkClouds
    <3> HIDE DEF after, c
    <3> QED BY <1>0, <3>3, <3>4, StepAfterIs DEF Grows, SetupDone, c
  <2> QED BY <1>4, <2>2, AzStepInv DEF DisableDiscovery, SetupStages
<1>5. CASE LoginDummy(p)
  <2>1. DirOf(p) = "lstk" => c.registered /\ c.active = "LocalStack" /\ ~c.discovery
    BY <1>1, <1>5 DEF LoginDummy, AzStep, CpAt, ProfileInv, AzureInv, SetupDone
  <2>2. DirOf(p) = "lstk" =>
          /\ [clouds[DirOf(p)] EXCEPT !.loggedIn = TRUE] \in LstkClouds
          /\ clouds' = [clouds EXCEPT !["lstk"] = [clouds[DirOf(p)] EXCEPT !.loggedIn = TRUE]] =>
               Grows /\ SetupDone(clouds'["lstk"], StepAfter("login"))
    BY <1>0, <2>1, StepAfterIs DEF LstkClouds, Grows, SetupDone
  <2> QED BY <1>5, <2>2, AzStepInv DEF LoginDummy, SetupStages
<1>6. CASE WriteMarker(p)
  <2>1. DirOf(p) = "lstk" =>
          /\ clouds[DirOf(p)] \in LstkClouds
          /\ clouds' = [clouds EXCEPT !["lstk"] = clouds[DirOf(p)]] => Grows
    BY <1>0 DEF Grows
  <2> QED BY <1>6, <2>1, AzStepInv DEF WriteMarker, SetupStages
<1> QED BY <1>2, <1>3, <1>4, <1>5, <1>6

-----------------------------------------------------------------------------
LEMMA ProfileStepInv ==
  ASSUME ProfileInv, NEW p \in ProfileProcs, ProfileStep(p)
  PROVE  ProfileInv'
<1>1. CASE WriteConfigProfile(p)
  <2>1. /\ cpAt[p] = "write-config" /\ cpEnd[p] = "busy" /\ "config" \in cpNeeded[p]
        /\ "config" \in AwsFiles
    BY <1>1 DEF WriteConfigProfile, CpAt, ProfileInv, AwsInv, AwsWriteInv, AwsFiles
  <2> QED BY <1>1, <2>1, UpsertInv DEF WriteConfigProfile
<1>2. CASE WriteCredsProfile(p)
  <2>1. /\ cpAt[p] = "write-credentials" /\ cpEnd[p] = "busy" /\ "credentials" \in cpNeeded[p]
        /\ "credentials" \in AwsFiles
    BY <1>2 DEF WriteCredsProfile, CpAt, ProfileInv, AwsInv, AwsWriteInv, AwsFiles
  <2> QED BY <1>2, <2>1, UpsertInv DEF WriteCredsProfile
<1> QED BY <1>1, <1>2, CheckInv, ConfirmInv, AzureReadsInv, RevertInv, SetupStepsInv DEF ProfileStep

LEMMA ProfileNextInv == ProfileInv /\ [ProfileNext]_cpVars => ProfileInv'
<1> SUFFICES ASSUME ProfileInv, [ProfileNext]_cpVars PROVE ProfileInv'
  OBVIOUS
<1>1. ASSUME NEW p \in ProfileProcs, ProfileStep(p) PROVE ProfileInv'
  BY <1>1, ProfileStepInv
<1>2. ASSUME NEW p \in ProfileProcs, ProfileKilled(p) PROVE ProfileInv'
  <2>0. /\ UNCHANGED <<cpReq, AwsState, AzureState, cpAt>>
        /\ cpEnd' = [cpEnd EXCEPT ![p] = "killed"]
    BY <1>2 DEF ProfileKilled, CpStop
  <2>1. ProfileTypes' /\ AzureInv'
    BY <2>0 DEF ProfileInv, ProfileTypes, AzureInv, SetupDone, MarkerMeansReady, AwsState, AzureState
  <2>2. AwsInv'
    BY <2>0 DEF ProfileInv, ProfileTypes, AwsInv, AwsWriteInv, AwsState
  <2> QED BY <2>1, <2>2 DEF ProfileInv
<1>3. ASSUME NEW f \in AwsFiles, NEW s \in UserSections, UserEditsProfile(f, s) PROVE ProfileInv'
  BY <1>3 DEF UserEditsProfile, ProfileInv, ProfileTypes, AzureInv, SetupDone, MarkerMeansReady, AzureState,
              AwsInv, AwsWriteInv
<1>4. CASE UserPicksCloud
  <2>1. clouds'["lstk"] = clouds["lstk"] /\ DOMAIN clouds' = AzureDirs
    BY <1>4 DEF UserPicksCloud, ProfileInv, ProfileTypes, AzureDirs
  <2>2. ProfileTypes' /\ AzureInv'
    BY <1>4, <2>1 DEF UserPicksCloud, ProfileInv, ProfileTypes, AzureInv, SetupDone, MarkerMeansReady, AwsState
  <2>3. AwsInv'
    BY <1>4 DEF UserPicksCloud, ProfileInv, AwsInv, AwsWriteInv, AwsState
  <2> QED BY <2>2, <2>3 DEF ProfileInv
<1>5. CASE UNCHANGED cpVars
  BY <1>5 DEF cpVars, ProfileInv, ProfileTypes, AzureInv, SetupDone, MarkerMeansReady, AwsInv, AwsWriteInv
<1> QED BY <1>1, <1>2, <1>3, <1>4, <1>5 DEF ProfileNext

\* The inductive invariant of the profile commands. (awsconfig.go, azureconfig.go)
THEOREM ProfileInvHolds == ProfileSpec => []ProfileInv
<1> QED BY ProfileInitInv, ProfileNextInv, PTL DEF ProfileSpec

\* The marker of lstk's own Azure configuration stands for the whole setup,
\* however many setups fail, are killed or run at once. (azureconfig.go, Setup)
THEOREM MarkersMeanReady == ProfileSpec => []MarkerMeansReady
<1>1. ProfileInv => MarkerMeansReady
  BY DEF ProfileInv, AzureInv
<1> QED BY <1>1, ProfileInvHolds, PTL

\* Without a confirmation or --force only sections that were missing are
\* written, whatever the user and other commands do to the files meanwhile.
\* (awsconfig.go, Setup and EnsureProfile)
THEOREM ProfilesNotTakenOver == ProfileSpec => []ProfileNotTakenOver
<1>1. ProfileInv => ProfileNotTakenOver
  BY DEF ProfileInv, AwsInv, AwsWriteInv, ProfileNotTakenOver
<1> QED BY <1>1, ProfileInvHolds, PTL
-----------------------------------------------------------------------------
\* The user's own Azure CLI. Between the two steps of a stop-interception it
\* is on the cloud the user named, on one picked meanwhile, or on LocalStack
\* because somebody activated it again, which the history records.
GlobalClouds ==
  [registered : BOOLEAN, active : CloudNames, discovery : BOOLEAN, loggedIn : BOOLEAN, telemetry : BOOLEAN]
GlobalTypes == clouds \in [AzureDirs -> GlobalClouds] /\ cpReq \in [ProfileProcs -> ProfileRequests]
RevertedInv ==
  \A p \in ProfileProcs : CpAt(p, "restore-discovery") =>
    \/ cpReq[p].cloud = "LocalStack" \/ p \in cpOverrun \/ Global.active # "LocalStack"
\* It is only taken off LocalStack to a cloud that is known.
KnownInv == \A p \in ProfileProcs : cpAt[p] = "revert" => TargetKnown(p)
GlobalInv == GlobalTypes /\ RevertedInv /\ KnownInv

\* What the writing steps make of the user's configuration has its fields.
LEMMA CloudFields ==
  ASSUME NEW c \in GlobalClouds
  PROVE  /\ [c EXCEPT !.registered = TRUE] \in GlobalClouds
         /\ [c EXCEPT !.active = "LocalStack"] \in GlobalClouds
         /\ [c EXCEPT !.active = "Mine"] \in GlobalClouds
         /\ [c EXCEPT !.active = "Mine"].active = "Mine"
         /\ [c EXCEPT !.loggedIn = TRUE] \in GlobalClouds
         /\ [c EXCEPT !.discovery = TRUE] \in GlobalClouds
         /\ [c EXCEPT !.discovery = TRUE].discovery
         /\ [c EXCEPT !.discovery = TRUE].active = c.active
BY DEF GlobalClouds, CloudNames

LEMMA TargetField ==
  ASSUME NEW c \in GlobalClouds, NEW r \in ProfileRequests, r.cloud # "Unknown"
  PROVE  /\ [c EXCEPT !.active = r.cloud] \in GlobalClouds
         /\ [c EXCEPT !.active = r.cloud].active = r.cloud
BY DEF GlobalClouds, CloudNames

LEMMA TelemetryField ==
  ASSUME NEW c \in GlobalClouds, NEW global \in BOOLEAN
  PROVE  [c EXCEPT !.discovery = FALSE, !.telemetry = @ /\ global] \in GlobalClouds
<1>1. PICK t \in BOOLEAN : t = (c.telemetry /\ global)
  BY DEF GlobalClouds
<1>2. [c EXCEPT !.discovery = FALSE, !.telemetry = t] \in GlobalClouds
  BY DEF GlobalClouds
<1> QED BY <1>1, <1>2, Zenon

\* A step that writes an Azure configuration keeps the invariant of the
\* stop-interceptions underway, whoever takes it and whatever it writes.
LEMMA CloudKeeps ==
  ASSUME ProfileInv, GlobalInv, NEW p \in ProfileProcs, NEW c, Cloud(p, c), UNCHANGED cpReq,
         c \in GlobalClouds, KnownInv',
         \A q \in ProfileProcs : CpAt(q, "restore-discovery")' =>
           \/ CpAt(q, "restore-discovery")
           \/ q = p /\ DirOf(p) = "global" /\ c.active = cpReq[p].cloud
  PROVE  GlobalInv'
<1>1. clouds'["global"] = IF DirOf(p) = "global" THEN c ELSE clouds["global"]
  BY DEF Cloud, DirOf, ProfileInv, ProfileTypes, AzureDirs
<1>2. GlobalTypes'
  BY DEF GlobalInv, GlobalTypes, Cloud
<1>3. ASSUME NEW q \in ProfileProcs, CpAt(q, "restore-discovery")', clouds'["global"].active = "LocalStack",
             cpReq[q].cloud # "LocalStack"
      PROVE  q \in cpOverrun'
  <2>1. CpAt(q, "restore-discovery")
    BY <1>1, <1>3
  <2>2. cpOverrun \subseteq cpOverrun'
    BY DEF Cloud
  <2>3. CASE Global.active = "LocalStack"
    BY <1>3, <2>1, <2>2, <2>3 DEF GlobalInv, RevertedInv
  <2>4. CASE Global.active # "LocalStack"
    <3>1. DirOf(p) = "global" /\ Reactivates(c)
      BY <1>1, <1>3, <2>4 DEF Reactivates, Global
    <3> QED BY <2>1, <3>1 DEF Cloud
  <2> QED BY <2>3, <2>4
<1> QED BY <1>2, <1>3 DEF GlobalInv, RevertedInv, Global

\* What a step does to the stages when it does not begin the revert's second
\* half: the other commands stay where they are.
NoneReverts == \A q \in ProfileProcs : CpAt(q, "restore-discovery")' => CpAt(q, "restore-discovery")
StageMoves(p) ==
  /\ UNCHANGED cpReq
  /\ \A q \in ProfileProcs \ {p} : cpAt'[q] = cpAt[q] /\ cpEnd'[q] = cpEnd[q]
  /\ cpAt'[p] # cpAt[p] => cpAt'[p] # "restore-discovery" /\ cpEnd'[p] = cpEnd[p]
  /\ cpEnd'[p] # cpEnd[p] => cpEnd'[p] \notin {"busy", "stopped"}
  /\ cpAt'[p] = "revert" => cpAt[p] = "revert" \/ TargetKnown(p)

LEMMA GlobalUntouched ==
  ASSUME GlobalInv, UNCHANGED <<cpReq, clouds, cpOverrun>>, NoneReverts, KnownInv'
  PROVE  GlobalInv'
BY DEF GlobalInv, GlobalTypes, RevertedInv, Global, NoneReverts

LEMMA GoMoves ==
  ASSUME ProfileInv, NEW p \in ProfileProcs, NEW at, CpGo(p, at), at # "restore-discovery", UNCHANGED cpReq,
         at = "revert" => TargetKnown(p)
  PROVE  StageMoves(p)
BY DEF CpGo, StageMoves, ProfileInv, ProfileTypes

LEMMA StopMoves ==
  ASSUME ProfileInv, NEW p \in ProfileProcs, NEW why, CpStop(p, why), why \notin {"busy", "stopped"},
         UNCHANGED cpReq
  PROVE  StageMoves(p)
BY DEF CpStop, StageMoves, ProfileInv, ProfileTypes

LEMMA MovesRevertNone ==
  ASSUME NEW p \in ProfileProcs, StageMoves(p) PROVE NoneReverts
BY DEF StageMoves, NoneReverts, CpAt

LEMMA MovesKnown ==
  ASSUME GlobalInv, NEW p \in ProfileProcs, StageMoves(p) PROVE KnownInv'
BY DEF GlobalInv, KnownInv, StageMoves, TargetKnown

LEMMA StepMoves ==
  ASSUME ProfileInv, NEW p \in ProfileProcs, ProfileStep(p), ~RevertCloud(p), ~RestoreDiscovery(p)
  PROVE  StageMoves(p)
<1>1. CASE CheckProfileSetup(p)
  <2>1. AfterCheck(p, aws) \in {"ask", "noted", "refused", "write-config", "write-credentials"}
    BY DEF AfterCheck, FirstWrite
  <2>2. PICK next \in {"ask", "noted", "refused", "write-config", "write-credentials"} : next = AfterCheck(p, aws)
    BY <2>1
  <2>3. UNCHANGED cpReq /\ (CpGo(p, next) \/ \E why \in {"warned", "failed", "configured", "noted", "refused"} : CpStop(p, why))
    BY <1>1, <2>2 DEF CheckProfileSetup
  <2> QED BY <2>3, GoMoves, StopMoves
<1>2. CASE ConfirmProfile(p)
  <2>1. FirstWrite(cpNeeded[p]) \notin {"restore-discovery", "revert"}
    BY DEF FirstWrite
  <2> QED BY <1>2, <2>1, GoMoves, StopMoves DEF ConfirmProfile
<1>3. CASE WriteConfigProfile(p) \/ WriteCredsProfile(p)
  <2>1. ASSUME NEW f, NEW next \in {"", "write-credentials"}, UpsertSection(p, f, next) PROVE StageMoves(p)
    <3>1. UNCHANGED cpReq /\ (CpGo(p, next) \/ \E why \in {"warned", "failed", "written"} : CpStop(p, why))
      BY <2>1 DEF UpsertSection
    <3> QED BY <3>1, GoMoves, StopMoves
  <2> QED BY <1>3, <2>1 DEF WriteConfigProfile, WriteCredsProfile
<1>4. CASE AzInstalled(p)
  BY <1>4, GoMoves, StopMoves DEF AzInstalled
<1>5. CASE AzCheck(p)
  <2>1. StepAfter(cpAt[p]) \notin {"restore-discovery", "revert"}
    BY <1>5, StepAfterIs DEF AzCheck, CpAt
  <2> QED BY <1>5, <2>1, GoMoves, StopMoves DEF AzCheck
<1>6. CASE CheckActiveCloud(p)
  BY <1>6, GoMoves, StopMoves DEF CheckActiveCloud
<1>7. ASSUME NEW at \in {"register", "activate", "no-discovery", "login", "mark"}, NEW after, AzStep(p, at, after)
      PROVE  StageMoves(p)
  <2>1. UNCHANGED cpReq
    BY <1>7 DEF AzStep
  <2>2. at # "mark" => StepAfter(at) \notin {"restore-discovery", "revert"}
    BY StepAfterIs
  <2>3. (\E why \in {"ready", "failed"} : CpStop(p, why)) \/ (at # "mark" /\ CpGo(p, StepAfter(at)))
    BY <1>7 DEF AzStep
  <2> QED BY <2>1, <2>2, <2>3, GoMoves, StopMoves
<1> QED BY <1>1, <1>2, <1>3, <1>4, <1>5, <1>6, <1>7
        DEF ProfileStep, RegisterCloud, ActivateCloud, DisableDiscovery, LoginDummy, WriteMarker

LEMMA GlobalInitInv == ProfileInit => GlobalInv
<1> SUFFICES ASSUME ProfileInit PROVE GlobalInv
  OBVIOUS
<1>1. NoCloud \in GlobalClouds /\ Intercepted \in GlobalClouds
  BY DEF NoCloud, Intercepted, GlobalClouds, CloudNames
<1>2. clouds \in [AzureDirs -> GlobalClouds]
  BY <1>1 DEF ProfileInit
<1>3. \A p \in ProfileProcs : cpAt[p] \notin {"revert", "restore-discovery"}
  BY DEF ProfileInit
<1> QED BY <1>2, <1>3 DEF ProfileInit, GlobalInv, GlobalTypes, RevertedInv, KnownInv, CpAt

LEMMA GlobalStepInv ==
  ASSUME ProfileInv, GlobalInv, NEW p \in ProfileProcs, ProfileStep(p)
  PROVE  GlobalInv'
<1>0. clouds["global"] \in GlobalClouds /\ clouds[DirOf(p)] \in GlobalClouds /\ cpReq[p] \in ProfileRequests
  BY DEF GlobalInv, GlobalTypes, DirOf, AzureDirs
<1>1. CASE RevertCloud(p)
  <2>1. cpReq[p].cmd # "setup-azure" /\ CpAt(p, "revert") /\ UNCHANGED cpReq
    BY <1>1 DEF RevertCloud, CpAt, ProfileInv, AzureInv, RevertStages
  <2>2. CASE CpStop(p, "failed") /\ UNCHANGED <<clouds, cpOverrun>>
    BY <2>1, <2>2, StopMoves, MovesRevertNone, MovesKnown, GlobalUntouched
  <2>3. CASE Cloud(p, [Global EXCEPT !.active = cpReq[p].cloud]) /\ CpGo(p, "restore-discovery")
    <3>1. \A q \in ProfileProcs : CpAt(q, "restore-discovery")' => CpAt(q, "restore-discovery") \/ q = p
      BY <2>3 DEF CpAt, CpGo, ProfileInv, ProfileTypes
    <3>2. /\ [Global EXCEPT !.active = cpReq[p].cloud] \in GlobalClouds
          /\ [Global EXCEPT !.active = cpReq[p].cloud].active = cpReq[p].cloud
      BY <1>0, <2>1, TargetField DEF Global, GlobalInv, KnownInv, TargetKnown, CpAt
    <3>3. DirOf(p) = "global"
      BY <2>1 DEF DirOf
    <3>4. KnownInv'
      BY <2>1, <2>3 DEF CpGo, ProfileInv, ProfileTypes, GlobalInv, KnownInv, TargetKnown
    <3> QED BY <2>1, <2>3, <3>1, <3>2, <3>3, <3>4, CloudKeeps
  <2> QED BY <1>1, <2>2, <2>3 DEF RevertCloud
<1>2. CASE RestoreDiscovery(p)
  <2>1. UNCHANGED cpReq
    BY <1>2 DEF RestoreDiscovery
  <2>2. CASE CpStop(p, "failed") /\ UNCHANGED <<clouds, cpOverrun>>
    BY <2>1, <2>2, StopMoves, MovesRevertNone, MovesKnown, GlobalUntouched
  <2>3. CASE Cloud(p, DiscoveryRestored(Global)) /\ CpStop(p, "stopped")
    <3>1. \A q \in ProfileProcs : CpAt(q, "restore-discovery")' => CpAt(q, "restore-discovery")
      BY <2>3 DEF CpAt, CpStop, ProfileInv, ProfileTypes
    <3>2. DiscoveryRestored(Global) \in GlobalClouds
      BY <1>0, CloudFields DEF Global, DiscoveryRestored
    <3>3. KnownInv'
      BY <2>1, <2>3 DEF CpStop, GlobalInv, KnownInv, TargetKnown
    <3> QED BY <2>1, <2>3, <3>1, <3>2, <3>3, CloudKeeps
  <2> QED BY <1>2, <2>2, <2>3 DEF RestoreDiscovery
<1>3. CASE ~RevertCloud(p) /\ ~RestoreDiscovery(p)
  <2>1. NoneReverts /\ KnownInv'
    BY <1>3, StepMoves, MovesRevertNone, MovesKnown
  <2>2. UNCHANGED cpReq
    BY <1>3, StepMoves DEF StageMoves
  <2>3. CASE UNCHANGED <<clouds, cpOverrun>>
    BY <2>1, <2>2, <2>3, GlobalUntouched
  <2>4. ASSUME NEW at \in {"register", "activate", "no-discovery", "login", "mark"}, NEW after,
               AzStep(p, at, after), after \in GlobalClouds
        PROVE  GlobalInv'
    <3>1. CASE Cloud(p, after)
      BY <2>1, <2>2, <2>4, <3>1, CloudKeeps DEF NoneReverts
    <3>2. CASE UNCHANGED AzureState
      BY <2>3, <3>2 DEF AzureState
    <3> QED BY <2>4, <3>1, <3>2 DEF AzStep
  <2>6. CASE RegisterCloud(p)
    BY <1>0, <2>4, <2>6, CloudFields DEF RegisterCloud
  <2>7. CASE ActivateCloud(p)
    BY <1>0, <2>4, <2>7, CloudFields DEF ActivateCloud
  <2>8. CASE DisableDiscovery(p)
    BY <1>0, <2>4, <2>8, TelemetryField DEF DisableDiscovery
  <2>9. CASE LoginDummy(p)
    BY <1>0, <2>4, <2>9, CloudFields DEF LoginDummy
  <2>10. CASE WriteMarker(p)
    BY <1>0, <2>4, <2>10 DEF WriteMarker
  <2>11. CheckProfileSetup(p) \/ ConfirmProfile(p) \/ AzInstalled(p) \/ AzCheck(p) \/ CheckActiveCloud(p) =>
           UNCHANGED <<clouds, cpOverrun>>
    BY DEF CheckProfileSetup, ConfirmProfile, AzInstalled, AzCheck, CheckActiveCloud, AzureState
  <2>12. WriteConfigProfile(p) \/ WriteCredsProfile(p) => UNCHANGED <<clouds, cpOverrun>>
    BY DEF WriteConfigProfile, WriteCredsProfile, UpsertSection, AzureState
  <2> QED BY <1>3, <2>3, <2>6, <2>7, <2>8, <2>9, <2>10, <2>11, <2>12 DEF ProfileStep
<1> QED BY <1>1, <1>2, <1>3

LEMMA GlobalNextInv == ProfileInv /\ GlobalInv /\ [ProfileNext]_cpVars => GlobalInv'
<1> SUFFICES ASSUME ProfileInv, GlobalInv, [ProfileNext]_cpVars PROVE GlobalInv'
  OBVIOUS
<1>1. ASSUME NEW p \in ProfileProcs, ProfileStep(p) PROVE GlobalInv'
  BY <1>1, GlobalStepInv
<1>2. ASSUME NEW p \in ProfileProcs, ProfileKilled(p) PROVE GlobalInv'
  <2>1. CpStop(p, "killed") /\ UNCHANGED <<cpReq, clouds, cpOverrun>>
    BY <1>2 DEF ProfileKilled, AzureState
  <2> QED BY <2>1, StopMoves, MovesRevertNone, MovesKnown, GlobalUntouched
<1>3. ASSUME NEW f \in AwsFiles, NEW s \in UserSections, UserEditsProfile(f, s) PROVE GlobalInv'
  BY <1>3 DEF UserEditsProfile, AzureState, GlobalInv, GlobalTypes, RevertedInv, KnownInv, TargetKnown, CpAt, Global
<1>4. CASE UserPicksCloud
  <2>1. [Global EXCEPT !.active = "Mine"] \in GlobalClouds /\ [Global EXCEPT !.active = "Mine"].active = "Mine"
    BY CloudFields DEF GlobalInv, GlobalTypes, Global, AzureDirs
  <2>2. clouds' = [clouds EXCEPT !["global"] = [Global EXCEPT !.active = "Mine"]]
    BY <1>4 DEF UserPicksCloud, Global
  <2>3. clouds' \in [AzureDirs -> GlobalClouds] /\ clouds'["global"].active = "Mine"
    BY <2>1, <2>2 DEF GlobalInv, GlobalTypes, AzureDirs
  <2> QED BY <1>4, <2>3 DEF UserPicksCloud, GlobalInv, GlobalTypes, RevertedInv, KnownInv, TargetKnown, CpAt, Global
<1>5. CASE UNCHANGED cpVars
  BY <1>5 DEF cpVars, GlobalInv, GlobalTypes, RevertedInv, KnownInv, TargetKnown, CpAt, Global
<1> QED BY <1>1, <1>2, <1>3, <1>4, <1>5 DEF ProfileNext

\* A stop-interception says it stopped only in its last step, and a setup of
\* lstk's own configuration writes no other.
LEMMA InterceptionStep ==
  ASSUME ProfileInv, GlobalInv, [ProfileNext]_cpVars, NEW p \in ProfileProcs
  PROVE  /\ cpEnd[p] = "busy" /\ cpEnd'[p] = "stopped" => StopsIntercepting(p)
         /\ cpReq[p].cmd = "setup-azure" /\ cpAt'[p] # cpAt[p] => clouds'["global"] = clouds["global"]
<1>1. CASE ProfileStep(p)
  <2>1. CASE RestoreDiscovery(p)
    <3>1. cpReq[p].cmd # "setup-azure"
      BY <2>1 DEF RestoreDiscovery, CpAt, ProfileInv, AzureInv, RevertStages
    <3>2. CASE CpStop(p, "failed")
      BY <3>1, <3>2 DEF CpStop, ProfileInv, ProfileTypes
    <3>3. CASE Cloud(p, DiscoveryRestored(Global))
      <4>1. clouds'["global"] = DiscoveryRestored(Global)
        BY <3>1, <3>3 DEF Cloud, DirOf, ProfileInv, ProfileTypes, AzureDirs
      <4>2. clouds'["global"].discovery /\ clouds'["global"].active = Global.active
        BY <4>1, CloudFields DEF GlobalInv, GlobalTypes, DiscoveryRestored, Global, AzureDirs
      <4> QED BY <2>1, <3>1, <4>2 DEF StopsIntercepting, RestoreDiscovery, GlobalInv, RevertedInv
    <3> QED BY <2>1, <3>2, <3>3 DEF RestoreDiscovery
  <2>2. CASE RevertCloud(p)
    BY <2>2 DEF RevertCloud, CpAt, CpGo, CpStop, ProfileInv, ProfileTypes, AzureInv, RevertStages
  <2>3. CASE ~RevertCloud(p) /\ ~RestoreDiscovery(p)
    <3>1. cpEnd[p] = "busy" => cpEnd'[p] # "stopped"
      BY <1>1, <2>3, StepMoves DEF StageMoves
    <3>2. ASSUME cpReq[p].cmd = "setup-azure" PROVE clouds'["global"] = clouds["global"]
      <4>1. ASSUME NEW at, NEW after, AzStep(p, at, after) PROVE clouds'["global"] = clouds["global"]
        BY <3>2, <4>1 DEF AzStep, Cloud, DirOf, AzureState, ProfileInv, ProfileTypes, AzureDirs
      <4>2. RegisterCloud(p) \/ ActivateCloud(p) \/ DisableDiscovery(p) \/ LoginDummy(p) \/ WriteMarker(p) =>
              clouds'["global"] = clouds["global"]
        BY <4>1 DEF RegisterCloud, ActivateCloud, DisableDiscovery, LoginDummy, WriteMarker
      <4>3. CheckProfileSetup(p) \/ ConfirmProfile(p) \/ AzInstalled(p) \/ AzCheck(p) \/ CheckActiveCloud(p) =>
              UNCHANGED clouds
        BY DEF CheckProfileSetup, ConfirmProfile, AzInstalled, AzCheck, CheckActiveCloud, AzureState
      <4>4. WriteConfigProfile(p) \/ WriteCredsProfile(p) => UNCHANGED clouds
        BY DEF WriteConfigProfile, WriteCredsProfile, UpsertSection, AzureState
      <4> QED BY <1>1, <2>3, <4>2, <4>3, <4>4 DEF ProfileStep
    <3> QED BY <3>1, <3>2
  <2> QED BY <2>1, <2>2, <2>3
<1>2. CASE ~ProfileStep(p)
  <2>1. ASSUME NEW q \in ProfileProcs, q # p, ProfileStep(q) PROVE cpEnd'[p] = cpEnd[p] /\ cpAt'[p] = cpAt[p]
    <3>1. CASE RevertCloud(q) \/ RestoreDiscovery(q)
      BY <2>1, <3>1 DEF RevertCloud, RestoreDiscovery, CpGo, CpStop, ProfileInv, ProfileTypes
    <3>2. CASE ~RevertCloud(q) /\ ~RestoreDiscovery(q)
      BY <2>1, <3>2, StepMoves DEF StageMoves
    <3> QED BY <3>1, <3>2
  <2>2. ASSUME NEW q \in ProfileProcs, ProfileKilled(q)
        PROVE  cpAt'[p] = cpAt[p] /\ (cpEnd[p] = "busy" => cpEnd'[p] # "stopped")
    BY <2>2 DEF ProfileKilled, CpStop, ProfileInv, ProfileTypes
  <2>3. (\E f \in AwsFiles, s \in UserSections : UserEditsProfile(f, s)) \/ UserPicksCloud \/ UNCHANGED cpVars =>
          cpEnd' = cpEnd /\ cpAt' = cpAt
    BY DEF UserEditsProfile, UserPicksCloud, cpVars
  <2> QED BY <1>2, <2>1, <2>2, <2>3 DEF ProfileNext
<1> QED BY <1>1, <1>2

LEMMA GlobalInvHolds == ProfileSpec => [](ProfileInv /\ GlobalInv)
<1>1. ProfileInit => ProfileInv /\ GlobalInv
  BY ProfileInitInv, GlobalInitInv
<1>2. ProfileInv /\ GlobalInv /\ [ProfileNext]_cpVars => (ProfileInv /\ GlobalInv)'
  BY ProfileNextInv, GlobalNextInv
<1> QED BY <1>1, <1>2, PTL DEF ProfileSpec

\* A stop-interception that reports success has turned the validation of
\* authorities back on and left LocalStack, unless LocalStack was named or
\* activated again meanwhile, for any number of commands at once.
\* (interception.go, StopInterception)
THEOREM InterceptionsUndone == ProfileSpec => InterceptionUndone
<1>1. ProfileSpec => [](ProfileInv /\ GlobalInv)
  BY GlobalInvHolds, PTL
<1>2. ProfileInv /\ GlobalInv /\ [ProfileNext]_cpVars =>
        [\A p \in ProfileProcs :
           /\ cpEnd[p] = "busy" /\ cpEnd'[p] = "stopped" => StopsIntercepting(p)
           /\ cpReq[p].cmd = "setup-azure" /\ cpAt'[p] # cpAt[p] => clouds'["global"] = clouds["global"]]_cpVars
  BY InterceptionStep
<1> QED BY <1>1, <1>2, PTL DEF ProfileSpec, InterceptionUndone

\* What is in the user's two files, and what the commands have seen there.
AwsTypes ==
  /\ aws \in [AwsFiles -> Sections]
  /\ cpSeen \in [ProfileProcs -> [AwsFiles -> Sections]]
  /\ cpOverrun \subseteq ProfileProcs

LEMMA AwsStep ==
  ASSUME AwsTypes, [ProfileNext]_cpVars
  PROVE  AwsTypes'
<1>1. ASSUME NEW p \in ProfileProcs, NEW c, Cloud(p, c), UNCHANGED AwsState PROVE AwsTypes'
  BY <1>1 DEF AwsTypes, Cloud, AwsState
<1>2. UNCHANGED <<AwsState, cpOverrun>> => AwsTypes'
  BY DEF AwsTypes, AwsState
<1>3. ASSUME NEW p \in ProfileProcs, NEW f \in AwsFiles, NEW next, UpsertSection(p, f, next) PROVE AwsTypes'
  <2>1. "lstk" \in Sections
    BY DEF Sections
  <2>2. (aws' = aws \/ aws' = [aws EXCEPT ![f] = "lstk"]) /\ UNCHANGED <<cpSeen, cpOverrun>>
    BY <1>3 DEF UpsertSection, AzureState
  <2> QED BY <2>1, <2>2 DEF AwsTypes
<1>4. ASSUME NEW p \in ProfileProcs, ProfileStep(p) PROVE AwsTypes'
  <2>1. CASE CheckProfileSetup(p)
    <3>1. (cpSeen' = cpSeen \/ cpSeen' = [cpSeen EXCEPT ![p] = aws]) /\ UNCHANGED <<aws, cpOverrun>>
      BY <2>1 DEF CheckProfileSetup, AzureState
    <3> QED BY <3>1 DEF AwsTypes
  <2>2. CASE ConfirmProfile(p)
    BY <2>2 DEF ConfirmProfile, AzureState, AwsTypes
  <2>3. CASE WriteConfigProfile(p) \/ WriteCredsProfile(p)
    BY <1>3, <2>3 DEF WriteConfigProfile, WriteCredsProfile, AwsFiles
  <2>4. CASE AzInstalled(p) \/ AzCheck(p) \/ CheckActiveCloud(p)
    BY <1>2, <2>4 DEF AzInstalled, AzCheck, CheckActiveCloud, AzureState
  <2>5. ASSUME NEW at, NEW after, AzStep(p, at, after) PROVE AwsTypes'
    BY <1>1, <1>2, <2>5 DEF AzStep, AzureState
  <2>6. CASE RevertCloud(p) \/ RestoreDiscovery(p)
    BY <1>1, <1>2, <2>6 DEF RevertCloud, RestoreDiscovery
  <2> QED BY <1>4, <2>1, <2>2, <2>3, <2>4, <2>5, <2>6
          DEF ProfileStep, RegisterCloud, ActivateCloud, DisableDiscovery, LoginDummy, WriteMarker
<1>5. ASSUME NEW p \in ProfileProcs, ProfileKilled(p) PROVE AwsTypes'
  BY <1>2, <1>5 DEF ProfileKilled, AzureState
<1>6. ASSUME NEW f \in AwsFiles, NEW s \in UserSections, UserEditsProfile(f, s) PROVE AwsTypes'
  BY <1>6, ProfileConstants DEF UserEditsProfile, AzureState, AwsTypes
<1>7. CASE UserPicksCloud
  BY <1>2, <1>7 DEF UserPicksCloud
<1>8. CASE UNCHANGED cpVars
  BY <1>2, <1>8 DEF cpVars, AwsState
<1> QED BY <1>4, <1>5, <1>6, <1>7, <1>8 DEF ProfileNext

\* Every variable of the profile commands keeps its type: no section of ~/.aws
\* is anything but what somebody wrote, and the Azure CLI is on no cloud that
\* is not known. (awsconfig.go, azureconfig.go, interception.go)
THEOREM ProfileTyped == ProfileSpec => []ProfileTypeOK
<1>1. ProfileInit => AwsTypes
  BY ProfileConstants DEF ProfileInit, AwsTypes, Sections
<1>2. AwsTypes /\ [ProfileNext]_cpVars => AwsTypes'
  BY AwsStep
<1>3. ProfileInv /\ GlobalInv /\ AwsTypes => ProfileTypeOK
  <2> SUFFICES ASSUME ProfileInv, GlobalInv, AwsTypes PROVE ProfileTypeOK
    OBVIOUS
  <2> QED BY DEF ProfileInv, ProfileTypes, GlobalInv, GlobalTypes, AwsTypes, ProfileTypeOK, GlobalClouds
<1> QED BY <1>1, <1>2, <1>3, GlobalInvHolds, PTL DEF ProfileSpec
-----------------------------------------------------------------------------
\* SelfUpdate
Placing == {"clear-old", "move-away", "place", "copy", "write"}
UpdateStages == {"check", "package", "checksums", "download", "verify"} \cup Placing
Atomic(p) == suReq[p].device = "same" /\ suReq[p].os # "windows"

UpdateTypes ==
  /\ suAt \in [UpdateProcs -> UpdateStages]
  /\ suTag \in [UpdateProcs -> Releases]
  /\ suArchive \in [UpdateProcs -> Contents]
  /\ suTemps \subseteq UpdateProcs
  /\ suLatest \in Releases
\* What is put in place has been verified.
VerifiedInv == \A p \in UpdateProcs : suAt[p] \in Placing => suArchive[p] \in Releases
\* The steps that are not one rename.
PlatformInv ==
  \A p \in UpdateProcs : suAt[p] \in {"clear-old", "move-away", "copy", "write"} => ~Atomic(p)
DiskInv ==
  /\ suExe \in Contents \ {Tampered} /\ suOld \in Contents \ {Tampered}
  /\ (\A p \in UpdateProcs : Atomic(p)) => suExe \in Releases
UpdateInv == UpdateTypes /\ VerifiedInv /\ PlatformInv /\ DiskInv

\* What lies on the disk is told apart from every release.
LEMMA ContentsDiffer ==
  /\ Releases \subseteq Contents \ {Tampered} /\ Releases \subseteq Contents
  /\ Running \in Releases /\ 0 \in Releases
  /\ Missing \in Contents \ {Tampered} /\ Half \in Contents \ {Tampered} /\ Tampered \in Contents
BY UpdateConstants DEF Releases, Contents, Running, Missing, Half, Tampered

\* The disk is left alone by every step but those of Placing and a package
\* manager's; then DiskInv is kept.
LEMMA DiskUntouched ==
  ASSUME DiskInv, UNCHANGED <<suReq, suExe, suOld>>
  PROVE  DiskInv'
BY DEF DiskInv, Atomic

LEMMA UpdateInitInv == UpdateInit => UpdateInv
<1> SUFFICES ASSUME UpdateInit PROVE UpdateInv
  OBVIOUS
<1>1. UpdateTypes
  BY ContentsDiffer DEF UpdateInit, UpdateTypes, UpdateStages
<1>2. VerifiedInv /\ PlatformInv
  BY DEF UpdateInit, VerifiedInv, PlatformInv, Placing
<1>3. DiskInv
  BY ContentsDiffer DEF UpdateInit, DiskInv
<1> QED BY <1>1, <1>2, <1>3 DEF UpdateInv

\* One step of one update.
LEMMA UpdateStepInv ==
  ASSUME UpdateInv, NEW p \in UpdateProcs, UpdateStep(p)
  PROVE  UpdateInv'
<1> USE ContentsDiffer
<1> USE DEF UpdateStages, Placing, SuAt, SuGo, SuStop, SuDisk
<1>1. CASE CheckRelease(p)
  <2>1. UpdateTypes' BY <1>1 DEF CheckRelease, UpdateInv, UpdateTypes
  <2>2. VerifiedInv' BY <1>1 DEF CheckRelease, UpdateInv, UpdateTypes, VerifiedInv
  <2>3. PlatformInv' BY <1>1 DEF CheckRelease, UpdateInv, UpdateTypes, PlatformInv, Atomic
  <2>4. DiskInv' BY <1>1, DiskUntouched DEF CheckRelease, UpdateInv
  <2> QED BY <2>1, <2>2, <2>3, <2>4 DEF UpdateInv
<1>2. CASE PackageManagerRuns(p)
  <2>1. UpdateTypes' BY <1>2 DEF PackageManagerRuns, UpdateInv, UpdateTypes
  <2>2. VerifiedInv' BY <1>2 DEF PackageManagerRuns, UpdateInv, UpdateTypes, VerifiedInv
  <2>3. PlatformInv' BY <1>2 DEF PackageManagerRuns, UpdateInv, UpdateTypes, PlatformInv, Atomic
  <2>4. DiskInv' BY <1>2 DEF PackageManagerRuns, UpdateInv, UpdateTypes, DiskInv, Atomic
  <2> QED BY <2>1, <2>2, <2>3, <2>4 DEF UpdateInv
<1>3. CASE FetchChecksums(p)
  <2>1. UpdateTypes' BY <1>3 DEF FetchChecksums, UpdateInv, UpdateTypes
  <2>2. VerifiedInv' BY <1>3 DEF FetchChecksums, UpdateInv, UpdateTypes, VerifiedInv
  <2>3. PlatformInv' BY <1>3 DEF FetchChecksums, UpdateInv, UpdateTypes, PlatformInv, Atomic
  <2>4. DiskInv' BY <1>3, DiskUntouched DEF FetchChecksums, UpdateInv
  <2> QED BY <2>1, <2>2, <2>3, <2>4 DEF UpdateInv
<1>4. CASE Download(p)
  <2>0. suTag[p] \in Contents /\ Half \in Contents /\ Tampered \in Contents
    BY <1>4 DEF UpdateInv, UpdateTypes
  <2>1. UpdateTypes'
    <3>1. CASE SuStop(p, "failed") /\ UNCHANGED suArchive
      BY <1>4, <3>1 DEF Download, UpdateInv, UpdateTypes
    <3>2. CASE ~(SuStop(p, "failed") /\ UNCHANGED suArchive)
      <4>1. PICK bytes \in {suTag[p], Half, Tampered} : suArchive' = [suArchive EXCEPT ![p] = bytes]
        BY <1>4, <3>2 DEF Download
      <4>2. suArchive' \in [UpdateProcs -> Contents]
        BY <2>0, <4>1 DEF UpdateInv, UpdateTypes
      <4> QED BY <1>4, <3>2, <4>2 DEF Download, UpdateInv, UpdateTypes
    <3> QED BY <3>1, <3>2
  <2>2. VerifiedInv' BY <1>4 DEF Download, UpdateInv, UpdateTypes, VerifiedInv
  <2>3. PlatformInv' BY <1>4 DEF Download, UpdateInv, UpdateTypes, PlatformInv, Atomic
  <2>4. DiskInv' BY <1>4, DiskUntouched DEF Download, UpdateInv
  <2> QED BY <2>1, <2>2, <2>3, <2>4 DEF UpdateInv
<1>5. CASE VerifyAndExtract(p)
  <2>1. UpdateTypes' BY <1>5 DEF VerifyAndExtract, UpdateInv, UpdateTypes
  <2>2. VerifiedInv' BY <1>5 DEF VerifyAndExtract, UpdateInv, UpdateTypes, VerifiedInv, SumMatches
  <2>3. PlatformInv' BY <1>5 DEF VerifyAndExtract, UpdateInv, UpdateTypes, PlatformInv, Atomic
  <2>4. DiskInv' BY <1>5, DiskUntouched DEF VerifyAndExtract, UpdateInv
  <2> QED BY <2>1, <2>2, <2>3, <2>4 DEF UpdateInv
<1>6. CASE RemoveOld(p)
  <2>1. UpdateTypes' BY <1>6 DEF RemoveOld, UpdateInv, UpdateTypes
  <2>2. VerifiedInv' BY <1>6 DEF RemoveOld, UpdateInv, UpdateTypes, VerifiedInv
  <2>3. PlatformInv' BY <1>6 DEF RemoveOld, UpdateInv, UpdateTypes, PlatformInv, Atomic
  <2>4. DiskInv' BY <1>6 DEF RemoveOld, UpdateInv, DiskInv, Atomic
  <2> QED BY <2>1, <2>2, <2>3, <2>4 DEF UpdateInv
<1>7. CASE MoveAway(p)
  <2>1. UpdateTypes' BY <1>7 DEF MoveAway, UpdateInv, UpdateTypes
  <2>2. VerifiedInv' BY <1>7 DEF MoveAway, UpdateInv, UpdateTypes, VerifiedInv
  <2>3. PlatformInv' BY <1>7 DEF MoveAway, UpdateInv, UpdateTypes, PlatformInv, Atomic
  <2>4. ~Atomic(p) BY <1>7 DEF MoveAway, UpdateInv, PlatformInv
  <2>5. DiskInv' BY <1>7, <2>4 DEF MoveAway, UpdateInv, DiskInv, Atomic
  <2> QED BY <2>1, <2>2, <2>3, <2>5 DEF UpdateInv
<1>8. CASE Place(p)
  <2>1. UpdateTypes' BY <1>8 DEF Place, UpdateInv, UpdateTypes
  <2>2. VerifiedInv' BY <1>8 DEF Place, UpdateInv, UpdateTypes, VerifiedInv
  <2>3. PlatformInv' BY <1>8 DEF Place, UpdateInv, UpdateTypes, PlatformInv, Atomic
  <2>4. suArchive[p] \in Releases BY <1>8 DEF Place, UpdateInv, VerifiedInv
  <2>5. DiskInv' BY <1>8, <2>4 DEF Place, UpdateInv, DiskInv, Atomic
  <2> QED BY <2>1, <2>2, <2>3, <2>5 DEF UpdateInv
<1>9. CASE CopyTruncates(p)
  <2>1. UpdateTypes' BY <1>9 DEF CopyTruncates, UpdateInv, UpdateTypes
  <2>2. VerifiedInv' BY <1>9 DEF CopyTruncates, UpdateInv, UpdateTypes, VerifiedInv
  <2>3. PlatformInv' BY <1>9 DEF CopyTruncates, UpdateInv, UpdateTypes, PlatformInv, Atomic
  <2>4. ~Atomic(p) BY <1>9 DEF CopyTruncates, UpdateInv, PlatformInv
  <2>5. DiskInv' BY <1>9, <2>4 DEF CopyTruncates, UpdateInv, DiskInv, Atomic
  <2> QED BY <2>1, <2>2, <2>3, <2>5 DEF UpdateInv
<1>10. CASE CopyWrites(p)
  <2>1. UpdateTypes' BY <1>10 DEF CopyWrites, UpdateInv, UpdateTypes
  <2>2. VerifiedInv' BY <1>10 DEF CopyWrites, UpdateInv, UpdateTypes, VerifiedInv
  <2>3. PlatformInv' BY <1>10 DEF CopyWrites, UpdateInv, UpdateTypes, PlatformInv, Atomic
  <2>4. ~Atomic(p) /\ suArchive[p] \in Releases
    BY <1>10 DEF CopyWrites, UpdateInv, PlatformInv, VerifiedInv
  <2>5. DiskInv' BY <1>10, <2>4 DEF CopyWrites, UpdateInv, DiskInv, Atomic
  <2> QED BY <2>1, <2>2, <2>3, <2>5 DEF UpdateInv
<1>11. CASE UpdateKilled(p)
  <2>1. UpdateTypes' /\ VerifiedInv' /\ PlatformInv'
    BY <1>11 DEF UpdateKilled, UpdateInv, UpdateTypes, VerifiedInv, PlatformInv, Atomic
  <2>2. DiskInv' BY <1>11, DiskUntouched DEF UpdateKilled, UpdateInv
  <2> QED BY <2>1, <2>2 DEF UpdateInv
<1> QED BY <1>1, <1>2, <1>3, <1>4, <1>5, <1>6, <1>7, <1>8, <1>9, <1>10, <1>11 DEF UpdateStep

LEMMA UpdateNextInv == UpdateInv /\ [UpdateNext]_suVars => UpdateInv'
<1> SUFFICES ASSUME UpdateInv, [UpdateNext]_suVars PROVE UpdateInv'
  OBVIOUS
<1>1. CASE NewRelease
  <2>1. UpdateTypes' BY <1>1, UpdateConstants DEF NewRelease, UpdateInv, UpdateTypes, Releases
  <2>2. VerifiedInv' /\ PlatformInv'
    BY <1>1 DEF NewRelease, UpdateInv, VerifiedInv, PlatformInv, Atomic
  <2>3. DiskInv' BY <1>1, DiskUntouched DEF NewRelease, UpdateInv, SuDisk
  <2> QED BY <2>1, <2>2, <2>3 DEF UpdateInv
<1>2. ASSUME NEW p \in UpdateProcs, UpdateStep(p) PROVE UpdateInv'
  BY <1>2, UpdateStepInv
<1>3. CASE UNCHANGED suVars
  BY <1>3 DEF suVars, UpdateInv, UpdateTypes, VerifiedInv, PlatformInv, DiskInv, Atomic
<1> QED BY <1>1, <1>2, <1>3 DEF UpdateNext

\* The inductive invariant of the self-update. (github.go, extract.go)
THEOREM UpdateInvHolds == UpdateSpec => []UpdateInv
<1> QED BY UpdateInitInv, UpdateNextInv, PTL DEF UpdateSpec

\* Every variable of the self-update keeps its type: what lies on the disk and
\* what was downloaded is a release in full or one of the things that are none.
\* (github.go, extract.go)
THEOREM UpdateTyped == UpdateSpec => []UpdateTypeOK
<1>1. UpdateInv => UpdateTypeOK
  BY DEF UpdateInv, UpdateTypes, DiskInv, UpdateTypeOK
<1> QED BY <1>1, UpdateInvHolds, PTL

\* What lies at the executable's path is a checked release in full wherever
\* the new executable can be renamed into place, and never bytes that no
\* release has, whoever else updates and whoever is killed. (extract.go)
THEOREM ExecutableStaysSound == UpdateSpec => []ExecutableSound
<1>1. UpdateInv => ExecutableSound
  <2> SUFFICES ASSUME UpdateInv PROVE ExecutableSound
    OBVIOUS
  <2>1. suExe # Tampered /\ suOld # Tampered
    BY DEF UpdateInv, DiskInv
  <2> QED BY <2>1 DEF UpdateInv, DiskInv, Atomic, ExecutableSound
<1> QED BY <1>1, UpdateInvHolds, PTL

-----------------------------------------------------------------------------
\* ConfigFiles
\* A function on 1..n is a sequence of what it holds.
LEMMA TomlBuilt ==
  ASSUME NEW n \in Nat, NEW f, f = [i \in 1..n |-> f[i]],
         \A i \in 1..n : ReadTable(f[i])
  PROVE  Toml(f) /\ Len(f) = n /\ DOMAIN f = 1..n
<1>1. DOMAIN f = 1..n
  OBVIOUS
<1>2. f \in [1..n -> {f[i] : i \in 1..n}]
  OBVIOUS
<1>3. f \in Seq({f[i] : i \in 1..n})
  BY <1>2, SeqDef
<1> QED BY <1>1, <1>3 DEF Toml, IsList

LEMMA Singleton == ASSUME NEW r PROVE <<r>>[1] = r /\ 1 \in DOMAIN <<r>>
OBVIOUS
LEMMA BareTable == ASSUME NEW x PROVE DOMAIN [table |-> x] = {"table"}
OBVIOUS

LEMMA TomlShape ==
  ASSUME NEW f, Toml(f)
  PROVE  /\ Len(f) \in Nat /\ DOMAIN f = 1..Len(f) /\ f = [i \in 1..Len(f) |-> f[i]]
         /\ f # NoFile /\ f # OldYaml
<1>1. Len(f) \in Nat /\ DOMAIN f = 1..Len(f) /\ f = [i \in 1..Len(f) |-> f[i]]
  BY DEF Toml, IsList
<1>2. ASSUME f = NoFile \/ f = OldYaml PROVE FALSE
  <2>1. 1 \in DOMAIN f /\ DOMAIN f[1] = {"table"}
    <3>1. CASE f = <<[table |-> "no file"]>>
      <4>1. f[1] = [table |-> "no file"] /\ 1 \in DOMAIN f
        BY ONLY <3>1, Singleton, Zenon
      <4> QED BY ONLY <4>1, BareTable, Zenon
    <3>2. CASE f = <<[table |-> "old yaml"]>>
      <4>1. f[1] = [table |-> "old yaml"] /\ 1 \in DOMAIN f
        BY ONLY <3>2, Singleton, Zenon
      <4> QED BY ONLY <4>1, BareTable, Zenon
    <3> QED BY <1>2, <3>1, <3>2 DEF NoFile, OldYaml
  <2>2. DOMAIN f[1] = {"table", "keys"}
    BY <2>1 DEF Toml, ReadTable, Table
  <2> QED BY <2>1, <2>2
<1> QED BY <1>1, <1>2

LEMMA TomlKnown == Toml(Empty) /\ Toml(DefaultTemplate)
<1>1. Toml(Empty)
  BY DEF Toml, IsList, Empty
<1>2. DefaultTemplate = [i \in 1..1 |-> DefaultTemplate[i]] /\ 1..1 = {1}
  BY DEF DefaultTemplate
<1>3. \A i \in 1..1 : ReadTable(DefaultTemplate[i])
  BY <1>2 DEF DefaultTemplate, Table, ReadTable
<1> QED BY <1>1, <1>2, <1>3, TomlBuilt

\* What an edit makes of one table: its name stays, and every key of it.
PlainKeys(g) == DOMAIN g \cap {"expose", "env", "GATEWAY_LISTEN"} = {}
LEMMA TablePut ==
  ASSUME NEW t, ReadTable(t), NEW g, PlainKeys(g), NEW u, u = [t EXCEPT !.keys = Over(t.keys, g)]
  PROVE  ReadTable(u) /\ u.table = t.table /\ u.keys = Over(t.keys, g)
<1>1. u = Table(u.table, u.keys) /\ u.table = t.table /\ u.keys = Over(t.keys, g)
  BY DEF Table, ReadTable
<1>2. \A k \in DOMAIN u.keys \cap {"expose", "env", "GATEWAY_LISTEN"} :
        k \in DOMAIN t.keys /\ u.keys[k] = t.keys[k]
  BY <1>1 DEF PlainKeys, Over
<1> QED BY <1>1, <1>2 DEF ReadTable
LEMMA PlainEdits == ASSUME NEW v PROVE PlainKeys([type |-> v]) /\ PlainKeys([update_skipped_version |-> v])
BY DEF PlainKeys

\* An edit changes the keys of some tables, those in S, and adds no table.
Put(h, f, S, g) ==
  h = [i \in DOMAIN f |-> IF i \in S THEN [f[i] EXCEPT !.keys = Over(@, g)] ELSE f[i]]
LEMMA TablesPut ==
  ASSUME NEW f, Toml(f), NEW S, NEW g, PlainKeys(g), NEW h, Put(h, f, S, g)
  PROVE  /\ Toml(h) /\ DOMAIN h = DOMAIN f
         /\ \A i \in DOMAIN f : /\ h[i].table = f[i].table
                                /\ h[i].keys = IF i \in S THEN Over(f[i].keys, g) ELSE f[i].keys
<1>1. Len(f) \in Nat /\ DOMAIN f = 1..Len(f)
  BY TomlShape
<1>2. \A i \in DOMAIN f : ReadTable(f[i])
  BY DEF Toml
<1>3. DOMAIN h = 1..Len(f) /\ h = [i \in 1..Len(f) |-> h[i]]
  BY <1>1 DEF Put
<1>4. ASSUME NEW i \in DOMAIN f
      PROVE  /\ ReadTable(h[i]) /\ h[i].table = f[i].table
             /\ h[i].keys = IF i \in S THEN Over(f[i].keys, g) ELSE f[i].keys
  <2>1. CASE i \in S
    <3>1. h[i] = [f[i] EXCEPT !.keys = Over(f[i].keys, g)]
      BY <2>1 DEF Put
    <3> QED BY <1>2, <2>1, <3>1, TablePut
  <2>2. CASE i \notin S
    BY <1>2, <2>2 DEF Put
  <2> QED BY <2>1, <2>2
<1>5. Toml(h)
  BY <1>1, <1>3, <1>4, TomlBuilt
<1> QED BY <1>1, <1>3, <1>4, <1>5

\* The two edits leave a file a file, with the tables it had.
LEMMA TypeWritten ==
  ASSUME NEW f, Toml(f), NEW to
  PROVE  /\ Toml(WithType(f, to)) /\ DOMAIN WithType(f, to) = DOMAIN f
         /\ \A i \in DOMAIN f :
              /\ WithType(f, to)[i].table = f[i].table
              /\ WithType(f, to)[i].keys =
                   IF i \in TypeAt(f) THEN Over(f[i].keys, [type |-> to]) ELSE f[i].keys
<1> DEFINE g == [type |-> to]
<1>1. Put(WithType(f, to), f, TypeAt(f), g)
  BY DEF WithType, Put
<1>2. PlainKeys(g)
  BY PlainEdits
<1> HIDE DEF g
<1>3. /\ Toml(WithType(f, to)) /\ DOMAIN WithType(f, to) = DOMAIN f
      /\ \A i \in DOMAIN f :
           /\ WithType(f, to)[i].table = f[i].table
           /\ WithType(f, to)[i].keys = IF i \in TypeAt(f) THEN Over(f[i].keys, g) ELSE f[i].keys
  BY <1>1, <1>2, TablesPut
<1> QED BY <1>3 DEF g

\* A skipped version is put in the tables in S, or in a table of its own.
SkipTables(f) ==
  IF \E i \in DOMAIN f : HasField(f[i]) THEN {i \in DOMAIN f : HasField(f[i])}
  ELSE {i \in DOMAIN f : f[i].table = "cli"}

LEMMA SkipWritten ==
  ASSUME NEW f, Toml(f), NEW v
  PROVE  /\ Toml(WithSkipped(f, v)) /\ DOMAIN f \subseteq DOMAIN WithSkipped(f, v)
         /\ \A i \in DOMAIN f :
              /\ WithSkipped(f, v)[i].table = f[i].table
              /\ WithSkipped(f, v)[i].keys =
                   IF i \in SkipTables(f) THEN Over(f[i].keys, [update_skipped_version |-> v]) ELSE f[i].keys
         /\ \A i \in DOMAIN WithSkipped(f, v) \ DOMAIN f : WithSkipped(f, v)[i].table = "cli"
<1> DEFINE h == WithSkipped(f, v)
           g == [update_skipped_version |-> v]
           last == Table("cli", g)
<1>1. CASE SkipTables(f) # {}
  <2>1. Put(h, f, SkipTables(f), g)
    <3>1. CASE \E i \in DOMAIN f : HasField(f[i])
      BY <3>1 DEF WithSkipped, SkipTables, Put
    <3>2. CASE ~ \E i \in DOMAIN f : HasField(f[i])
      BY <1>1, <3>2 DEF WithSkipped, SkipTables, Put
    <3> QED BY <3>1, <3>2
  <2>0. PlainKeys(g)
    BY PlainEdits
  <2> HIDE DEF h, g
  <2>2. /\ Toml(h) /\ DOMAIN h = DOMAIN f
        /\ \A i \in DOMAIN f :
             /\ h[i].table = f[i].table
             /\ h[i].keys = IF i \in SkipTables(f) THEN Over(f[i].keys, g) ELSE f[i].keys
    BY <2>0, <2>1, TablesPut
  <2> QED BY <2>2 DEF h, g
<1>2. CASE SkipTables(f) = {}
  <2>1. h = Append(f, last)
    <3>1. \A i \in DOMAIN f : ~HasField(f[i]) /\ f[i].table # "cli"
      BY <1>2 DEF SkipTables
    <3> QED BY <3>1 DEF WithSkipped
  <2>2. /\ Len(f) \in Nat /\ DOMAIN f = 1..Len(f)
        /\ \A i \in DOMAIN f : ReadTable(f[i])
    BY TomlShape DEF Toml
  <2> DEFINE S == {f[i] : i \in DOMAIN f} \cup {last}
  <2>3. f \in Seq(S) /\ last \in S
    <3>1. f \in [1..Len(f) -> S]
      BY <2>2, TomlShape
    <3> QED BY <3>1, <2>2, SeqDef
  <2> HIDE DEF last, g, h, S
  <2>4. /\ DOMAIN h = 1..(Len(f) + 1)
        /\ h = [i \in 1..(Len(f) + 1) |-> h[i]]
        /\ \A i \in 1..Len(f) : h[i] = f[i]
        /\ h[Len(f) + 1] = last
    <3>1. /\ h \in Seq(S) /\ Len(h) = Len(f) + 1
          /\ \A i \in 1..Len(f) : h[i] = f[i]
          /\ h[Len(f) + 1] = last
      BY <2>1, <2>3, AppendProperties
    <3>2. DOMAIN h = 1..Len(h) /\ h = [i \in 1..Len(h) |-> h[i]]
      BY <3>1
    <3> QED BY <3>1, <3>2
  <2>5. ReadTable(last) /\ last.table = "cli"
    BY DEF last, g, Table, ReadTable
  <2>6. \A i \in 1..(Len(f) + 1) : ReadTable(h[i])
    <3> TAKE i \in 1..(Len(f) + 1)
    <3>1. i \in 1..Len(f) \/ i = Len(f) + 1
      BY <2>2
    <3> QED BY <3>1, <2>2, <2>4, <2>5
  <2>7. Len(f) + 1 \in Nat
    BY <2>2
  <2>8. Toml(h)
    BY <2>4, <2>6, <2>7, TomlBuilt
  <2>9. DOMAIN f \subseteq DOMAIN h /\ \A i \in DOMAIN f : h[i] = f[i]
    BY <2>2, <2>4
  <2>10. \A i \in DOMAIN h \ DOMAIN f : h[i].table = "cli"
    <3> TAKE i \in DOMAIN h \ DOMAIN f
    <3>1. i = Len(f) + 1
      BY <2>2, <2>4
    <3> QED BY <3>1, <2>4, <2>5
  <2> QED BY <1>2, <2>8, <2>9, <2>10 DEF h
<1> QED BY <1>1, <1>2

LEMMA SkipToml ==
  ASSUME NEW f, Toml(f), NEW v
  PROVE  Toml(WithSkipped(f, v))
BY SkipWritten

\* What an edit of lstk's may do to a table of the user's.
LEMMA PutKeeps ==
  ASSUME NEW f, NEW h, NEW u, KeptFile(f, u), h # NoFile, DOMAIN f \subseteq DOMAIN h,
         \A i \in DOMAIN f :
           /\ h[i].table = f[i].table
           /\ \/ h[i].keys = f[i].keys
              \/ \E v : h[i].keys = Over(f[i].keys, [update_skipped_version |-> v])
              \/ f[i].table = "containers" /\ \E v : h[i].keys = Over(f[i].keys, [type |-> v])
  PROVE  KeptFile(h, u)
<1> SUFFICES ASSUME u \notin {NoFile, OldYaml}, NEW i \in DOMAIN u
             PROVE  i \in DOMAIN h /\ Kept(h[i], u[i])
  BY DEF KeptFile
<1>1. i \in DOMAIN f /\ Kept(f[i], u[i])
  BY DEF KeptFile
<1>2. CASE h[i].keys = f[i].keys
  BY <1>1, <1>2 DEF Kept
<1>3. CASE \E v : h[i].keys = Over(f[i].keys, [update_skipped_version |-> v])
  <2>1. PICK v : h[i].keys = Over(f[i].keys, [update_skipped_version |-> v])
    BY <1>3
  <2>2. /\ DOMAIN f[i].keys \subseteq DOMAIN h[i].keys
        /\ \A k \in DOMAIN f[i].keys : k # "update_skipped_version" => h[i].keys[k] = f[i].keys[k]
    BY <2>1 DEF Over
  <2> QED BY <1>1, <2>2 DEF Kept
<1>4. CASE f[i].table = "containers" /\ \E v : h[i].keys = Over(f[i].keys, [type |-> v])
  <2>1. PICK v : h[i].keys = Over(f[i].keys, [type |-> v])
    BY <1>4
  <2>2. /\ DOMAIN f[i].keys \subseteq DOMAIN h[i].keys
        /\ \A k \in DOMAIN f[i].keys : k # "type" => h[i].keys[k] = f[i].keys[k]
    BY <2>1 DEF Over
  <2> QED BY <1>1, <1>4, <2>2 DEF Kept
<1> QED BY <1>1, <1>2, <1>3, <1>4

LEMMA EditedKeeps ==
  ASSUME NEW p, NEW u, Toml(cfBuf[p]), KeptFile(cfBuf[p], u)
  PROVE  Toml(Edited(p)) /\ KeptFile(Edited(p), u)
<1> DEFINE f == cfBuf[p]
           h == Edited(p)
<1> HIDE DEF f, h
<1>1. CASE h = WithType(f, Asked(p))
  <2>1. /\ Toml(h) /\ DOMAIN f \subseteq DOMAIN h
        /\ \A i \in DOMAIN f :
             /\ h[i].table = f[i].table
             /\ h[i].keys = IF i \in TypeAt(f) THEN Over(f[i].keys, [type |-> Asked(p)]) ELSE f[i].keys
    BY <1>1, TypeWritten DEF f
  <2>2. \A i \in TypeAt(f) : f[i].table = "containers"
    BY DEF TypeAt
  <2>3. \A i \in DOMAIN f :
          /\ h[i].table = f[i].table
          /\ \/ h[i].keys = f[i].keys
             \/ f[i].table = "containers" /\ \E v : h[i].keys = Over(f[i].keys, [type |-> v])
    BY <2>1, <2>2, Zenon
  <2> QED BY <2>1, <2>3, PutKeeps, TomlShape DEF f, h
<1>2. CASE h = WithSkipped(f, "v2")
  <2>1. /\ Toml(h) /\ DOMAIN f \subseteq DOMAIN h
        /\ \A i \in DOMAIN f :
             /\ h[i].table = f[i].table
             /\ h[i].keys = IF i \in SkipTables(f) THEN Over(f[i].keys, [update_skipped_version |-> "v2"])
                            ELSE f[i].keys
    BY <1>2, SkipWritten DEF f
  <2> QED BY <2>1, PutKeeps, TomlShape DEF f, h
<1> QED BY <1>1, <1>2 DEF Edited, f, h

EditStages == {"truncate type", "write type", "truncate skip", "write skip"}
ConfigStages ==
  EditStages \cup {"load", "apply", "notify", "select", "create", "template", "load new", "read type",
                   "read skip", "reload", "start", "ports", "done"}

ConfigTypes ==
  /\ cfAt \in [ConfigProcs -> ConfigStages] /\ DOMAIN cfEnd = ConfigProcs
  /\ cfUsed \in [ConfigProcs -> Places \cup {""}] /\ cfFirst \in [ConfigProcs -> BOOLEAN]
  /\ cfMeddled \in [ConfigProcs -> BOOLEAN] /\ cfOverlap \in BOOLEAN
  /\ DOMAIN cfMem = ConfigProcs /\ DOMAIN cfBuf = ConfigProcs /\ DOMAIN cfPlan = ConfigProcs
  /\ DOMAIN cfFile = Places /\ DOMAIN cfUser = Places
  /\ \A d \in Places : cfFile[d] \in {NoFile, OldYaml} \/ Toml(cfFile[d])

\* Which stages a process reaches with a file of its own.
UsedInv ==
  \A p \in ConfigProcs : cfEnd[p] = "busy" =>
    /\ cfAt[p] \in {"load", "template", "load new"} => cfUsed[p] = ""
    /\ cfAt[p] \in EditStages \cup {"read type", "read skip", "reload"} => cfUsed[p] # ""
    /\ cfAt[p] = "apply" /\ ~cfFirst[p] => cfUsed[p] # ""

\* A process goes on only with a file lstk can read.
ReadableInv ==
  \A p \in ConfigProcs : cfEnd[p] = "busy" =>
    Toml(cfMem[p]) /\ (cfUsed[p] # "" => cfFile[cfUsed[p]] # OldYaml)

\* A file is created where there was none, so there the user has none either;
\* one process creates it.
CreationInv ==
  /\ \A d \in Places : cfFile[d] = NoFile => cfUser[d] = NoFile
  /\ \A p \in ConfigProcs : CfAt(p, "template") =>
       cfUser[ConfigCreationDir] = NoFile /\ cfFile[ConfigCreationDir] # NoFile
  /\ \A p, q \in ConfigProcs : CfAt(p, "template") /\ CfAt(q, "template") => p = q

\* What a process edits. Where edits neither overlap nor are cut short it is
\* the only one, and what it read has all the user wrote.
EditInv ==
  /\ \A p \in ConfigProcs : cfAt[p] \in EditStages /\ cfEnd[p] = "busy" => Toml(cfBuf[p])
  /\ \A p \in ConfigProcs : Editing(p) => cfAt[p] \in EditStages
  /\ ~cfOverlap => \A p \in ConfigProcs : Editing(p) =>
       /\ cfEnd[p] = "busy" /\ cfFile[cfUsed[p]] # NoFile
       /\ KeptFile(cfBuf[p], cfUser[cfUsed[p]])
       /\ \A q \in ConfigProcs : Editing(q) => q = p
       /\ \A q \in ConfigProcs : CfAt(q, "template") => cfUsed[p] # ConfigCreationDir

UserFilesInv ==
  /\ ConfigTypes /\ UsedInv /\ ReadableInv /\ CreationInv /\ EditInv /\ UserConfigKept

-----------------------------------------------------------------------------
LEMMA CreationDirIsPlace == ConfigCreationDir \in Places
BY DEF ConfigCreationDir, Places

LEMMA FoundFirst ==
  ASSUME Found # {}
  PROVE  FirstFound \in Places /\ cfFile[FirstFound] # NoFile
<1>1. DOMAIN SearchDirs = {1, 2, 3} /\ \A i \in DOMAIN SearchDirs : SearchDirs[i] \in Places
  BY DEF SearchDirs, Places
<1>2. Found \subseteq {1, 2, 3}
  BY <1>1 DEF Found
<1>3. \E i \in Found : \A j \in Found : i <= j
  <2>1. CASE 1 \in Found
    BY <1>2, <2>1
  <2>2. CASE 1 \notin Found /\ 2 \in Found
    BY <1>2, <2>2
  <2>3. CASE 1 \notin Found /\ 2 \notin Found
    <3>1. Found = {3}
      BY <1>2, <2>3
    <3> QED BY <3>1
  <2> QED BY <2>1, <2>2, <2>3
<1> DEFINE k == CHOOSE i \in Found : \A j \in Found : i <= j
<1>4. k \in Found
  BY <1>3
<1>5. FirstFound = SearchDirs[k]
  BY DEF FirstFound
<1> HIDE DEF k
<1> QED BY <1>1, <1>4, <1>5 DEF Found

LEMMA ConfigInitInv == ConfigInit => UserFilesInv
<1> SUFFICES ASSUME ConfigInit PROVE UserFilesInv
  OBVIOUS
<1>1. PICK w \in ConfigWorlds : cfFile = w.files /\ cfUser = w.files
  BY DEF ConfigInit
<1>2. DOMAIN cfFile = Places /\ DOMAIN cfUser = Places /\ cfUser = cfFile
  BY <1>1, ConfigConstants
<1>3. \A d \in Places : cfFile[d] \in {NoFile, OldYaml} \/ Toml(cfFile[d])
  BY <1>1, ConfigConstants
<1>4. ConfigTypes
  BY <1>2, <1>3 DEF ConfigInit, ConfigTypes, ConfigStages
<1>5. \A p \in ConfigProcs : /\ cfAt[p] = "load" /\ cfEnd[p] = "busy" /\ cfUsed[p] = ""
                            /\ cfBuf[p] = NoFile /\ cfMem[p] = Empty
  BY DEF ConfigInit
<1>6. UsedInv
  BY <1>5 DEF UsedInv, EditStages
<1>7. ReadableInv
  BY <1>5, TomlKnown DEF ReadableInv
<1>8. CreationInv
  BY <1>2, <1>5 DEF CreationInv, CfAt
<1>9. EditInv
  BY <1>5 DEF EditInv, EditStages, Editing
<1>10. UserConfigKept
  <2>1. ASSUME NEW d \in Places PROVE KeptFile(cfFile[d], cfUser[d])
    BY <1>2 DEF KeptFile, Kept
  <2> QED BY <2>1 DEF UserConfigKept
<1> QED BY <1>4, <1>6, <1>7, <1>8, <1>9, <1>10 DEF UserFilesInv

-----------------------------------------------------------------------------
\* A step of p's that touches no file and no edit.
QuietStep(p) ==
  /\ UNCHANGED <<cfWorld, cfFile, cfUser, cfBuf, cfOverlap>>
  /\ \A q \in ConfigProcs \ {p} : cfAt'[q] = cfAt[q] /\ cfEnd'[q] = cfEnd[q] /\ cfUsed'[q] = cfUsed[q]
  /\ cfAt[p] \notin EditStages /\ cfAt'[p] \notin EditStages \cup {"template"}

LEMMA QuietKeeps ==
  ASSUME UserFilesInv, NEW p \in ConfigProcs, QuietStep(p)
  PROVE  CreationInv' /\ EditInv' /\ UserConfigKept'
<1>0. ConfigCreationDir' = ConfigCreationDir /\ \A q \in ConfigProcs : Editing(q)' = Editing(q)
  BY DEF QuietStep, ConfigCreationDir, Editing
<1>1. ~Editing(p) /\ ~CfAt(p, "template")'
  BY DEF UserFilesInv, EditInv, QuietStep, CfAt
<1>2. \A q \in ConfigProcs : CfAt(q, "template")' => CfAt(q, "template")
  BY <1>1 DEF QuietStep, CfAt
<1>3. CreationInv'
  BY <1>0, <1>2 DEF QuietStep, UserFilesInv, CreationInv
<1>4. EditInv'
  <2>1. ASSUME NEW q \in ConfigProcs, cfAt'[q] \in EditStages, cfEnd'[q] = "busy" PROVE Toml(cfBuf[q])
    BY <2>1 DEF QuietStep, UserFilesInv, EditInv
  <2>2. ASSUME NEW q \in ConfigProcs, Editing(q) PROVE cfAt'[q] \in EditStages
    BY <1>1, <2>2 DEF QuietStep, UserFilesInv, EditInv
  <2>3. ASSUME ~cfOverlap, NEW q \in ConfigProcs, Editing(q)
        PROVE  /\ cfEnd'[q] = "busy" /\ cfFile[cfUsed'[q]] # NoFile
               /\ KeptFile(cfBuf[q], cfUser[cfUsed'[q]])
               /\ \A r \in ConfigProcs : Editing(r) => r = q
               /\ \A r \in ConfigProcs : CfAt(r, "template")' => cfUsed'[q] # ConfigCreationDir
    <3>1. q # p /\ cfEnd'[q] = cfEnd[q] /\ cfUsed'[q] = cfUsed[q]
      BY <1>1, <2>3 DEF QuietStep
    <3> QED BY <1>2, <2>3, <3>1 DEF UserFilesInv, EditInv
  <2>4. UNCHANGED <<cfFile, cfUser, cfBuf, cfOverlap>>
    BY DEF QuietStep
  <2> QED BY <1>0, <2>1, <2>2, <2>3, <2>4 DEF EditInv, KeptFile
<1>5. UserConfigKept'
  <2>1. \A d \in Places : Settled(d)' => Settled(d)
    BY <1>0, <1>1 DEF QuietStep, Settled
  <2> QED BY <2>1 DEF QuietStep, UserFilesInv, UserConfigKept, KeptFile
<1> QED BY <1>3, <1>4, <1>5

LEMMA LoadedKeeps ==
  ASSUME UserFilesInv, NEW p \in ConfigProcs, NEW d \in Places, NEW at \in ConfigStages,
         cfFile[d] # NoFile, Loaded(p, d, at), cfAt[p] \in {"load", "create", "load new", "reload"},
         at \notin EditStages \cup {"load", "template", "load new"},
         UNCHANGED <<cfWorld, cfFirst, cfOverlap, CfFiles>>
  PROVE  UserFilesInv'
<1>0. d # ""
  BY DEF Places
<1>1. /\ cfUsed' = [cfUsed EXCEPT ![p] = d] /\ cfMem' = [cfMem EXCEPT ![p] = cfFile[d]]
      /\ cfBuf' = cfBuf /\ cfPlan' = cfPlan
      /\ cfFile' = cfFile /\ cfUser' = cfUser /\ cfMeddled' = cfMeddled
  BY DEF Loaded, CfFiles
<1>2. \/ cfFile[d] # OldYaml /\ cfAt' = [cfAt EXCEPT ![p] = at] /\ cfEnd' = cfEnd
      \/ cfAt' = cfAt /\ cfEnd' = [cfEnd EXCEPT ![p] = "invalid config"]
  BY DEF Loaded, CfGo, CfStop
<1>3. QuietStep(p)
  BY <1>1, <1>2 DEF QuietStep, UserFilesInv, ConfigTypes, EditStages
<1>4. ConfigTypes'
  BY <1>1, <1>2 DEF UserFilesInv, ConfigTypes
<1>5. UsedInv' /\ ReadableInv'
  <2>1. CASE cfFile[d] # OldYaml /\ cfAt' = [cfAt EXCEPT ![p] = at] /\ cfEnd' = cfEnd
    <3>1. Toml(cfFile[d])
      BY <2>1 DEF UserFilesInv, ConfigTypes
    <3>2. UsedInv'
      BY <1>0, <1>1, <2>1 DEF UserFilesInv, UsedInv, ConfigTypes
    <3>3. ReadableInv'
      BY <1>1, <2>1, <3>1 DEF UserFilesInv, ReadableInv, ConfigTypes
    <3> QED BY <3>2, <3>3
  <2>2. CASE cfAt' = cfAt /\ cfEnd' = [cfEnd EXCEPT ![p] = "invalid config"]
    BY <1>1, <2>2 DEF UserFilesInv, UsedInv, ReadableInv, ConfigTypes
  <2> QED BY <1>2, <2>1, <2>2
<1> QED BY <1>3, <1>4, <1>5, QuietKeeps DEF UserFilesInv

\* A step of p's that only decides how it goes on.
LEMMA DecidedKeeps ==
  ASSUME UserFilesInv, NEW p \in ConfigProcs, QuietStep(p), ConfigTypes',
         cfUsed' = cfUsed, cfMem' = cfMem \/ cfMem' = [cfMem EXCEPT ![p] = WithSkipped(@, "v2")],
         cfFirst' = cfFirst \/ (cfAt[p] = "load" /\ cfFirst' = [cfFirst EXCEPT ![p] = TRUE]),
         cfEnd'[p] = "busy" =>
           /\ cfEnd[p] = "busy"
           /\ cfAt'[p] \notin {"load", "template", "load new"}
           /\ cfAt'[p] \in {"read type", "read skip", "reload"} => cfUsed[p] # ""
           /\ cfAt'[p] = "apply" => cfFirst'[p]
  PROVE  UserFilesInv'
<1>1. \A q \in ConfigProcs \ {p} : cfAt'[q] = cfAt[q] /\ cfEnd'[q] = cfEnd[q] /\ cfFirst'[q] = cfFirst[q]
  BY DEF QuietStep, UserFilesInv, ConfigTypes
<1>2. UsedInv'
  <2> SUFFICES ASSUME NEW q \in ConfigProcs, cfEnd'[q] = "busy"
               PROVE  /\ cfAt'[q] \in {"load", "template", "load new"} => cfUsed[q] = ""
                      /\ cfAt'[q] \in EditStages \cup {"read type", "read skip", "reload"} => cfUsed[q] # ""
                      /\ cfAt'[q] = "apply" /\ ~cfFirst'[q] => cfUsed[q] # ""
    BY DEF UsedInv
  <2>1. CASE q = p
    BY <2>1 DEF QuietStep
  <2>2. CASE q # p
    BY <1>1, <2>2 DEF UserFilesInv, UsedInv
  <2> QED BY <2>1, <2>2
<1>3. ASSUME NEW q \in ConfigProcs, cfEnd[q] = "busy" PROVE Toml(cfMem'[q])
  <2>1. Toml(cfMem[q]) /\ Toml(WithSkipped(cfMem[q], "v2"))
    <3>1. Toml(cfMem[q])
      BY <1>3 DEF UserFilesInv, ReadableInv
    <3> QED BY <3>1, SkipToml
  <2>2. cfMem'[q] = cfMem[q] \/ cfMem'[q] = WithSkipped(cfMem[q], "v2")
    <3>1. CASE cfMem' = cfMem
      BY <3>1
    <3>2. CASE cfMem' = [cfMem EXCEPT ![p] = WithSkipped(@, "v2")] /\ q = p
      BY <3>2 DEF UserFilesInv, ConfigTypes
    <3>3. CASE cfMem' = [cfMem EXCEPT ![p] = WithSkipped(@, "v2")] /\ q # p
      BY <3>3 DEF UserFilesInv, ConfigTypes
    <3> QED BY <3>1, <3>2, <3>3
  <2> QED BY <2>1, <2>2
<1>4. ReadableInv'
  BY <1>1, <1>3 DEF QuietStep, UserFilesInv, ReadableInv
<1> QED BY <1>2, <1>4, QuietKeeps DEF UserFilesInv

LEMMA AfterLoadStage ==
  ASSUME NEW p
  PROVE  AfterLoad(p) \in {"apply", "notify", "start"}
BY DEF AfterLoad

LEMMA LoadsKeep ==
  ASSUME UserFilesInv, NEW p \in ConfigProcs, InitFromPath(p) \/ LoadFound(p) \/ LoadNone(p) \/ LoadNew(p) \/ Reload(p)
  PROVE  UserFilesInv'
<1> USE DEF CfFrame
<1>0. "flag" \in Places
  BY DEF Places
<1>1. AfterLoad(p) \in ConfigStages /\ AfterLoad(p) \notin EditStages \cup {"load", "template", "load new"}
  BY AfterLoadStage DEF ConfigStages, EditStages
<1>2. CASE InitFromPath(p) /\ cfFile["flag"] # NoFile
  <2>1. Loaded(p, "flag", AfterLoad(p)) /\ cfAt[p] = "load" /\ UNCHANGED <<cfWorld, cfFirst, cfOverlap, CfFiles>>
    BY <1>2 DEF InitFromPath, CfAt
  <2> QED BY <1>0, <1>1, <1>2, <2>1, LoadedKeeps
<1>3. CASE InitFromPath(p) /\ cfFile["flag"] = NoFile
  <2>1. /\ cfAt[p] = "load" /\ cfAt' = cfAt /\ cfEnd' = [cfEnd EXCEPT ![p] = "no file"]
        /\ UNCHANGED <<cfWorld, cfFirst, cfOverlap, cfFile, cfMeddled, cfUser, cfUsed, cfMem, cfBuf, cfPlan>>
    BY <1>3 DEF InitFromPath, CfAt, CfStop, CfFiles
  <2>2. QuietStep(p) /\ ConfigTypes' /\ cfEnd'[p] # "busy"
    BY <2>1 DEF QuietStep, UserFilesInv, ConfigTypes, EditStages
  <2> QED BY <2>1, <2>2, DecidedKeeps
<1>4. CASE LoadFound(p)
  <2>1. /\ Loaded(p, FirstFound, AfterLoad(p)) /\ cfAt[p] = "load"
        /\ UNCHANGED <<cfWorld, cfFirst, cfOverlap, CfFiles>> /\ Found # {}
    BY <1>4 DEF LoadFound, CfAt
  <2> QED BY <1>1, <2>1, FoundFirst, LoadedKeeps
<1>5. CASE LoadNone(p)
  <2>1. /\ cfAt[p] = "load" /\ cfAt' = [cfAt EXCEPT ![p] = AfterLoad(p)] /\ cfEnd' = cfEnd /\ cfEnd[p] = "busy"
        /\ cfFirst' = [cfFirst EXCEPT ![p] = TRUE]
        /\ UNCHANGED <<cfWorld, cfOverlap, cfFile, cfMeddled, cfUser, cfUsed, cfMem, cfBuf, cfPlan>>
    BY <1>5 DEF LoadNone, CfAt, CfGo, CfFiles
  <2>2. QuietStep(p) /\ ConfigTypes'
    BY <1>1, <2>1 DEF QuietStep, UserFilesInv, ConfigTypes, EditStages
  <2>3. cfAt'[p] = AfterLoad(p) /\ cfFirst'[p]
    BY <2>1 DEF UserFilesInv, ConfigTypes
  <2> QED BY <2>1, <2>2, <2>3, AfterLoadStage, DecidedKeeps
<1>6. CASE LoadNew(p) \/ Reload(p)
  <2> DEFINE d == IF cfAt[p] = "reload" THEN cfUsed[p] ELSE ConfigCreationDir
             at == IF cfAt[p] = "reload"
                   THEN IF cfReq[p].interactive /\ cfReq[p].type # "" THEN "notify" ELSE "start"
                   ELSE IF Chooses(p) THEN "read type" ELSE "done"
  <2>1. /\ cfAt[p] \in {"load new", "reload"} /\ cfEnd[p] = "busy"
        /\ UNCHANGED <<cfWorld, cfFirst, cfOverlap, CfFiles>>
        /\ IF cfFile[d] = NoFile THEN CfStop(p, "no file") /\ UNCHANGED <<cfUsed, cfMem, cfBuf, cfPlan>>
           ELSE Loaded(p, d, at)
    BY <1>6 DEF LoadNew, Reload, CfAt
  <2>2. d \in Places
    BY <2>1, CreationDirIsPlace DEF UserFilesInv, UsedInv, ConfigTypes
  <2>3. at \in ConfigStages /\ at \notin EditStages \cup {"load", "template", "load new"}
    BY DEF ConfigStages, EditStages
  <2> HIDE DEF d, at
  <2>4. CASE cfFile[d] # NoFile
    BY <2>1, <2>2, <2>3, <2>4, LoadedKeeps
  <2>5. CASE cfFile[d] = NoFile
    <3>1. /\ cfAt' = cfAt /\ cfEnd' = [cfEnd EXCEPT ![p] = "no file"]
          /\ UNCHANGED <<cfWorld, cfFirst, cfOverlap, cfFile, cfMeddled, cfUser, cfUsed, cfMem, cfBuf, cfPlan>>
      BY <2>1, <2>5 DEF CfStop, CfFiles
    <3>2. QuietStep(p) /\ ConfigTypes' /\ cfEnd'[p] # "busy"
      BY <2>1, <3>1 DEF QuietStep, UserFilesInv, ConfigTypes, EditStages
    <3> QED BY <3>1, <3>2, DecidedKeeps
  <2> QED BY <2>4, <2>5
<1> QED BY <1>2, <1>3, <1>4, <1>5, <1>6

\* The two ways a step of p's ends.
Stops(p) == cfAt' = cfAt /\ cfEnd' = [cfEnd EXCEPT ![p] = cfEnd'[p]] /\ cfEnd'[p] # "busy"
GoesTo(p, at) == cfEnd' = cfEnd /\ cfAt' = [cfAt EXCEPT ![p] = at] /\ cfAt'[p] = at

LEMMA StopStops ==
  ASSUME ConfigTypes, NEW p \in ConfigProcs, NEW why, why # "busy", CfStop(p, why)
  PROVE  Stops(p)
BY DEF ConfigTypes, CfStop, Stops

LEMMA GoGoes ==
  ASSUME ConfigTypes, NEW p \in ConfigProcs, NEW at, CfGo(p, at)
  PROVE  GoesTo(p, at)
BY DEF ConfigTypes, CfGo, GoesTo

Decisions == {"notify", "start", "create", "ports", "done", "read type", "read skip", "select"}

LEMMA DecisionsKeep ==
  ASSUME UserFilesInv, NEW p \in ConfigProcs,
         \/ ApplyEmulatorType(p) \/ NotifyUpdate(p) \/ SelectEmulator(p) \/ StartPlanned(p) \/ ConfigDone(p)
         \/ \E busy \in SUBSET {443, 53} : PublishPorts(p, busy)
  PROVE  UserFilesInv'
<1>0. ConfigTypes
  BY DEF UserFilesInv
<1>1. /\ cfAt[p] \in {"apply", "notify", "select", "start", "ports", "done"} /\ cfEnd[p] = "busy"
      /\ UNCHANGED <<cfWorld, cfFile, cfUser, cfBuf, cfOverlap, cfMeddled, cfUsed, cfFirst>>
  BY DEF ApplyEmulatorType, NotifyUpdate, SelectEmulator, StartPlanned, ConfigDone, PublishPorts,
    CfAt, CfFrame, CfFiles, CfLocals
<1>2. cfMem' = cfMem \/ cfMem' = [cfMem EXCEPT ![p] = WithSkipped(@, "v2")]
  BY DEF ApplyEmulatorType, NotifyUpdate, SelectEmulator, StartPlanned, ConfigDone, PublishPorts, CfLocals
<1>3. DOMAIN cfPlan' = ConfigProcs
  BY DEF ApplyEmulatorType, NotifyUpdate, SelectEmulator, StartPlanned, ConfigDone, PublishPorts, CfLocals,
    UserFilesInv, ConfigTypes
<1>4. ASSUME Stops(p) PROVE UserFilesInv'
  <2>1. QuietStep(p) /\ cfEnd'[p] # "busy"
    BY <1>1, <1>4 DEF QuietStep, Stops, EditStages, UserFilesInv, ConfigTypes
  <2>2. ConfigTypes'
    BY <1>1, <1>2, <1>3, <1>4 DEF Stops, UserFilesInv, ConfigTypes
  <2> QED BY <1>1, <1>2, <2>1, <2>2, DecidedKeeps
<1>5. ASSUME NEW at \in Decisions, at \in {"read type", "read skip"} => cfUsed[p] # "", GoesTo(p, at)
      PROVE  UserFilesInv'
  <2>1. QuietStep(p)
    BY <1>1, <1>5 DEF QuietStep, GoesTo, Decisions, EditStages, UserFilesInv, ConfigTypes
  <2>2. at \in ConfigStages /\ at \notin {"load", "template", "load new", "reload", "apply"}
    BY DEF Decisions, ConfigStages
  <2>3. cfAt' \in [ConfigProcs -> ConfigStages] /\ cfEnd' = cfEnd /\ cfAt'[p] = at
    BY <1>0, <1>5, <2>2 DEF GoesTo, ConfigTypes
  <2>4. ConfigTypes'
    BY <1>0, <1>1, <1>2, <1>3, <2>3 DEF ConfigTypes
  <2> QED BY <1>1, <1>2, <1>5, <2>1, <2>2, <2>3, <2>4, DecidedKeeps
<1>6. ASSUME NEW why, why # "busy", CfStop(p, why) PROVE UserFilesInv'
  BY <1>0, <1>4, <1>6, StopStops
<1>7. ASSUME NEW at \in Decisions, at \in {"read type", "read skip"} => cfUsed[p] # "", CfGo(p, at)
      PROVE  UserFilesInv'
  BY <1>0, <1>5, <1>7, GoGoes
<1>8. "notify" \in Decisions /\ "start" \in Decisions /\ "create" \in Decisions /\ "ports" \in Decisions
      /\ "done" \in Decisions /\ "read type" \in Decisions /\ "read skip" \in Decisions /\ "select" \in Decisions
  BY DEF Decisions
<1>9. CASE ApplyEmulatorType(p)
  <2>1. ~cfFirst[p] => cfUsed[p] # ""
    BY <1>1, <1>9 DEF ApplyEmulatorType, CfAt, UserFilesInv, UsedInv
  <2>2. \/ CfStop(p, "conflict") \/ CfStop(p, "several blocks") \/ CfStop(p, "custom image")
        \/ CfGo(p, "create") \/ CfGo(p, "notify") \/ CfGo(p, "start")
        \/ ~cfFirst[p] /\ CfGo(p, "read type")
    BY <1>9 DEF ApplyEmulatorType
  <2>3. CASE CfStop(p, "conflict") \/ CfStop(p, "several blocks") \/ CfStop(p, "custom image")
    BY <1>6, <2>3
  <2>4. CASE CfGo(p, "create") \/ CfGo(p, "notify") \/ CfGo(p, "start")
    BY <1>7, <1>8, <2>4
  <2>5. CASE cfUsed[p] # "" /\ CfGo(p, "read type")
    BY <1>7, <1>8, <2>5
  <2> QED BY <2>1, <2>2, <2>3, <2>4, <2>5
<1>10. CASE NotifyUpdate(p)
  <2>1. CASE cfUsed[p] # "" /\ CfGo(p, "read skip")
    BY <1>7, <1>8, <2>1
  <2>2. CASE CfGo(p, "select") \/ CfGo(p, "start")
    BY <1>7, <1>8, <2>2
  <2> QED BY <1>10, <2>1, <2>2 DEF NotifyUpdate
<1>11. CASE SelectEmulator(p)
  BY <1>6, <1>7, <1>8, <1>11 DEF SelectEmulator
<1>12. CASE StartPlanned(p)
  <2>1. CfStop(p, "unsupported") \/ CfGo(p, "ports")
    BY <1>12 DEF StartPlanned
  <2> QED BY <1>6, <1>7, <1>8, <2>1
<1>13. CASE ConfigDone(p)
  BY <1>6, <1>13 DEF ConfigDone
<1>14. ASSUME NEW busy \in SUBSET {443, 53}, PublishPorts(p, busy) PROVE UserFilesInv'
  <2>1. CfStop(p, "port in use") \/ CfGo(p, "create") \/ CfGo(p, "done")
    BY <1>14 DEF PublishPorts
  <2> QED BY <1>6, <1>7, <1>8, <2>1
<1> QED BY <1>9, <1>10, <1>11, <1>12, <1>13, <1>14

LEMMA EditsRead ==
  ASSUME UserFilesInv, NEW p \in ConfigProcs, ReadToEdit(p)
  PROVE  UserFilesInv'
<1>0. /\ cfAt[p] \in {"read type", "read skip"} /\ cfEnd[p] = "busy"
      /\ UNCHANGED <<cfWorld, cfUsed, cfFirst, cfMem, cfPlan, cfFile, cfMeddled, cfUser>>
  BY DEF ReadToEdit, CfAt, CfFiles, CfFrame
<1>1. ConfigTypes /\ cfUsed[p] \in Places /\ cfFile[cfUsed[p]] # OldYaml
  BY <1>0 DEF UserFilesInv, ConfigTypes, UsedInv, ReadableInv
<1>2. CASE cfBuf' = cfBuf /\ cfOverlap' = cfOverlap /\ (Stops(p) \/ GoesTo(p, "start") \/ GoesTo(p, "notify"))
  <2>1. QuietStep(p) /\ (cfEnd'[p] = "busy" => cfAt'[p] \in {"start", "notify"})
    BY <1>0, <1>1, <1>2 DEF QuietStep, Stops, GoesTo, EditStages, ConfigTypes
  <2>2. cfAt' \in [ConfigProcs -> ConfigStages] /\ DOMAIN cfEnd' = ConfigProcs
    BY <1>1, <1>2 DEF ConfigTypes, Stops, GoesTo, ConfigStages
  <2>3. ConfigTypes'
    BY <1>0, <1>1, <1>2, <2>2 DEF ConfigTypes
  <2> QED BY <1>0, <2>1, <2>3, DecidedKeeps
<1>3. ASSUME cfFile[cfUsed[p]] # NoFile, cfBuf' = [cfBuf EXCEPT ![p] = cfFile[cfUsed[p]]],
             NEW at \in {"truncate type", "truncate skip"}, GoesTo(p, at),
             cfOverlap' = (cfOverlap \/ \E q \in ConfigProcs \ {p} : Editing(q) \/ CfAt(q, "template"))
      PROVE  UserFilesInv'
  <2>1. Toml(cfFile[cfUsed[p]])
    BY <1>1, <1>3 DEF ConfigTypes
  <2>2. /\ cfBuf'[p] = cfFile[cfUsed[p]] /\ cfAt'[p] = at /\ cfEnd' = cfEnd
        /\ \A q \in ConfigProcs \ {p} : cfBuf'[q] = cfBuf[q] /\ cfAt'[q] = cfAt[q]
    BY <1>1, <1>3 DEF GoesTo, ConfigTypes
  <2>3. ConfigTypes'
    BY <1>0, <1>1, <1>3 DEF ConfigTypes, GoesTo, ConfigStages, EditStages
  <2>4. UsedInv'
    BY <1>0, <1>1, <2>2 DEF UserFilesInv, UsedInv, Places
  <2>5. ReadableInv'
    BY <1>0, <2>2 DEF UserFilesInv, ReadableInv
  <2>6. CreationInv'
    <3>1. \A q \in ConfigProcs : CfAt(q, "template")' => CfAt(q, "template")
      BY <2>2 DEF CfAt
    <3> QED BY <1>0, <3>1 DEF UserFilesInv, CreationInv, ConfigCreationDir
  <2>7. EditInv'
    <3>1. \A q \in ConfigProcs : cfAt'[q] \in EditStages /\ cfEnd'[q] = "busy" => Toml(cfBuf'[q])
      BY <2>1, <2>2 DEF UserFilesInv, EditInv
    <3>2. \A q \in ConfigProcs : Editing(q)' => cfAt'[q] \in EditStages
      BY <2>2 DEF UserFilesInv, EditInv, Editing, EditStages
    <3>3. ASSUME ~cfOverlap' PROVE ~cfOverlap /\ \A q \in ConfigProcs \ {p} : ~Editing(q) /\ ~CfAt(q, "template")
      BY <1>3, <3>3 DEF UserFilesInv, ConfigTypes
    <3>4. ASSUME ~cfOverlap' PROVE KeptFile(cfFile[cfUsed[p]], cfUser[cfUsed[p]])
      <4>1. ~Editing(p)
        BY <1>0 DEF UserFilesInv, EditInv, EditStages
      <4>2. Settled(cfUsed[p])
        BY <3>3, <3>4, <4>1 DEF Settled
      <4> QED BY <1>1, <3>3, <3>4, <4>2 DEF UserFilesInv, UserConfigKept
    <3>5. ASSUME ~cfOverlap', NEW q \in ConfigProcs, Editing(q)'
          PROVE  /\ cfEnd'[q] = "busy" /\ cfFile'[cfUsed'[q]] # NoFile
                 /\ KeptFile(cfBuf'[q], cfUser'[cfUsed'[q]])
                 /\ \A r \in ConfigProcs : Editing(r)' => r = q
                 /\ \A r \in ConfigProcs : CfAt(r, "template")' => cfUsed'[q] # ConfigCreationDir'
      <4>1. \A r \in ConfigProcs \ {p} : ~Editing(r)' /\ ~CfAt(r, "template")'
        BY <2>2, <3>3, <3>5 DEF Editing, CfAt
      <4>2. q = p /\ ~CfAt(p, "template")'
        BY <3>5, <4>1, <2>2 DEF CfAt
      <4> QED BY <1>0, <1>3, <2>2, <3>4, <3>5, <4>1, <4>2
    <3> QED BY <3>1, <3>2, <3>5 DEF EditInv
  <2>8. UserConfigKept'
    <3>1. ASSUME NEW d \in Places, Settled(d)', ~cfOverlap' PROVE KeptFile(cfFile[d], cfUser[d])
      <4>1. ~cfOverlap /\ \A q \in ConfigProcs \ {p} : ~Editing(q)
        BY <1>3, <3>1 DEF UserFilesInv, ConfigTypes
      <4>2. ~Editing(p)
        BY <1>0 DEF UserFilesInv, EditInv, EditStages
      <4> QED BY <3>1, <4>1, <4>2 DEF UserFilesInv, UserConfigKept, Settled
    <3> QED BY <1>0, <3>1 DEF UserConfigKept
  <2> QED BY <2>3, <2>4, <2>5, <2>6, <2>7, <2>8 DEF UserFilesInv
<1> DEFINE f == cfFile[cfUsed[p]]
           type == cfAt[p] = "read type"
<1>4. CASE f = NoFile \/ (type /\ (\A i \in TypeAt(f) : "type" \notin DOMAIN f[i].keys))
  <2>1. cfBuf' = cfBuf /\ cfOverlap' = cfOverlap /\ (CfStop(p, "no type field") \/ CfGo(p, "start"))
    BY <1>4 DEF ReadToEdit
  <2> QED BY <1>1, <1>2, <2>1, StopStops, GoGoes
<1>5. CASE ~(f = NoFile \/ (type /\ (\A i \in TypeAt(f) : "type" \notin DOMAIN f[i].keys)))
  <2>1. CASE type /\ WithType(f, Asked(p)) = f
    <3>1. cfBuf' = cfBuf /\ cfOverlap' = cfOverlap /\ (CfGo(p, "notify") \/ CfGo(p, "start"))
      BY <1>5, <2>1 DEF ReadToEdit
    <3> QED BY <1>1, <1>2, <3>1, GoGoes
  <2>2. CASE ~(type /\ WithType(f, Asked(p)) = f)
    <3>1. /\ f # NoFile /\ cfBuf' = [cfBuf EXCEPT ![p] = f]
          /\ CfGo(p, IF type THEN "truncate type" ELSE "truncate skip")
          /\ cfOverlap' = (cfOverlap \/ \E q \in ConfigProcs \ {p} : Editing(q) \/ CfAt(q, "template"))
      BY <1>5, <2>2 DEF ReadToEdit
    <3> QED BY <1>1, <1>3, <3>1, GoGoes
  <2> QED BY <2>1, <2>2
<1> QED BY <1>4, <1>5

LEMMA CreationKeeps ==
  ASSUME UserFilesInv, NEW p \in ConfigProcs, EnsureCreated(p)
  PROVE  UserFilesInv'
<1> DEFINE d == ConfigCreationDir
           next == IF Chooses(p) THEN "read type" ELSE "done"
<1>0. /\ cfAt[p] = "create" /\ cfEnd[p] = "busy" /\ d \in Places /\ ConfigTypes
      /\ UNCHANGED <<cfWorld, cfFirst, cfOverlap>>
  BY CreationDirIsPlace DEF EnsureCreated, CfAt, CfFrame, UserFilesInv
<1>1. next \in ConfigStages /\ next \notin EditStages \cup {"load", "template", "load new", "reload", "apply"}
  BY DEF ConfigStages, EditStages
<1>2. CASE cfUsed[p] # ""
  <2>1. CfGo(p, next) /\ UNCHANGED <<cfUsed, cfMem, cfBuf, cfPlan, CfFiles>>
    BY <1>2 DEF EnsureCreated
  <2>2. GoesTo(p, next)
    BY <1>0, <2>1, GoGoes
  <2>3. QuietStep(p) /\ ConfigTypes'
    BY <1>0, <1>1, <2>1, <2>2 DEF QuietStep, GoesTo, ConfigTypes, CfFiles, EditStages
  <2> QED BY <1>0, <1>1, <1>2, <2>1, <2>2, <2>3, DecidedKeeps DEF GoesTo
<1>3. CASE cfUsed[p] = "" /\ ~MayCreateFile(d)
  <2>1. Loaded(p, d, next) /\ UNCHANGED CfFiles /\ cfFile[d] # NoFile
    BY <1>3 DEF EnsureCreated, MayCreateFile
  <2> QED BY <1>0, <1>1, <2>1, LoadedKeeps
<1>4. CASE cfUsed[p] = "" /\ MayCreateFile(d)
  <2>1. /\ WriteFile(p, d, Empty) /\ CfGo(p, "template") /\ UNCHANGED <<cfUsed, cfMem, cfBuf, cfPlan>>
        /\ cfFile[d] = NoFile
    BY <1>4 DEF EnsureCreated, MayCreateFile
  <2> HIDE DEF d
  <2>2. GoesTo(p, "template")
    BY <1>0, <2>1, GoGoes
  <2>3. /\ cfFile' = [cfFile EXCEPT ![d] = Empty] /\ cfUser' = cfUser
        /\ cfMeddled' \in [ConfigProcs -> BOOLEAN] /\ cfFile'[d] = Empty
    BY <1>0, <2>1 DEF WriteFile, ConfigTypes, CfAt
  <2>4. /\ Toml(Empty) /\ Empty # NoFile /\ Empty # OldYaml
    BY TomlKnown, TomlShape
  <2>5. ConfigTypes'
    BY <1>0, <2>1, <2>2, <2>3, <2>4 DEF ConfigTypes, GoesTo, ConfigStages
  <2>6. UsedInv'
    BY <1>0, <1>4, <2>1, <2>2 DEF UserFilesInv, UsedInv, GoesTo, ConfigTypes, EditStages
  <2>7. ReadableInv'
    BY <1>0, <2>1, <2>2, <2>3, <2>4 DEF UserFilesInv, ReadableInv, GoesTo, ConfigTypes
  <2>8. ConfigCreationDir' = d /\ cfUser[d] = NoFile /\ ConfigCreationDir = d
    BY <1>0, <2>1 DEF d, UserFilesInv, CreationInv, ConfigCreationDir
  <2>9. \A q \in ConfigProcs : ~CfAt(q, "template")
    BY <2>1, <2>8 DEF UserFilesInv, CreationInv
  <2>10. \A q \in ConfigProcs : CfAt(q, "template")' => q = p
    BY <2>2, <2>9 DEF CfAt, GoesTo, ConfigTypes
  <2>11. CreationInv'
    BY <1>0, <2>3, <2>4, <2>8, <2>10 DEF UserFilesInv, CreationInv, ConfigTypes
  <2>12. ~Editing(p) /\ \A q \in ConfigProcs : Editing(q)' = Editing(q)
    BY <1>0, <2>1 DEF UserFilesInv, EditInv, EditStages, Editing
  <2>13. EditInv'
    <3>1. \A q \in ConfigProcs : cfAt'[q] \in EditStages /\ cfEnd'[q] = "busy" => Toml(cfBuf'[q])
      BY <2>1, <2>2 DEF UserFilesInv, EditInv, GoesTo, ConfigTypes, EditStages
    <3>2. \A q \in ConfigProcs : Editing(q)' => cfAt'[q] \in EditStages
      BY <2>2, <2>12 DEF UserFilesInv, EditInv, GoesTo, ConfigTypes
    <3>3. ASSUME ~cfOverlap', NEW q \in ConfigProcs, Editing(q)'
          PROVE  /\ cfEnd'[q] = "busy" /\ cfFile'[cfUsed'[q]] # NoFile
                 /\ KeptFile(cfBuf'[q], cfUser'[cfUsed'[q]])
                 /\ \A r \in ConfigProcs : Editing(r)' => r = q
                 /\ \A r \in ConfigProcs : CfAt(r, "template")' => cfUsed'[q] # ConfigCreationDir'
      <4>1. ~cfOverlap /\ Editing(q)
        BY <1>0, <2>12, <3>3
      <4>2. /\ cfEnd[q] = "busy" /\ cfFile[cfUsed[q]] # NoFile
            /\ KeptFile(cfBuf[q], cfUser[cfUsed[q]])
            /\ \A r \in ConfigProcs : Editing(r) => r = q
        BY <4>1 DEF UserFilesInv, EditInv
      <4>3. cfUsed[q] # d
        BY <4>2, <2>1
      <4>4. cfEnd' = cfEnd
        BY <2>2 DEF GoesTo
      <4>5. cfFile'[cfUsed[q]] # NoFile
        BY <4>2, <4>3, <2>3
      <4>6. \A r \in ConfigProcs : Editing(r)' => r = q
        BY <4>2, <2>12
      <4> QED BY <2>1, <2>3, <2>8, <4>2, <4>3, <4>4, <4>5, <4>6
    <3> QED BY <3>1, <3>2, <3>3 DEF EditInv
  <2>14. UserConfigKept'
    <3>1. ASSUME NEW e \in Places, Settled(e)', ~cfOverlap' PROVE KeptFile(cfFile'[e], cfUser[e])
      <4>1. Settled(e)
        BY <3>1, <2>1, <2>12 DEF Settled
      <4>2. CASE e = d
        BY <2>8, <4>2 DEF KeptFile
      <4>3. CASE e # d
        BY <1>0, <2>3, <3>1, <4>1, <4>3 DEF UserFilesInv, UserConfigKept
      <4> QED BY <4>2, <4>3
    <3> QED BY <2>3, <3>1 DEF UserConfigKept
  <2> QED BY <2>5, <2>6, <2>7, <2>11, <2>13, <2>14 DEF UserFilesInv
<1> QED BY <1>2, <1>3, <1>4

LEMMA TemplateKeeps ==
  ASSUME UserFilesInv, NEW p \in ConfigProcs, WriteTemplate(p)
  PROVE  UserFilesInv'
<1> DEFINE d == ConfigCreationDir
<1>0. /\ cfAt[p] = "template" /\ cfEnd[p] = "busy" /\ CfAt(p, "template") /\ d \in Places /\ ConfigTypes
      /\ UNCHANGED <<cfWorld, cfOverlap, cfUsed, cfFirst, cfMem, cfBuf, cfPlan>>
  BY CreationDirIsPlace DEF WriteTemplate, CfAt, CfFrame, CfLocals, UserFilesInv
<1>1. PICK f \in {DefaultTemplate, NoFile} : /\ WriteFile(p, d, f)
                                             /\ Stops(p) \/ GoesTo(p, "load new")
  <2>1. CASE WriteFile(p, d, DefaultTemplate) /\ CfGo(p, "load new")
    BY <1>0, <2>1, GoGoes
  <2>2. CASE WriteFile(p, d, NoFile) /\ CfStop(p, "cannot create")
    BY <1>0, <2>2, StopStops
  <2> QED BY <2>1, <2>2 DEF WriteTemplate
<1> HIDE DEF d
<1>2. /\ cfFile' = [cfFile EXCEPT ![d] = f] /\ cfUser' = cfUser /\ cfFile'[d] = f
      /\ cfMeddled' \in [ConfigProcs -> BOOLEAN]
  BY <1>0, <1>1 DEF WriteFile, ConfigTypes, CfAt
<1>3. (f = NoFile \/ Toml(f)) /\ f # OldYaml /\ NoFile # OldYaml
  <2>1. NoFile # OldYaml
    <3>1. <<[table |-> "no file"]>>[1].table # <<[table |-> "old yaml"]>>[1].table
      OBVIOUS
    <3> QED BY <3>1 DEF NoFile, OldYaml
  <2> QED BY <2>1, TomlKnown, TomlShape
<1>4. /\ cfAt'[p] # "template" \/ cfEnd'[p] # "busy"
      /\ cfAt' \in [ConfigProcs -> ConfigStages] /\ DOMAIN cfEnd' = ConfigProcs
      /\ \A q \in ConfigProcs \ {p} : cfAt'[q] = cfAt[q] /\ cfEnd'[q] = cfEnd[q]
      /\ cfEnd'[p] = "busy" => cfAt'[p] = "load new"
      /\ cfAt'[p] \notin EditStages
  BY <1>0, <1>1 DEF Stops, GoesTo, ConfigTypes, ConfigStages, EditStages
<1>5. ConfigTypes'
  BY <1>0, <1>2, <1>3, <1>4 DEF ConfigTypes
<1>6. UsedInv'
  BY <1>0, <1>4 DEF UserFilesInv, UsedInv, EditStages
<1>7. ReadableInv'
  BY <1>0, <1>2, <1>3, <1>4 DEF UserFilesInv, ReadableInv, ConfigTypes
<1>8. ConfigCreationDir' = d /\ ConfigCreationDir = d /\ cfUser[d] = NoFile
  BY <1>0 DEF d, ConfigCreationDir, UserFilesInv, CreationInv
<1>9. \A q \in ConfigProcs : ~CfAt(q, "template")'
  <2> SUFFICES ASSUME NEW q \in ConfigProcs, CfAt(q, "template")' PROVE FALSE
    OBVIOUS
  <2>1. q # p
    BY <1>4 DEF CfAt
  <2>2. CfAt(q, "template")
    BY <1>4, <2>1 DEF CfAt
  <2> QED BY <1>0, <2>1, <2>2 DEF UserFilesInv, CreationInv
<1>10. CreationInv'
  BY <1>0, <1>2, <1>8, <1>9 DEF UserFilesInv, CreationInv, ConfigTypes
<1>11. ~Editing(p) /\ \A q \in ConfigProcs : Editing(q)' = Editing(q)
  BY <1>0 DEF UserFilesInv, EditInv, EditStages, Editing
<1>12. EditInv'
  <2>1. \A q \in ConfigProcs : cfAt'[q] \in EditStages /\ cfEnd'[q] = "busy" => Toml(cfBuf'[q])
    BY <1>0, <1>4 DEF UserFilesInv, EditInv
  <2>2. \A q \in ConfigProcs : Editing(q)' => cfAt'[q] \in EditStages
    BY <1>4, <1>11 DEF UserFilesInv, EditInv
  <2>3. ASSUME ~cfOverlap', NEW q \in ConfigProcs, Editing(q)'
        PROVE  /\ cfEnd'[q] = "busy" /\ cfFile'[cfUsed'[q]] # NoFile
               /\ KeptFile(cfBuf'[q], cfUser'[cfUsed'[q]])
               /\ \A r \in ConfigProcs : Editing(r)' => r = q
               /\ \A r \in ConfigProcs : CfAt(r, "template")' => cfUsed'[q] # ConfigCreationDir'
    <3>1. ~cfOverlap /\ Editing(q) /\ q # p
      BY <1>0, <1>11, <2>3
    <3>2. /\ cfEnd[q] = "busy" /\ cfFile[cfUsed[q]] # NoFile
          /\ KeptFile(cfBuf[q], cfUser[cfUsed[q]])
          /\ \A r \in ConfigProcs : Editing(r) => r = q
          /\ cfUsed[q] # d
      BY <1>0, <1>8, <3>1 DEF UserFilesInv, EditInv
    <3>3. cfFile'[cfUsed[q]] # NoFile
      BY <1>2, <3>2
    <3>4. \A r \in ConfigProcs : Editing(r)' => r = q
      BY <1>11, <3>2
    <3> QED BY <1>0, <1>2, <1>4, <1>9, <3>1, <3>2, <3>3, <3>4
  <2> QED BY <2>1, <2>2, <2>3 DEF EditInv
<1>13. UserConfigKept'
  <2>1. ASSUME NEW e \in Places, Settled(e)', ~cfOverlap' PROVE KeptFile(cfFile'[e], cfUser[e])
    <3>1. Settled(e)
      BY <2>1, <1>0, <1>11 DEF Settled
    <3>2. CASE e = d
      BY <1>8, <3>2 DEF KeptFile
    <3>3. CASE e # d
      BY <1>0, <1>2, <2>1, <3>1, <3>3 DEF UserFilesInv, UserConfigKept
    <3> QED BY <3>2, <3>3
  <2> QED BY <1>2, <2>1 DEF UserConfigKept
<1> QED BY <1>5, <1>6, <1>7, <1>10, <1>12, <1>13 DEF UserFilesInv

LEMMA WritesKeep ==
  ASSUME UserFilesInv, NEW p \in ConfigProcs, Truncate(p) \/ WriteEdit(p)
  PROVE  UserFilesInv'
<1> DEFINE d == cfUsed[p]
           f == IF cfAt[p] \in {"truncate type", "truncate skip"} THEN Empty ELSE Edited(p)
           at == CASE cfAt[p] = "truncate type" -> "write type" [] cfAt[p] = "truncate skip" -> "write skip"
                   [] cfAt[p] = "write type" -> "reload" [] OTHER -> "start"
<1>0. /\ cfAt[p] \in EditStages /\ cfEnd[p] = "busy" /\ ConfigTypes
      /\ UNCHANGED <<cfWorld, cfOverlap, cfUsed, cfFirst, cfMem, cfPlan>>
  BY DEF Truncate, WriteEdit, CfAt, CfFrame, CfLocals, UserFilesInv, EditStages
<1>1. d \in Places /\ Toml(cfBuf[p]) /\ cfBuf[p] # NoFile /\ cfFile[d] # OldYaml
  <2>1. d \in Places
    BY <1>0 DEF UserFilesInv, UsedInv, ConfigTypes
  <2>2. Toml(cfBuf[p])
    BY <1>0 DEF UserFilesInv, EditInv
  <2>3. cfFile[d] # OldYaml
    BY <1>0, <2>1 DEF UserFilesInv, ReadableInv, Places
  <2> QED BY <2>1, <2>2, <2>3, TomlShape
<1>2. WriteFile(p, d, f) /\ GoesTo(p, at)
  <2>1. CASE Truncate(p)
    BY <1>0, <2>1, GoGoes DEF Truncate, CfAt
  <2>2. CASE WriteEdit(p)
    BY <1>0, <2>2, GoGoes DEF WriteEdit, CfAt
  <2> QED BY <2>1, <2>2
<1>3. \/ cfAt[p] \in {"truncate type", "truncate skip"} /\ at \in {"write type", "write skip"} /\ cfBuf' = cfBuf
      \/ /\ cfAt[p] \in {"write type", "write skip"} /\ at \in {"reload", "start"}
         /\ f = Edited(p) /\ cfBuf' = [cfBuf EXCEPT ![p] = NoFile]
  <2>1. CASE Truncate(p)
    BY <1>0, <2>1 DEF Truncate, CfAt, CfLocals
  <2>2. CASE WriteEdit(p)
    BY <1>0, <2>2 DEF WriteEdit, CfAt
  <2> QED BY <2>1, <2>2
<1>4. Toml(f) /\ f # NoFile /\ f # OldYaml
  <2>1. KeptFile(cfBuf[p], NoFile)
    BY DEF KeptFile
  <2>2. Toml(Edited(p))
    BY <1>1, <2>1, EditedKeeps
  <2> QED BY <2>2, TomlKnown, TomlShape
<1> HIDE DEF f, at
<1>5. /\ cfFile' = [cfFile EXCEPT ![d] = f] /\ cfUser' = cfUser /\ cfFile'[d] = f
      /\ cfMeddled' \in [ConfigProcs -> BOOLEAN]
  BY <1>0, <1>1, <1>2 DEF WriteFile, ConfigTypes, CfAt
<1>6. /\ cfAt'[p] = at /\ cfEnd' = cfEnd /\ at \in {"write type", "write skip", "reload", "start"}
      /\ \A q \in ConfigProcs \ {p} : cfAt'[q] = cfAt[q] /\ cfBuf'[q] = cfBuf[q]
  BY <1>0, <1>2, <1>3 DEF GoesTo, ConfigTypes
<1>7. ConfigTypes'
  BY <1>0, <1>2, <1>3, <1>4, <1>5, <1>6 DEF ConfigTypes, GoesTo, ConfigStages, EditStages
<1>8. UsedInv'
  BY <1>0, <1>1, <1>6 DEF UserFilesInv, UsedInv, Places, ConfigTypes
<1>9. ReadableInv'
  BY <1>0, <1>1, <1>4, <1>5, <1>6 DEF UserFilesInv, ReadableInv, ConfigTypes
<1>10. \A q \in ConfigProcs : CfAt(q, "template")' => CfAt(q, "template")
  BY <1>6 DEF CfAt
<1>11. CreationInv'
  <2>1. ConfigCreationDir' = ConfigCreationDir
    BY <1>0 DEF ConfigCreationDir
  <2>2. \A e \in Places : cfFile'[e] = NoFile => cfFile[e] = NoFile
    BY <1>0, <1>4, <1>5 DEF ConfigTypes
  <2>3. \A e \in Places : cfFile'[e] = NoFile => cfUser'[e] = NoFile
    BY <1>5, <2>2 DEF UserFilesInv, CreationInv
  <2>4. \A q \in ConfigProcs : CfAt(q, "template")' =>
          cfUser'[ConfigCreationDir'] = NoFile /\ cfFile'[ConfigCreationDir'] # NoFile
    BY <1>5, <1>10, <2>1, <2>2, CreationDirIsPlace DEF UserFilesInv, CreationInv
  <2>5. \A q, r \in ConfigProcs : CfAt(q, "template")' /\ CfAt(r, "template")' => q = r
    BY <1>10 DEF UserFilesInv, CreationInv
  <2> QED BY <2>3, <2>4, <2>5 DEF CreationInv
<1>12. Editing(p) /\ \A q \in ConfigProcs \ {p} : Editing(q)' = Editing(q)
  BY <1>1, <1>6 DEF Editing
<1>13. Editing(p)' <=> at \in {"write type", "write skip"}
  BY <1>0, <1>1, <1>3 DEF Editing, ConfigTypes
<1>14. EditInv'
  <2>1. \A q \in ConfigProcs : cfAt'[q] \in EditStages /\ cfEnd'[q] = "busy" => Toml(cfBuf'[q])
    <3>1. CASE at \in {"write type", "write skip"}
      BY <1>1, <1>3, <1>6, <3>1 DEF UserFilesInv, EditInv
    <3>2. CASE at \in {"reload", "start"}
      BY <1>6, <3>2 DEF UserFilesInv, EditInv, EditStages
    <3> QED BY <1>6, <3>1, <3>2
  <2>2. \A q \in ConfigProcs : Editing(q)' => cfAt'[q] \in EditStages
    BY <1>6, <1>12, <1>13 DEF UserFilesInv, EditInv, EditStages
  <2>3. ASSUME ~cfOverlap', NEW q \in ConfigProcs, Editing(q)'
        PROVE  /\ cfEnd'[q] = "busy" /\ cfFile'[cfUsed'[q]] # NoFile
               /\ KeptFile(cfBuf'[q], cfUser'[cfUsed'[q]])
               /\ \A r \in ConfigProcs : Editing(r)' => r = q
               /\ \A r \in ConfigProcs : CfAt(r, "template")' => cfUsed'[q] # ConfigCreationDir'
    <3>1. /\ ~cfOverlap /\ KeptFile(cfBuf[p], cfUser[d])
          /\ \A r \in ConfigProcs : Editing(r) => r = p
          /\ \A r \in ConfigProcs : CfAt(r, "template") => d # ConfigCreationDir
      BY <1>0, <1>12, <2>3 DEF UserFilesInv, EditInv
    <3>2. q = p /\ cfBuf' = cfBuf
      BY <1>3, <1>12, <1>13, <2>3, <3>1
    <3>3. \A r \in ConfigProcs : Editing(r)' => r = q
      BY <1>12, <3>1, <3>2
    <3>4. \A r \in ConfigProcs : CfAt(r, "template")' => d # ConfigCreationDir'
      BY <1>0, <1>10, <3>1 DEF ConfigCreationDir
    <3> QED BY <1>0, <1>4, <1>5, <1>6, <3>1, <3>2, <3>3, <3>4
  <2> QED BY <2>1, <2>2, <2>3 DEF EditInv
<1>15. UserConfigKept'
  <2>1. ASSUME NEW e \in Places, Settled(e)', ~cfOverlap' PROVE KeptFile(cfFile'[e], cfUser[e])
    <3>1. ~cfOverlap /\ KeptFile(cfBuf[p], cfUser[d]) /\ \A r \in ConfigProcs : Editing(r) => r = p
      BY <1>0, <1>12, <2>1 DEF UserFilesInv, EditInv
    <3>2. CASE e = d
      <4>1. ~Editing(p)'
        BY <1>0, <2>1, <3>2 DEF Settled
      <4>2. f = Edited(p)
        BY <1>3, <1>13, <4>1
      <4> QED BY <1>1, <1>5, <3>1, <3>2, <4>2, EditedKeeps
    <3>3. CASE e # d
      <4>1. Settled(e)
        BY <3>1, <3>3 DEF Settled
      <4> QED BY <1>0, <1>5, <3>1, <3>3, <4>1 DEF UserFilesInv, UserConfigKept
    <3> QED BY <3>2, <3>3
  <2> QED BY <1>5, <2>1 DEF UserConfigKept
<1> QED BY <1>7, <1>8, <1>9, <1>11, <1>14, <1>15 DEF UserFilesInv

LEMMA OtherFilesKeep ==
  ASSUME UserFilesInv,
         \/ \E p \in ConfigProcs : ConfigKilled(p)
         \/ \E d \in {"local", "xdg"}, f \in UserConfigs : UserSaves(d, f)
         \/ UNCHANGED cfVars
  PROVE  UserFilesInv'
<1>1. ASSUME NEW p \in ConfigProcs, ConfigKilled(p) PROVE UserFilesInv'
  <2>1. /\ cfAt' = cfAt /\ cfEnd' = [cfEnd EXCEPT ![p] = "killed"] /\ cfOverlap' = TRUE
        /\ UNCHANGED <<cfWorld, cfUsed, cfFirst, cfMem, cfBuf, cfPlan, cfFile, cfMeddled, cfUser>>
    BY <1>1 DEF ConfigKilled, CfStop, CfLocals, CfFiles, CfFrame
  <2>2. \A q \in ConfigProcs : cfEnd'[q] = "busy" => cfEnd[q] = "busy"
    BY <2>1 DEF UserFilesInv, ConfigTypes
  <2>3. ConfigTypes' /\ UsedInv' /\ ReadableInv'
    BY <2>1, <2>2 DEF UserFilesInv, ConfigTypes, UsedInv, ReadableInv
  <2>4. CreationInv' /\ EditInv' /\ UserConfigKept'
    BY <2>1, <2>2 DEF UserFilesInv, CreationInv, EditInv, UserConfigKept, CfAt, Editing, ConfigCreationDir
  <2> QED BY <2>3, <2>4 DEF UserFilesInv
<1>2. ASSUME NEW d \in {"local", "xdg"}, NEW f \in UserConfigs, UserSaves(d, f) PROVE UserFilesInv'
  <2>1. /\ cfFile' = [cfFile EXCEPT ![d] = f] /\ cfUser' = [cfUser EXCEPT ![d] = f] /\ cfFile[d] = NoFile
        /\ UNCHANGED <<cfWorld, cfAt, cfEnd, cfMeddled, cfUsed, cfFirst, cfMem, cfBuf, cfPlan, cfOverlap>>
        /\ d \in Places
    BY <1>2 DEF UserSaves, CfLocals, CfFrame, Places
  <2>2. Toml(f) /\ f # NoFile /\ f # OldYaml
    BY ConfigConstants, TomlShape
  <2>3. /\ cfFile'[d] = f /\ cfUser'[d] = f
        /\ \A e \in Places \ {d} : cfFile'[e] = cfFile[e] /\ cfUser'[e] = cfUser[e]
    BY <2>1 DEF UserFilesInv, ConfigTypes
  <2>4. ConfigTypes' /\ UsedInv'
    BY <2>1, <2>2 DEF UserFilesInv, ConfigTypes, UsedInv
  <2>5. ReadableInv'
    BY <2>1, <2>2, <2>3 DEF UserFilesInv, ConfigTypes, ReadableInv
  <2>6. /\ ConfigCreationDir' = ConfigCreationDir /\ ConfigCreationDir \in Places
        /\ \A q \in ConfigProcs : CfAt(q, "template")' = CfAt(q, "template") /\ Editing(q)' = Editing(q)
    BY <2>1, CreationDirIsPlace DEF ConfigCreationDir, CfAt, Editing
  <2>7. CreationInv'
    <3>1. \A e \in Places : cfFile'[e] = NoFile => cfUser'[e] = NoFile
      BY <2>2, <2>3 DEF UserFilesInv, CreationInv
    <3>2. \A q \in ConfigProcs : CfAt(q, "template") => ConfigCreationDir # d
      BY <2>1 DEF UserFilesInv, CreationInv
    <3>3. \A q \in ConfigProcs : CfAt(q, "template")' =>
            cfUser'[ConfigCreationDir'] = NoFile /\ cfFile'[ConfigCreationDir'] # NoFile
      BY <2>3, <2>6, <3>2 DEF UserFilesInv, CreationInv
    <3> QED BY <2>6, <3>1, <3>3 DEF UserFilesInv, CreationInv
  <2>8. EditInv'
    <3>1. ASSUME ~cfOverlap', NEW q \in ConfigProcs, Editing(q)'
          PROVE  /\ cfEnd'[q] = "busy" /\ cfFile'[cfUsed'[q]] # NoFile
                 /\ KeptFile(cfBuf'[q], cfUser'[cfUsed'[q]])
                 /\ \A r \in ConfigProcs : Editing(r)' => r = q
                 /\ \A r \in ConfigProcs : CfAt(r, "template")' => cfUsed'[q] # ConfigCreationDir'
      <4>1. /\ cfEnd[q] = "busy" /\ cfFile[cfUsed[q]] # NoFile
            /\ KeptFile(cfBuf[q], cfUser[cfUsed[q]])
            /\ \A r \in ConfigProcs : Editing(r) => r = q
            /\ \A r \in ConfigProcs : CfAt(r, "template") => cfUsed[q] # ConfigCreationDir
        BY <2>1, <2>6, <3>1 DEF UserFilesInv, EditInv
      <4>2. cfUsed[q] # d /\ cfUsed[q] \in Places
        <5>1. cfAt[q] \in EditStages
          BY <2>6, <3>1 DEF UserFilesInv, EditInv
        <5> QED BY <4>1, <5>1, <2>1 DEF UserFilesInv, UsedInv, ConfigTypes
      <4> QED BY <2>1, <2>3, <2>6, <4>1, <4>2
    <3>2. /\ \A q \in ConfigProcs : cfAt'[q] \in EditStages /\ cfEnd'[q] = "busy" => Toml(cfBuf'[q])
          /\ \A q \in ConfigProcs : Editing(q)' => cfAt'[q] \in EditStages
      BY <2>1, <2>6 DEF UserFilesInv, EditInv
    <3> QED BY <3>1, <3>2 DEF EditInv
  <2>9. UserConfigKept'
    <3>1. ASSUME NEW e \in Places, Settled(e)', ~cfOverlap' PROVE KeptFile(cfFile'[e], cfUser'[e])
      <4>1. CASE e = d
        BY <2>2, <2>3, <4>1 DEF KeptFile, Kept
      <4>2. CASE e # d
        <5>1. Settled(e)
          BY <2>1, <2>6, <3>1 DEF Settled
        <5> QED BY <2>1, <2>3, <3>1, <4>2, <5>1 DEF UserFilesInv, UserConfigKept
      <4> QED BY <4>1, <4>2
    <3> QED BY <3>1 DEF UserConfigKept
  <2> QED BY <2>4, <2>5, <2>7, <2>8, <2>9 DEF UserFilesInv
<1>3. CASE UNCHANGED cfVars
  BY <1>3 DEF cfVars, UserFilesInv, ConfigTypes, UsedInv, ReadableInv, CreationInv, EditInv, UserConfigKept,
    CfAt, Editing, Settled, ConfigCreationDir
<1> QED BY <1>1, <1>2, <1>3

\* Every step keeps what the files hold of the user's.
LEMMA UserFilesStep == UserFilesInv /\ [ConfigNext]_cfVars => UserFilesInv'
<1> SUFFICES ASSUME UserFilesInv, [ConfigNext]_cfVars PROVE UserFilesInv'
  OBVIOUS
<1>1. ASSUME NEW p \in ConfigProcs, ConfigStep(p) PROVE UserFilesInv'
  BY <1>1, LoadsKeep, DecisionsKeep, EditsRead, CreationKeeps, TemplateKeeps, WritesKeep DEF ConfigStep
<1> QED BY <1>1, OtherFilesKeep DEF ConfigNext

\* A user's config file survives, whatever lstk processes do with it: as long as
\* no two edits overlap and none is cut short, every file no process is editing
\* has all the tables and keys the user wrote. (config.go, emulator_type.go)
THEOREM UserConfigsKept == ConfigSpec => []UserConfigKept
<1>1. UserFilesInv => UserConfigKept
  BY DEF UserFilesInv
<1> QED BY <1>1, ConfigInitInv, UserFilesStep, PTL DEF ConfigSpec

\* No step changes what a process was asked.
LEMMA ConfigRequestsStay == [ConfigNext]_cfVars => cfReq' = cfReq
<1> SUFFICES ASSUME [ConfigNext]_cfVars PROVE cfReq' = cfReq
  OBVIOUS
<1>1. ASSUME NEW p \in ConfigProcs, ConfigStep(p) PROVE cfReq' = cfReq
  <2>1. CASE InitFromPath(p) \/ LoadFound(p) \/ LoadNone(p) \/ ApplyEmulatorType(p) \/ NotifyUpdate(p)
    BY <2>1 DEF InitFromPath, LoadFound, LoadNone, ApplyEmulatorType, NotifyUpdate, CfFrame
  <2>2. CASE SelectEmulator(p) \/ EnsureCreated(p) \/ WriteTemplate(p) \/ LoadNew(p) \/ ReadToEdit(p)
    BY <2>2 DEF SelectEmulator, EnsureCreated, WriteTemplate, LoadNew, ReadToEdit, CfFrame
  <2>3. CASE Truncate(p) \/ WriteEdit(p) \/ Reload(p) \/ StartPlanned(p) \/ ConfigDone(p)
    BY <2>3 DEF Truncate, WriteEdit, Reload, StartPlanned, ConfigDone, CfFrame
  <2>4. ASSUME NEW busy, PublishPorts(p, busy) PROVE cfReq' = cfReq
    BY <2>4 DEF PublishPorts, CfFrame
  <2> QED BY <1>1, <2>1, <2>2, <2>3, <2>4 DEF ConfigStep
<1>2. ASSUME NEW p \in ConfigProcs, ConfigKilled(p) PROVE cfReq' = cfReq
  BY <1>2 DEF ConfigKilled, CfFrame
<1>3. ASSUME NEW d, NEW f, UserSaves(d, f) PROVE cfReq' = cfReq
  BY <1>3 DEF UserSaves, CfFrame
<1>4. CASE UNCHANGED cfVars
  BY <1>4 DEF cfVars
<1> QED BY <1>1, <1>2, <1>3, <1>4 DEF ConfigNext

\* Every variable of the configuration keeps its type, whatever is in the files.
\* (config.go)
THEOREM ConfigTyped == ConfigSpec => []ConfigTypeOK
<1>1. ConfigInit => cfReq \in [ConfigProcs -> ConfigRequests]
  BY DEF ConfigInit
<1>2. cfReq \in [ConfigProcs -> ConfigRequests] /\ [ConfigNext]_cfVars =>
        (cfReq \in [ConfigProcs -> ConfigRequests])'
  BY ConfigRequestsStay
<1>3. UserFilesInv /\ cfReq \in [ConfigProcs -> ConfigRequests] => ConfigTypeOK
  BY DEF UserFilesInv, ConfigTypes, ConfigTypeOK
<1> QED BY <1>1, <1>2, <1>3, ConfigInitInv, UserFilesStep, PTL DEF ConfigSpec

-----------------------------------------------------------------------------
\* The emulator a file asks for.
FileType(f) == FirstContainer(f).type

\* The block whose type an edit sets is the one a start reads.
LEMMA FirstIsEdited ==
  ASSUME NEW f, Toml(f)
  PROVE  TypeAt(f) = FirstBlock(f)
<1>1. Len(f) \in Nat /\ DOMAIN f = 1..Len(f)
  BY TomlShape
<1>2. ASSUME NEW i \in DOMAIN f
      PROVE  (\A j \in 1..(i - 1) : f[j].table # "containers") <=> (\A j \in ContainerBlocks(f) : i <= j)
  BY <1>1 DEF ContainerBlocks
<1> QED BY <1>2 DEF TypeAt, FirstBlock, ContainerBlocks

LEMMA OneFirst ==
  ASSUME NEW f, Toml(f), NEW i \in FirstBlock(f)
  PROVE  FirstContainer(f) = ContainerOf(f[i])
<1> DEFINE k == CHOOSE j \in FirstBlock(f) : TRUE
<1>1. k \in FirstBlock(f)
  OBVIOUS
<1>2. FirstContainer(f) = ContainerOf(f[k])
  BY <1>1 DEF FirstContainer
<1> HIDE DEF k
<1>3. DOMAIN f = 1..Len(f) /\ Len(f) \in Nat
  BY TomlShape
<1>4. i \in Nat /\ k \in Nat /\ i <= k /\ k <= i
  BY <1>1, <1>3 DEF FirstBlock, ContainerBlocks
<1>5. i = k
  BY <1>4
<1> QED BY <1>2, <1>5

LEMMA TypeOfTable ==
  ASSUME NEW t
  PROVE  ContainerOf(t).type = IF "type" \in DOMAIN t.keys THEN t.keys["type"] ELSE "aws"
<1>1. "type" \in DOMAIN DefaultContainer /\ DefaultContainer["type"] = "aws"
  BY DEF DefaultContainer
<1> QED BY <1>1 DEF ContainerOf, Over

LEMMA TypeChosen ==
  ASSUME NEW f, Toml(f), TypeAt(f) # {}, NEW to
  PROVE  FileType(WithType(f, to)) = to
<1> DEFINE h == WithType(f, to)
<1>1. /\ Toml(h) /\ DOMAIN h = DOMAIN f
      /\ \A i \in DOMAIN f :
           /\ h[i].table = f[i].table
           /\ h[i].keys = IF i \in TypeAt(f) THEN Over(f[i].keys, [type |-> to]) ELSE f[i].keys
  BY TypeWritten
<1> HIDE DEF h
<1>2. FirstBlock(h) = FirstBlock(f)
  BY <1>1 DEF FirstBlock, ContainerBlocks
<1>3. PICK i \in FirstBlock(f) : TRUE
  BY FirstIsEdited
<1>4. i \in DOMAIN f /\ i \in TypeAt(f)
  BY <1>3, FirstIsEdited DEF FirstBlock, ContainerBlocks
<1>5. FirstContainer(h) = ContainerOf(h[i])
  BY <1>1, <1>2, <1>3, OneFirst
<1>6. h[i].keys = Over(f[i].keys, [type |-> to])
  BY <1>1, <1>4
<1>7. "type" \in DOMAIN h[i].keys /\ h[i].keys["type"] = to
  BY <1>6 DEF Over
<1> QED BY <1>5, <1>7, TypeOfTable DEF FileType, h

LEMMA TypeKept ==
  ASSUME NEW f, Toml(f), NEW v
  PROVE  FileType(WithSkipped(f, v)) = FileType(f)
<1> DEFINE h == WithSkipped(f, v)
<1>1. /\ Toml(h) /\ DOMAIN f \subseteq DOMAIN h
      /\ \A i \in DOMAIN f :
           /\ h[i].table = f[i].table
           /\ h[i].keys = IF i \in SkipTables(f) THEN Over(f[i].keys, [update_skipped_version |-> v]) ELSE f[i].keys
      /\ \A i \in DOMAIN h \ DOMAIN f : h[i].table = "cli"
  BY SkipWritten
<1> HIDE DEF h
<1>2. ContainerBlocks(h) = ContainerBlocks(f)
  BY <1>1 DEF ContainerBlocks
<1>3. FirstBlock(h) = FirstBlock(f)
  BY <1>2 DEF FirstBlock
<1>4. CASE FirstBlock(f) = {}
  BY <1>3, <1>4 DEF FirstContainer, FileType, h
<1>5. CASE FirstBlock(f) # {}
  <2>1. PICK i \in FirstBlock(f) : TRUE
    BY <1>5
  <2>2. i \in DOMAIN f
    BY DEF FirstBlock, ContainerBlocks
  <2>3. FirstContainer(f) = ContainerOf(f[i]) /\ FirstContainer(h) = ContainerOf(h[i])
    BY <1>1, <1>3, OneFirst
  <2>4. /\ "type" \in DOMAIN h[i].keys <=> "type" \in DOMAIN f[i].keys
        /\ "type" \in DOMAIN f[i].keys => h[i].keys["type"] = f[i].keys["type"]
    <3>1. CASE h[i].keys = f[i].keys
      BY <3>1
    <3>2. CASE h[i].keys = Over(f[i].keys, [update_skipped_version |-> v])
      BY <3>2 DEF Over
    <3> QED BY <1>1, <2>2, <3>1, <3>2
  <2> QED BY <2>3, <2>4, TypeOfTable DEF FileType, h
<1> QED BY <1>4, <1>5

\* The plan is of the container it is made for.
PlanIsOf(plan, c) == ~plan.rejected => plan.type = c.type /\ {"type", "rejected"} \subseteq DOMAIN plan
LEMMA PlanOfContainer ==
  ASSUME NEW c, NEW named, NEW d, NEW token, NEW persist
  PROVE  PlanIsOf(PlanContainer(c, named, d, token, persist), c)
<1>1. ~Rejected.rejected <=> FALSE
  BY DEF Rejected
<1> QED BY <1>1 DEF PlanContainer, PlanIsOf

\* What a process has planned, and when it may have.
BootPlanInv(p) ==
  /\ {"type", "rejected"} \subseteq DOMAIN cfPlan[p]
  /\ ~cfPlan[p].rejected =>
       /\ cfAt[p] \in {"ports", "create", "template", "load new", "done"}
       /\ Chooses(p) => cfAt[p] \in {"ports", "done"}

\* The file of a process is there as long as no other process wrote one.
FileThere(p) == ~cfMeddled[p] /\ cfUsed[p] # "" => cfFile[cfUsed[p]] # NoFile

MemoryType(p) == FileType(cfMem[p])
UsedType(p) == FileType(cfFile[cfUsed[p]])

\* How far the choice has got at each stage: what was loaded is what is in the
\* file, and from the edit on both are the choice.
ChosenAt(p) ==
  /\ cfAt[p] = "load" => ~cfFirst[p]
  /\ cfAt[p] \in {"select", "create"} => cfUsed[p] = ""
  /\ cfAt[p] = "notify" /\ cfReq[p].type = "" => cfUsed[p] = ""
  /\ cfAt[p] = "apply" /\ cfFirst[p] => cfUsed[p] = ""
  /\ (cfAt[p] = "apply" /\ ~cfFirst[p]) \/ cfAt[p] = "read type" => MemoryType(p) = UsedType(p)
  /\ cfAt[p] \in {"truncate type", "write type"} => TypeAt(cfBuf[p]) # {}
  /\ cfAt[p] = "reload" => UsedType(p) = Asked(p)
  /\ cfAt[p] \in {"truncate skip", "write skip"} => MemoryType(p) = Asked(p) /\ FileType(cfBuf[p]) = Asked(p)
  /\ cfAt[p] \in {"read skip", "start", "ports", "done"} \/ (cfAt[p] = "notify" /\ cfReq[p].type # "") =>
       cfUsed[p] # "" /\ MemoryType(p) = Asked(p) /\ UsedType(p) = Asked(p)
PlannedAs(p) ==
  ~cfPlan[p].rejected => cfUsed[p] # "" /\ cfPlan[p].type = Asked(p) /\ UsedType(p) = Asked(p)
ChoiceInv(p) ==
  Chooses(p) /\ ~cfMeddled[p] => (cfEnd[p] = "busy" => ChosenAt(p)) /\ PlannedAs(p)

OwnInv(p) == BootPlanInv(p) /\ FileThere(p) /\ ChoiceInv(p)
OwnInvs == \A p \in ConfigProcs : OwnInv(p)

SameOwn(p) ==
  /\ cfAt'[p] = cfAt[p] /\ cfEnd'[p] = cfEnd[p] /\ cfUsed'[p] = cfUsed[p] /\ cfFirst'[p] = cfFirst[p]
  /\ cfMem'[p] = cfMem[p] /\ cfBuf'[p] = cfBuf[p] /\ cfPlan'[p] = cfPlan[p] /\ cfReq' = cfReq

\* What others do is no matter to a process whose file they leave alone.
LEMMA OwnFrame ==
  ASSUME NEW p \in ConfigProcs, UsedInv, OwnInv(p), SameOwn(p),
         ~cfMeddled'[p] => ~cfMeddled[p] /\ (cfUsed[p] # "" => cfFile'[cfUsed[p]] = cfFile[cfUsed[p]])
  PROVE  OwnInv(p)'
<1>1. Chooses(p)' = Chooses(p) /\ Asked(p)' = Asked(p)
  BY DEF SameOwn, Chooses, Asked
<1>2. BootPlanInv(p)'
  BY <1>1 DEF OwnInv, BootPlanInv, SameOwn
<1>3. FileThere(p)'
  BY DEF OwnInv, FileThere, SameOwn
<1>4. ChoiceInv(p)'
  <2> SUFFICES ASSUME Chooses(p)', ~cfMeddled'[p]
               PROVE  (cfEnd'[p] = "busy" => ChosenAt(p)') /\ PlannedAs(p)'
    BY DEF ChoiceInv
  <2>1. (cfEnd[p] = "busy" => ChosenAt(p)) /\ PlannedAs(p)
    BY <1>1 DEF OwnInv, ChoiceInv
  <2>2. MemoryType(p)' = MemoryType(p) /\ (cfUsed[p] # "" => UsedType(p)' = UsedType(p))
    BY DEF SameOwn, MemoryType, UsedType
  <2>3. cfEnd'[p] = "busy" => ChosenAt(p)'
    BY <1>1, <2>1, <2>2 DEF SameOwn, ChosenAt, UsedInv
  <2>4. PlannedAs(p)'
    BY <1>1, <2>1, <2>2 DEF SameOwn, PlannedAs
  <2> QED BY <2>3, <2>4
<1> QED BY <1>2, <1>3, <1>4 DEF OwnInv

LEMMA ConfigInitOwn == ConfigInit => OwnInvs
<1> SUFFICES ASSUME ConfigInit, NEW p \in ConfigProcs PROVE OwnInv(p)
  BY DEF OwnInvs
<1>1. /\ cfAt[p] = "load" /\ cfUsed[p] = "" /\ ~cfFirst[p] /\ cfPlan[p] = Nothing
  BY DEF ConfigInit
<1>2. Nothing.rejected /\ {"type", "rejected"} \subseteq DOMAIN Nothing
  BY DEF Nothing
<1>3. BootPlanInv(p) /\ FileThere(p)
  BY <1>1, <1>2 DEF BootPlanInv, FileThere
<1>4. ChoiceInv(p)
  BY <1>1, <1>2 DEF ChoiceInv, ChosenAt, PlannedAs
<1> QED BY <1>3, <1>4 DEF OwnInv

LEMMA LoadedOwn ==
  ASSUME UserFilesInv, NEW p \in ConfigProcs, OwnInv(p), NEW d \in Places, NEW at,
         cfFile[d] # NoFile, Loaded(p, d, at), cfEnd[p] = "busy",
         \/ cfAt[p] = "load" /\ at = AfterLoad(p)
         \/ cfAt[p] \in {"create", "load new"} /\ at = IF Chooses(p) THEN "read type" ELSE "done"
         \/ cfAt[p] = "reload" /\ d = cfUsed[p]
              /\ at = IF cfReq[p].interactive /\ cfReq[p].type # "" THEN "notify" ELSE "start",
         UNCHANGED <<cfReq, cfWorld, cfFirst, cfOverlap, CfFiles>>
  PROVE  OwnInv(p)'
<1>0. ConfigTypes /\ d # ""
  BY DEF UserFilesInv, Places
<1>1. /\ cfUsed'[p] = d /\ cfMem'[p] = cfFile[d] /\ cfPlan' = cfPlan /\ cfBuf' = cfBuf
      /\ cfFile' = cfFile /\ cfMeddled' = cfMeddled /\ cfReq' = cfReq /\ cfFirst' = cfFirst
  BY <1>0 DEF Loaded, CfFiles, ConfigTypes
<1>2. \/ cfAt'[p] = at /\ cfEnd'[p] = "busy"
      \/ cfAt'[p] = cfAt[p] /\ cfEnd'[p] # "busy"
  BY <1>0 DEF Loaded, CfGo, CfStop, ConfigTypes
<1>3. Chooses(p)' = Chooses(p) /\ Asked(p)' = Asked(p)
  BY <1>1 DEF Chooses, Asked
<1>4. FileThere(p)'
  BY <1>1 DEF FileThere
<1>5. at \in {"apply", "notify", "start", "read type", "done"} /\ cfAt[p] \in {"load", "create", "load new", "reload"}
  BY AfterLoadStage
<1>6. BootPlanInv(p)' /\ (Chooses(p) => cfPlan[p].rejected)
  <2>1. cfAt[p] \in {"load", "reload"} \/ Chooses(p) => cfPlan[p].rejected
    BY <1>5 DEF OwnInv, BootPlanInv
  <2>2. ~Chooses(p) /\ cfAt[p] \in {"create", "load new"} => at = "done"
    OBVIOUS
  <2> QED BY <1>1, <1>2, <1>3, <1>5, <2>1, <2>2 DEF OwnInv, BootPlanInv
<1>7. ChoiceInv(p)'
  <2> SUFFICES ASSUME Chooses(p)', ~cfMeddled'[p]
               PROVE  (cfEnd'[p] = "busy" => ChosenAt(p)') /\ PlannedAs(p)'
    BY DEF ChoiceInv
  <2>1. ChosenAt(p)
    BY <1>1, <1>3 DEF OwnInv, ChoiceInv
  <2>2. MemoryType(p)' = FileType(cfFile[d]) /\ UsedType(p)' = FileType(cfFile[d])
    BY <1>1 DEF MemoryType, UsedType
  <2>3. PlannedAs(p)'
    BY <1>1, <1>3, <1>6 DEF PlannedAs
  <2>4. ASSUME cfAt'[p] = at PROVE ChosenAt(p)'
    <3>1. CASE cfAt[p] = "load"
      <4>1. ~cfFirst[p] /\ cfReq[p].type # ""
        BY <1>3, <2>1, <3>1 DEF ChosenAt, Chooses
      <4>2. at = "apply"
        BY <3>1, <4>1 DEF AfterLoad
      <4> QED BY <1>1, <2>2, <2>4, <4>1, <4>2 DEF ChosenAt
    <3>2. CASE cfAt[p] \in {"create", "load new"}
      <4>1. at = "read type"
        BY <1>3, <3>2
      <4> QED BY <1>1, <2>2, <2>4, <4>1 DEF ChosenAt
    <3>3. CASE cfAt[p] = "reload"
      <4>1. d = cfUsed[p] /\ UsedType(p) = Asked(p)
        BY <2>1, <3>3 DEF ChosenAt
      <4>2. FileType(cfFile[d]) = Asked(p)
        BY <4>1 DEF UsedType
      <4>3. at = "start" \/ (at = "notify" /\ cfReq[p].type # "")
        BY <3>3
      <4> QED BY <1>0, <1>1, <1>3, <2>2, <2>4, <4>2, <4>3 DEF ChosenAt
    <3> QED BY <1>5, <3>1, <3>2, <3>3
  <2> QED BY <1>2, <2>3, <2>4
<1> QED BY <1>4, <1>6, <1>7 DEF OwnInv

LEMMA LoadsOwn ==
  ASSUME UserFilesInv, NEW p \in ConfigProcs, OwnInv(p),
         InitFromPath(p) \/ LoadFound(p) \/ LoadNone(p) \/ LoadNew(p) \/ Reload(p)
  PROVE  OwnInv(p)'
<1> USE DEF CfFrame
<1>0. "flag" \in Places /\ ConfigTypes
  BY DEF Places, UserFilesInv
<1>s. ASSUME Stops(p), cfUsed' = cfUsed, cfPlan' = cfPlan, cfFile' = cfFile, cfMeddled' = cfMeddled,
             cfReq' = cfReq, cfFirst' = cfFirst
      PROVE  OwnInv(p)'
  <2>1. Chooses(p)' = Chooses(p) /\ Asked(p)' = Asked(p) /\ UsedType(p)' = UsedType(p)
    BY <1>s DEF Chooses, Asked, UsedType
  <2>2. BootPlanInv(p)' /\ FileThere(p)'
    BY <1>s, <2>1 DEF OwnInv, BootPlanInv, FileThere, Stops
  <2>3. ChoiceInv(p)'
    BY <1>s, <2>1 DEF OwnInv, ChoiceInv, PlannedAs, Stops
  <2> QED BY <2>2, <2>3 DEF OwnInv
<1>1. CASE InitFromPath(p) /\ cfFile["flag"] # NoFile
  <2>1. /\ Loaded(p, "flag", AfterLoad(p)) /\ cfAt[p] = "load" /\ cfEnd[p] = "busy"
        /\ UNCHANGED <<cfReq, cfWorld, cfFirst, cfOverlap, CfFiles>>
    BY <1>1 DEF InitFromPath, CfAt
  <2> QED BY <1>0, <1>1, <2>1, LoadedOwn
<1>2. CASE InitFromPath(p) /\ cfFile["flag"] = NoFile
  <2>1. CfStop(p, "no file") /\ UNCHANGED <<cfUsed, cfPlan, cfFile, cfMeddled, cfReq, cfFirst>>
    BY <1>2 DEF InitFromPath, CfFiles
  <2> QED BY <1>0, <1>s, <2>1, StopStops
<1>3. CASE LoadFound(p)
  <2>1. /\ Loaded(p, FirstFound, AfterLoad(p)) /\ cfAt[p] = "load" /\ cfEnd[p] = "busy"
        /\ UNCHANGED <<cfReq, cfWorld, cfFirst, cfOverlap, CfFiles>> /\ Found # {}
    BY <1>3 DEF LoadFound, CfAt
  <2> QED BY <2>1, FoundFirst, LoadedOwn
<1>4. CASE LoadNone(p)
  <2>1. /\ cfAt[p] = "load" /\ cfEnd[p] = "busy" /\ cfAt'[p] = AfterLoad(p) /\ cfEnd'[p] = "busy" /\ cfFirst'[p]
        /\ UNCHANGED <<cfReq, cfFile, cfMeddled, cfUsed, cfMem, cfBuf, cfPlan>>
    BY <1>0, <1>4 DEF LoadNone, CfAt, CfGo, CfFiles, ConfigTypes
  <2>2. cfUsed[p] = "" /\ cfPlan[p].rejected
    BY <2>1 DEF UserFilesInv, UsedInv, OwnInv, BootPlanInv
  <2>3. BootPlanInv(p)' /\ FileThere(p)'
    BY <2>1, <2>2 DEF OwnInv, BootPlanInv, FileThere
  <2>4. ASSUME Chooses(p)' PROVE ChosenAt(p)'
    <3>1. cfReq[p].type # "" \/ cfReq[p].interactive
      BY <2>1, <2>4 DEF Chooses
    <3>2. CASE cfReq[p].type # ""
      <4>1. AfterLoad(p) = "apply"
        BY <3>2 DEF AfterLoad
      <4> QED BY <2>1, <2>2, <4>1 DEF ChosenAt
    <3>3. CASE cfReq[p].type = ""
      <4>1. AfterLoad(p) = "notify"
        BY <3>1, <3>3 DEF AfterLoad
      <4> QED BY <2>1, <2>2, <3>3, <4>1 DEF ChosenAt
    <3> QED BY <3>2, <3>3
  <2>5. ChoiceInv(p)'
    BY <2>1, <2>2, <2>4 DEF ChoiceInv, PlannedAs
  <2> QED BY <2>3, <2>5 DEF OwnInv
<1>5. CASE LoadNew(p)
  <2>1. /\ cfAt[p] = "load new" /\ cfEnd[p] = "busy"
        /\ UNCHANGED <<cfReq, cfWorld, cfFirst, cfOverlap, CfFiles>>
    BY <1>5 DEF LoadNew, CfAt
  <2>2. CASE cfFile[ConfigCreationDir] = NoFile
    <3>1. CfStop(p, "no file") /\ UNCHANGED <<cfUsed, cfPlan, cfFile, cfMeddled, cfReq, cfFirst>>
      BY <1>5, <2>2 DEF LoadNew, CfFiles
    <3> QED BY <1>0, <1>s, <3>1, StopStops
  <2>3. CASE cfFile[ConfigCreationDir] # NoFile
    <3>1. Loaded(p, ConfigCreationDir, IF Chooses(p) THEN "read type" ELSE "done")
      BY <1>5, <2>3 DEF LoadNew
    <3> QED BY <2>1, <2>3, <3>1, CreationDirIsPlace, LoadedOwn
  <2> QED BY <2>2, <2>3
<1>6. CASE Reload(p)
  <2>1. /\ cfAt[p] = "reload" /\ cfEnd[p] = "busy"
        /\ UNCHANGED <<cfReq, cfWorld, cfFirst, cfOverlap, CfFiles>>
    BY <1>6 DEF Reload, CfAt
  <2>2. CASE cfFile[cfUsed[p]] = NoFile
    <3>1. CfStop(p, "no file") /\ UNCHANGED <<cfUsed, cfPlan, cfFile, cfMeddled, cfReq, cfFirst>>
      BY <1>6, <2>2 DEF Reload, CfFiles
    <3> QED BY <1>0, <1>s, <3>1, StopStops
  <2>3. CASE cfFile[cfUsed[p]] # NoFile
    <3>1. Loaded(p, cfUsed[p], IF cfReq[p].interactive /\ cfReq[p].type # "" THEN "notify" ELSE "start")
      BY <1>6, <2>3 DEF Reload
    <3>2. cfUsed[p] \in Places
      BY <1>0, <2>1 DEF UserFilesInv, UsedInv, ConfigTypes
    <3> QED BY <2>1, <2>3, <3>1, <3>2, LoadedOwn
  <2> QED BY <2>2, <2>3
<1> QED BY <1>1, <1>2, <1>3, <1>4, <1>5, <1>6

\* A process that stops.
LEMMA StopOwn ==
  ASSUME NEW p \in ConfigProcs, OwnInv(p), Stops(p), cfUsed'[p] = cfUsed[p], cfPlan'[p] = cfPlan[p],
         cfUsed[p] # "" => cfFile'[cfUsed[p]] = cfFile[cfUsed[p]], cfMeddled'[p] = cfMeddled[p],
         cfReq' = cfReq, cfFirst' = cfFirst
  PROVE  OwnInv(p)'
<1>1. Chooses(p)' = Chooses(p) /\ Asked(p)' = Asked(p) /\ (cfUsed[p] # "" => UsedType(p)' = UsedType(p))
  BY DEF Chooses, Asked, UsedType
<1>2. BootPlanInv(p)' /\ FileThere(p)'
  BY <1>1 DEF OwnInv, BootPlanInv, FileThere, Stops
<1>3. ChoiceInv(p)'
  BY <1>1 DEF OwnInv, ChoiceInv, PlannedAs, Stops
<1> QED BY <1>2, <1>3 DEF OwnInv

\* A process that has planned nothing yet.
LEMMA UnplannedOwn ==
  ASSUME NEW p, BootPlanInv(p), cfPlan[p].rejected, cfPlan'[p] = cfPlan[p], FileThere(p)',
         Chooses(p)' /\ ~cfMeddled'[p] => ChosenAt(p)'
  PROVE  OwnInv(p)'
BY DEF OwnInv, BootPlanInv, ChoiceInv, PlannedAs

LEMMA DecisionsOwn ==
  ASSUME UserFilesInv, NEW p \in ConfigProcs, OwnInv(p),
         ApplyEmulatorType(p) \/ NotifyUpdate(p) \/ SelectEmulator(p)
  PROVE  OwnInv(p)'
<1>0. ConfigTypes
  BY DEF UserFilesInv
<1>1. /\ cfAt[p] \in {"apply", "notify", "select"} /\ cfEnd[p] = "busy"
      /\ UNCHANGED <<cfReq, cfFile, cfBuf, cfMeddled, cfUsed, cfFirst, cfPlan>>
  BY DEF ApplyEmulatorType, NotifyUpdate, SelectEmulator, CfAt, CfFrame, CfFiles, CfLocals
<1>2. cfPlan[p].rejected
  BY <1>1 DEF OwnInv, BootPlanInv
<1>3. Chooses(p)' = Chooses(p) /\ Asked(p)' = Asked(p) /\ UsedType(p)' = UsedType(p) /\ FileThere(p)'
  BY <1>1 DEF Chooses, Asked, UsedType, OwnInv, FileThere
<1>4. ASSUME NEW why, why # "busy", CfStop(p, why) PROVE OwnInv(p)'
  BY <1>0, <1>1, <1>4, StopStops, StopOwn
<1>5. ASSUME Chooses(p), ~cfMeddled[p] PROVE ChosenAt(p)
  BY <1>1, <1>5 DEF OwnInv, ChoiceInv
<1>6. ASSUME NEW at, CfGo(p, at), Chooses(p) /\ ~cfMeddled[p] => (cfAt'[p] = at => ChosenAt(p)')
      PROVE  OwnInv(p)'
  <2>1. cfAt'[p] = at
    BY <1>0, <1>6, GoGoes DEF GoesTo
  <2>2. cfMeddled'[p] = cfMeddled[p] /\ cfPlan'[p] = cfPlan[p] /\ BootPlanInv(p)
    BY <1>1 DEF OwnInv
  <2> QED BY <1>2, <1>3, <1>6, <2>1, <2>2, UnplannedOwn
<1>7. MemoryType(p) = FirstContainer(cfMem[p]).type
  BY DEF MemoryType, FileType
<1>8. CASE ApplyEmulatorType(p)
  <2>1. cfAt[p] = "apply" /\ cfMem' = cfMem /\ (~cfFirst[p] => cfUsed[p] # "") /\ MemoryType(p)' = MemoryType(p)
    BY <1>1, <1>8 DEF ApplyEmulatorType, CfAt, CfLocals, UserFilesInv, UsedInv, MemoryType
  <2>2. \/ CfStop(p, "conflict") \/ CfStop(p, "several blocks") \/ CfStop(p, "custom image")
        \/ cfFirst[p] /\ CfGo(p, "create")
        \/ ~cfFirst[p] /\ MemoryType(p) = cfReq[p].type
             /\ ((CfGo(p, "notify") /\ cfReq[p].interactive) \/ CfGo(p, "start"))
        \/ ~cfFirst[p] /\ CfGo(p, "read type")
    BY <1>7, <1>8 DEF ApplyEmulatorType
  <2>3. CASE CfStop(p, "conflict") \/ CfStop(p, "several blocks") \/ CfStop(p, "custom image")
    BY <1>4, <2>3
  <2>4. CASE cfFirst[p] /\ CfGo(p, "create")
    <3>1. Chooses(p) /\ ~cfMeddled[p] => (cfAt'[p] = "create" => ChosenAt(p)')
      BY <1>1, <1>5, <2>1, <2>4 DEF ChosenAt
    <3> QED BY <1>6, <2>4, <3>1
  <2>5. ASSUME NEW at \in {"notify", "start"}, ~cfFirst[p], MemoryType(p) = cfReq[p].type, CfGo(p, at)
        PROVE  OwnInv(p)'
    <3>1. ASSUME Chooses(p), ~cfMeddled[p], cfAt'[p] = at PROVE ChosenAt(p)'
      <4>1. cfReq[p].type # "" /\ Asked(p) = cfReq[p].type
        BY <2>5, <3>1 DEF Chooses, Asked
      <4>2. UsedType(p) = MemoryType(p)
        BY <1>5, <2>1, <2>5, <3>1 DEF ChosenAt
      <4> QED BY <1>1, <1>3, <2>1, <2>5, <3>1, <4>1, <4>2 DEF ChosenAt
    <3> QED BY <1>6, <2>5, <3>1
  <2>6. CASE ~cfFirst[p] /\ CfGo(p, "read type")
    <3>1. ASSUME Chooses(p), ~cfMeddled[p], cfAt'[p] = "read type" PROVE ChosenAt(p)'
      <4>1. UsedType(p) = MemoryType(p)
        BY <1>5, <2>1, <2>6, <3>1 DEF ChosenAt
      <4> QED BY <1>1, <1>3, <2>1, <2>6, <3>1, <4>1 DEF ChosenAt
    <3> QED BY <1>6, <2>6, <3>1
  <2> QED BY <2>2, <2>3, <2>4, <2>5, <2>6
<1>9. CASE NotifyUpdate(p)
  <2>1. cfAt[p] = "notify" /\ Toml(cfMem[p])
    BY <1>1, <1>9 DEF NotifyUpdate, CfAt, UserFilesInv, ReadableInv
  <2>2. MemoryType(p)' = MemoryType(p)
    <3>1. cfMem'[p] = cfMem[p] \/ cfMem'[p] = WithSkipped(cfMem[p], "v2")
      BY <1>0, <1>9 DEF NotifyUpdate, ConfigTypes
    <3> QED BY <2>1, <3>1, TypeKept DEF MemoryType
  <2>3. /\ CfGo(p, "select") \/ CfGo(p, "start") \/ CfGo(p, "read skip")
        /\ cfFirst[p] /\ cfReq[p].type = "" /\ cfUsed[p] = "" => CfGo(p, "select")
    BY <1>9 DEF NotifyUpdate
  <2>4. ASSUME Chooses(p), ~cfMeddled[p] PROVE ChosenAt(p)'
    <3>1. CASE cfReq[p].type = ""
      <4>1. cfFirst[p] /\ cfUsed[p] = ""
        BY <1>5, <2>1, <2>4, <3>1 DEF Chooses, ChosenAt
      <4>2. cfAt'[p] = "select"
        BY <1>0, <2>3, <3>1, <4>1, GoGoes DEF GoesTo
      <4> QED BY <1>1, <4>1, <4>2 DEF ChosenAt
    <3>2. CASE cfReq[p].type # ""
      <4>1. cfUsed[p] # "" /\ MemoryType(p) = Asked(p) /\ UsedType(p) = Asked(p)
        BY <1>5, <2>1, <2>4, <3>2 DEF ChosenAt
      <4>2. cfAt'[p] \in {"start", "read skip"}
        <5>1. CfGo(p, "start") \/ CfGo(p, "read skip")
          BY <1>9, <3>2 DEF NotifyUpdate
        <5> QED BY <1>0, <5>1, GoGoes DEF GoesTo
      <4> QED BY <1>1, <1>3, <2>2, <4>1, <4>2 DEF ChosenAt
    <3> QED BY <3>1, <3>2
  <2> QED BY <1>6, <2>3, <2>4
<1>10. CASE SelectEmulator(p)
  <2>1. cfAt[p] = "select" /\ (CfGo(p, "create") \/ CfStop(p, "cancelled"))
    BY <1>10 DEF SelectEmulator, CfAt
  <2>2. ASSUME Chooses(p), ~cfMeddled[p], cfAt'[p] = "create" PROVE ChosenAt(p)'
    BY <1>1, <1>5, <2>1, <2>2 DEF ChosenAt
  <2> QED BY <1>4, <1>6, <2>1, <2>2
<1> QED BY <1>8, <1>9, <1>10

LEMMA PlansOwn ==
  ASSUME UserFilesInv, NEW p \in ConfigProcs, OwnInv(p),
         StartPlanned(p) \/ ConfigDone(p) \/ \E busy \in SUBSET {443, 53} : PublishPorts(p, busy)
  PROVE  OwnInv(p)'
<1>0. ConfigTypes
  BY DEF UserFilesInv
<1>1. /\ cfAt[p] \in {"start", "ports", "done"} /\ cfEnd[p] = "busy"
      /\ UNCHANGED <<cfReq, cfFile, cfBuf, cfMem, cfMeddled, cfUsed, cfFirst>>
  BY DEF StartPlanned, PublishPorts, ConfigDone, CfAt, CfFrame, CfFiles, CfLocals
<1>2. /\ Chooses(p)' = Chooses(p) /\ Asked(p)' = Asked(p) /\ UsedType(p)' = UsedType(p)
      /\ MemoryType(p)' = MemoryType(p) /\ FileThere(p)'
  BY <1>1 DEF Chooses, Asked, UsedType, MemoryType, OwnInv, FileThere
<1>3. ASSUME NEW why, why # "busy", CfStop(p, why), cfPlan' = cfPlan PROVE OwnInv(p)'
  BY <1>0, <1>1, <1>3, StopStops, StopOwn
<1>4. ASSUME Chooses(p), ~cfMeddled[p]
      PROVE  cfUsed[p] # "" /\ MemoryType(p) = Asked(p) /\ UsedType(p) = Asked(p) /\ PlannedAs(p)
  BY <1>1, <1>4 DEF OwnInv, ChoiceInv, ChosenAt
<1>5. ASSUME NEW at, GoesTo(p, at), at \in {"ports", "done"} \/ (at = "create" /\ ~Chooses(p)),
             {"type", "rejected"} \subseteq DOMAIN cfPlan'[p],
             Chooses(p) /\ ~cfMeddled[p] => cfPlan'[p].rejected \/ cfPlan'[p].type = Asked(p)
      PROVE  OwnInv(p)'
  <2>1. cfAt'[p] = at
    BY <1>5 DEF GoesTo
  <2>2. BootPlanInv(p)'
    BY <1>2, <1>5, <2>1 DEF BootPlanInv
  <2>3. ASSUME Chooses(p), ~cfMeddled[p] PROVE ChosenAt(p)' /\ PlannedAs(p)'
    <3>1. at \in {"ports", "done"}
      BY <1>5, <2>3
    <3>2. ChosenAt(p)'
      BY <1>1, <1>2, <1>4, <2>1, <2>3, <3>1 DEF ChosenAt
    <3>3. PlannedAs(p)'
      BY <1>1, <1>2, <1>4, <1>5, <2>3 DEF PlannedAs
    <3> QED BY <3>2, <3>3
  <2>4. ChoiceInv(p)'
    BY <1>1, <1>2, <2>3 DEF ChoiceInv
  <2> QED BY <1>2, <2>2, <2>4 DEF OwnInv
<1>6. CASE StartPlanned(p)
  <2> DEFINE dir == IF cfUsed[p] = "" THEN ConfigCreationDir ELSE cfUsed[p]
             plan == PlanContainer(FirstContainer(cfMem[p]), EnvTables(cfMem[p]), dir, "token", cfReq[p].persist)
  <2>1. \/ CfStop(p, "unsupported") /\ cfPlan' = cfPlan
        \/ ~plan.rejected /\ CfGo(p, "ports") /\ cfPlan' = [cfPlan EXCEPT ![p] = plan]
    BY <1>6 DEF StartPlanned
  <2>4. PlanIsOf(plan, FirstContainer(cfMem[p]))
    BY PlanOfContainer
  <2> HIDE DEF plan
  <2>2. ~plan.rejected => plan.type = MemoryType(p) /\ {"type", "rejected"} \subseteq DOMAIN plan
    BY <2>4 DEF PlanIsOf, MemoryType, FileType
  <2>3. CASE ~plan.rejected /\ CfGo(p, "ports") /\ cfPlan' = [cfPlan EXCEPT ![p] = plan]
    <3>1. cfPlan'[p] = plan
      BY <1>0, <2>3 DEF ConfigTypes
    <3>2. Chooses(p) /\ ~cfMeddled[p] => cfPlan'[p].type = Asked(p)
      BY <1>4, <2>2, <2>3, <3>1
    <3>3. {"type", "rejected"} \subseteq DOMAIN cfPlan'[p] /\ GoesTo(p, "ports")
      BY <1>0, <2>2, <2>3, <3>1, GoGoes
    <3> QED BY <1>5, <3>2, <3>3
  <2> QED BY <1>3, <2>1, <2>3
<1>7. CASE ConfigDone(p)
  <2>1. CfStop(p, "ok") /\ cfPlan' = cfPlan
    BY <1>7 DEF ConfigDone, CfLocals
  <2> QED BY <1>3, <2>1
<1>8. ASSUME NEW busy \in SUBSET {443, 53}, PublishPorts(p, busy) PROVE OwnInv(p)'
  <2> DEFINE at == IF cfFirst[p] /\ ~cfReq[p].interactive /\ cfReq[p].type = "" THEN "create" ELSE "done"
             ports == DropBusyOptionalPorts(cfPlan[p].ports, busy)
  <2>1. \/ CfStop(p, "port in use") /\ cfPlan' = cfPlan
        \/ CfGo(p, at) /\ cfPlan' = [cfPlan EXCEPT ![p].ports = ports]
    BY <1>8 DEF PublishPorts
  <2>2. at = "done" \/ (at = "create" /\ ~Chooses(p))
    BY DEF Chooses
  <2> HIDE DEF at, ports
  <2>3. CASE CfGo(p, at) /\ cfPlan' = [cfPlan EXCEPT ![p].ports = ports]
    <3>1. cfPlan'[p] = [cfPlan[p] EXCEPT !.ports = ports] /\ {"type", "rejected"} \subseteq DOMAIN cfPlan[p]
      BY <1>0, <2>3 DEF ConfigTypes, OwnInv, BootPlanInv
    <3>2. /\ {"type", "rejected"} \subseteq DOMAIN cfPlan'[p]
          /\ cfPlan'[p].type = cfPlan[p].type /\ cfPlan'[p].rejected = cfPlan[p].rejected
      BY <3>1
    <3>3. Chooses(p) /\ ~cfMeddled[p] => cfPlan'[p].rejected \/ cfPlan'[p].type = Asked(p)
      BY <1>4, <3>2 DEF PlannedAs
    <3> QED BY <1>0, <1>5, <2>2, <2>3, <3>2, <3>3, GoGoes
  <2> QED BY <1>3, <2>1, <2>3
<1> QED BY <1>6, <1>7, <1>8

LEMMA ReadsOwn ==
  ASSUME UserFilesInv, NEW p \in ConfigProcs, OwnInv(p), ReadToEdit(p)
  PROVE  OwnInv(p)'
<1>0. /\ cfAt[p] \in {"read type", "read skip"} /\ cfEnd[p] = "busy"
      /\ UNCHANGED <<cfReq, cfUsed, cfFirst, cfMem, cfPlan, cfFile, cfMeddled>>
  BY DEF ReadToEdit, CfAt, CfFiles, CfFrame
<1>1. ConfigTypes /\ cfUsed[p] \in Places /\ cfUsed[p] # "" /\ cfFile[cfUsed[p]] # OldYaml
  BY <1>0 DEF UserFilesInv, ConfigTypes, UsedInv, ReadableInv
<1>2. cfPlan[p].rejected
  BY <1>0 DEF OwnInv, BootPlanInv
<1>3. /\ Chooses(p)' = Chooses(p) /\ Asked(p)' = Asked(p) /\ UsedType(p)' = UsedType(p)
      /\ MemoryType(p)' = MemoryType(p) /\ FileThere(p)'
  BY <1>0 DEF Chooses, Asked, UsedType, MemoryType, OwnInv, FileThere
<1>4. ASSUME Chooses(p), ~cfMeddled[p] PROVE ChosenAt(p)
  BY <1>0, <1>4 DEF OwnInv, ChoiceInv
<1>5. ASSUME NEW at, CfGo(p, at), Chooses(p) /\ ~cfMeddled[p] => (cfAt'[p] = at => ChosenAt(p)')
      PROVE  OwnInv(p)'
  <2>1. cfAt'[p] = at
    BY <1>1, <1>5, GoGoes DEF GoesTo
  <2>2. cfMeddled'[p] = cfMeddled[p] /\ cfPlan'[p] = cfPlan[p] /\ BootPlanInv(p)
    BY <1>0 DEF OwnInv
  <2> QED BY <1>2, <1>3, <1>5, <2>1, <2>2, UnplannedOwn
<1> DEFINE f == cfFile[cfUsed[p]]
           type == cfAt[p] = "read type"
<1>6. f # NoFile => Toml(f) /\ FileType(f) = UsedType(p)
  BY <1>1 DEF ConfigTypes, UsedType
<1>7. CASE f = NoFile \/ (type /\ (\A i \in TypeAt(f) : "type" \notin DOMAIN f[i].keys))
  <2>1. CfStop(p, "no type field") \/ (CfGo(p, "start") /\ ~type)
    BY <1>7 DEF ReadToEdit
  <2>2. CASE CfStop(p, "no type field")
    BY <1>0, <1>1, <2>2, StopStops, StopOwn
  <2>3. CASE CfGo(p, "start") /\ ~type
    <3>1. ASSUME Chooses(p), ~cfMeddled[p], cfAt'[p] = "start" PROVE ChosenAt(p)'
      BY <1>0, <1>3, <1>4, <2>3, <3>1 DEF ChosenAt
    <3> QED BY <1>5, <2>3, <3>1
  <2> QED BY <2>1, <2>2, <2>3
<1>8. CASE ~(f = NoFile \/ (type /\ (\A i \in TypeAt(f) : "type" \notin DOMAIN f[i].keys)))
  <2>1. CASE type /\ WithType(f, Asked(p)) = f
    <3>1. TypeAt(f) # {} /\ UsedType(p) = Asked(p)
      BY <1>6, <1>8, <2>1, TypeChosen
    <3>2. CfGo(p, "start") \/ (CfGo(p, "notify") /\ cfReq[p].type # "")
      BY <1>8, <2>1 DEF ReadToEdit
    <3>3. ASSUME Chooses(p), ~cfMeddled[p], NEW at, cfAt'[p] = at, at = "start" \/ (at = "notify" /\ cfReq[p].type # "")
          PROVE  ChosenAt(p)'
      <4>1. MemoryType(p) = Asked(p)
        BY <1>4, <2>1, <3>1, <3>3 DEF ChosenAt
      <4> QED BY <1>0, <1>1, <1>3, <3>1, <3>3, <4>1 DEF ChosenAt
    <3> QED BY <1>5, <3>2, <3>3
  <2>2. CASE ~(type /\ WithType(f, Asked(p)) = f)
    <3>5. cfBuf' = [cfBuf EXCEPT ![p] = f] /\ CfGo(p, IF type THEN "truncate type" ELSE "truncate skip")
      BY <1>8, <2>2 DEF ReadToEdit
    <3>1. cfBuf' = [cfBuf EXCEPT ![p] = f] /\ ((CfGo(p, "truncate type") /\ type) \/ (CfGo(p, "truncate skip") /\ ~type))
      BY <3>5
    <3>2. cfBuf'[p] = f
      BY <1>1, <3>1 DEF ConfigTypes
    <3>3. CASE CfGo(p, "truncate type") /\ type
      <4>1. ASSUME Chooses(p), ~cfMeddled[p], cfAt'[p] = "truncate type" PROVE ChosenAt(p)'
        <5>1. TypeAt(f) # {}
          BY <1>8, <3>3
        <5> HIDE DEF f
        <5>2. TypeAt(cfBuf'[p]) # {}
          BY <3>2, <5>1
        <5> QED BY <4>1, <5>2 DEF ChosenAt, TypeAt
      <4> QED BY <1>5, <3>3, <4>1
    <3>4. CASE CfGo(p, "truncate skip") /\ ~type
      <4>1. ASSUME Chooses(p), ~cfMeddled[p], cfAt'[p] = "truncate skip" PROVE ChosenAt(p)'
        <5>1. MemoryType(p) = Asked(p) /\ UsedType(p) = Asked(p)
          BY <1>0, <1>4, <3>4, <4>1 DEF ChosenAt
        <5>2. FileType(cfBuf'[p]) = Asked(p)
          BY <3>2, <5>1 DEF UsedType
        <5> QED BY <1>3, <4>1, <5>1, <5>2 DEF ChosenAt, FileType
      <4> QED BY <1>5, <3>4, <4>1
    <3> QED BY <3>1, <3>3, <3>4
  <2> QED BY <2>1, <2>2
<1> QED BY <1>7, <1>8

LEMMA CreatesOwn ==
  ASSUME UserFilesInv, NEW p \in ConfigProcs, OwnInv(p), EnsureCreated(p) \/ WriteTemplate(p)
  PROVE  OwnInv(p)'
<1> DEFINE d == ConfigCreationDir
           next == IF Chooses(p) THEN "read type" ELSE "done"
<1>0. /\ cfAt[p] \in {"create", "template"} /\ cfEnd[p] = "busy" /\ d \in Places /\ ConfigTypes
      /\ UNCHANGED <<cfReq, cfFirst>>
  BY CreationDirIsPlace DEF EnsureCreated, WriteTemplate, CfAt, CfFrame, CfLocals, UserFilesInv
<1>1. Chooses(p)' = Chooses(p) /\ Asked(p)' = Asked(p)
  BY <1>0 DEF Chooses, Asked
<1>2. Chooses(p) => cfPlan[p].rejected
  BY <1>0 DEF OwnInv, BootPlanInv
<1>3. ASSUME Chooses(p), ~cfMeddled[p] PROVE cfUsed[p] = ""
  BY <1>0, <1>3 DEF OwnInv, ChoiceInv, ChosenAt, UserFilesInv, UsedInv
<1>4. ASSUME NEW f, WriteFile(p, d, f), NEW at \in {"template", "load new"}, GoesTo(p, at), cfUsed[p] = "",
             UNCHANGED <<cfUsed, cfMem, cfBuf, cfPlan>>
      PROVE  OwnInv(p)'
  <2>1. cfAt'[p] = at /\ cfMeddled'[p] = cfMeddled[p]
    BY <1>0, <1>4 DEF GoesTo, WriteFile, ConfigTypes
  <2>2. BootPlanInv(p)' /\ FileThere(p)'
    BY <1>0, <1>1, <1>2, <1>4, <2>1 DEF OwnInv, BootPlanInv, FileThere
  <2>3. Chooses(p) => ChosenAt(p)' /\ PlannedAs(p)'
    BY <1>2, <1>4, <2>1 DEF ChosenAt, PlannedAs
  <2> QED BY <1>1, <2>2, <2>3 DEF OwnInv, ChoiceInv
<1>5. CASE EnsureCreated(p)
  <2>1. CASE cfUsed[p] # ""
    <3>1. /\ CfGo(p, next) /\ UNCHANGED <<cfUsed, cfMem, cfBuf, cfPlan, cfFile, cfMeddled>>
          /\ cfAt[p] = "create"
      BY <1>5, <2>1 DEF EnsureCreated, CfFiles, CfAt
    <3>2. cfAt'[p] = next
      BY <1>0, <3>1, GoGoes DEF GoesTo
    <3>3. ~(Chooses(p) /\ ~cfMeddled[p])
      BY <1>3, <2>1
    <3>4. BootPlanInv(p)' /\ FileThere(p)'
      BY <1>1, <1>2, <3>1, <3>2 DEF OwnInv, BootPlanInv, FileThere
    <3>5. ChoiceInv(p)'
      BY <1>1, <3>1, <3>3 DEF ChoiceInv
    <3> QED BY <3>4, <3>5 DEF OwnInv
  <2>2. CASE cfUsed[p] = "" /\ MayCreateFile(d)
    <3>1. WriteFile(p, d, Empty) /\ CfGo(p, "template") /\ UNCHANGED <<cfUsed, cfMem, cfBuf, cfPlan>>
      BY <1>5, <2>2 DEF EnsureCreated
    <3> QED BY <1>0, <1>4, <2>2, <3>1, GoGoes
  <2>3. CASE cfUsed[p] = "" /\ ~MayCreateFile(d)
    <3>1. /\ Loaded(p, d, next) /\ cfFile[d] # NoFile /\ cfAt[p] = "create"
          /\ UNCHANGED <<cfReq, cfWorld, cfFirst, cfOverlap, CfFiles>>
      BY <1>5, <2>3 DEF EnsureCreated, CfFrame, MayCreateFile, CfAt
    <3> QED BY <1>0, <3>1, LoadedOwn
  <2> QED BY <2>1, <2>2, <2>3
<1>6. CASE WriteTemplate(p)
  <2>1. cfUsed[p] = "" /\ UNCHANGED <<cfUsed, cfMem, cfBuf, cfPlan>>
    BY <1>0, <1>6 DEF WriteTemplate, CfAt, CfLocals, UserFilesInv, UsedInv
  <2>2. CASE WriteFile(p, d, DefaultTemplate) /\ CfGo(p, "load new")
    BY <1>0, <1>4, <2>1, <2>2, GoGoes
  <2>3. CASE WriteFile(p, d, NoFile) /\ CfStop(p, "cannot create")
    <3>1. cfMeddled'[p] = cfMeddled[p]
      BY <1>0, <2>3 DEF WriteFile, ConfigTypes
    <3> QED BY <1>0, <2>1, <2>3, <3>1, StopStops, StopOwn
  <2> QED BY <1>6, <2>2, <2>3 DEF WriteTemplate
<1> QED BY <1>5, <1>6

LEMMA EditsOwn ==
  ASSUME UserFilesInv, NEW p \in ConfigProcs, OwnInv(p), Truncate(p) \/ WriteEdit(p)
  PROVE  OwnInv(p)'
<1> DEFINE d == cfUsed[p]
<1>0. /\ cfAt[p] \in EditStages /\ cfEnd[p] = "busy" /\ ConfigTypes /\ Toml(cfBuf[p])
      /\ UNCHANGED <<cfReq, cfUsed, cfFirst, cfMem, cfPlan>>
  BY DEF Truncate, WriteEdit, CfAt, CfFrame, CfLocals, EditStages, UserFilesInv, EditInv
<1>1. d \in Places /\ d # "" /\ cfPlan[p].rejected
  BY <1>0 DEF UserFilesInv, ConfigTypes, UsedInv, OwnInv, BootPlanInv, EditStages
<1>2. Chooses(p)' = Chooses(p) /\ Asked(p)' = Asked(p) /\ MemoryType(p)' = MemoryType(p)
  BY <1>0 DEF Chooses, Asked, MemoryType
<1>3. ASSUME Chooses(p), ~cfMeddled[p] PROVE ChosenAt(p)
  BY <1>0, <1>3 DEF OwnInv, ChoiceInv
<1>4. ASSUME NEW f, f # NoFile, WriteFile(p, d, f), NEW at, CfGo(p, at),
             Chooses(p) /\ ~cfMeddled[p] /\ UsedType(p)' = FileType(f) /\ cfAt'[p] = at => ChosenAt(p)'
      PROVE  OwnInv(p)'
  <2>1. cfFile'[d] = f /\ cfMeddled'[p] = cfMeddled[p]
    BY <1>0, <1>1, <1>4 DEF WriteFile, ConfigTypes
  <2>2. cfAt'[p] = at
    BY <1>0, <1>4, GoGoes DEF GoesTo
  <2>3. FileThere(p)' /\ UsedType(p)' = FileType(f)
    BY <1>0, <1>4, <2>1 DEF FileThere, UsedType
  <2>4. cfPlan'[p] = cfPlan[p] /\ BootPlanInv(p)
    BY <1>0 DEF OwnInv
  <2> QED BY <1>1, <1>2, <1>4, <2>1, <2>2, <2>3, <2>4, UnplannedOwn
<1>5. CASE Truncate(p)
  <2>1. /\ WriteFile(p, d, Empty) /\ cfBuf' = cfBuf
        /\ \/ cfAt[p] = "truncate type" /\ CfGo(p, "write type")
           \/ cfAt[p] = "truncate skip" /\ CfGo(p, "write skip")
    BY <1>5 DEF Truncate, CfLocals, CfAt
  <2>2. Empty # NoFile
    BY TomlKnown, TomlShape
  <2>3. CASE cfAt[p] = "truncate type" /\ CfGo(p, "write type")
    <3>1. ASSUME Chooses(p), ~cfMeddled[p], cfAt'[p] = "write type" PROVE ChosenAt(p)'
      <4>1. TypeAt(cfBuf[p]) # {}
        BY <1>3, <2>3, <3>1 DEF ChosenAt
      <4>2. TypeAt(cfBuf[p])' # {}
        BY <2>1, <4>1 DEF TypeAt
      <4> QED BY <3>1, <4>2 DEF ChosenAt
    <3> QED BY <1>4, <2>1, <2>2, <2>3, <3>1
  <2>4. CASE cfAt[p] = "truncate skip" /\ CfGo(p, "write skip")
    <3>1. ASSUME Chooses(p), ~cfMeddled[p], cfAt'[p] = "write skip" PROVE ChosenAt(p)'
      <4>1. MemoryType(p) = Asked(p) /\ FileType(cfBuf[p]) = Asked(p)
        BY <1>3, <2>4, <3>1 DEF ChosenAt
      <4>2. FileType(cfBuf[p])' = FileType(cfBuf[p])
        BY <2>1 DEF FileType
      <4> QED BY <1>2, <3>1, <4>1, <4>2 DEF ChosenAt
    <3> QED BY <1>4, <2>1, <2>2, <2>4, <3>1
  <2> QED BY <2>1, <2>3, <2>4
<1>6. CASE WriteEdit(p)
  <2>1. /\ WriteFile(p, d, Edited(p))
        /\ \/ cfAt[p] = "write type" /\ CfGo(p, "reload")
           \/ cfAt[p] = "write skip" /\ CfGo(p, "start")
    BY <1>6 DEF WriteEdit, CfAt
  <2>2. CASE cfAt[p] = "write type" /\ CfGo(p, "reload")
    <3>1. Edited(p) = WithType(cfBuf[p], Asked(p))
      BY <2>2 DEF Edited
    <3>2. Edited(p) # NoFile
      BY <1>0, <3>1, TypeWritten, TomlShape
    <3>3. ASSUME Chooses(p), ~cfMeddled[p], UsedType(p)' = FileType(Edited(p)), cfAt'[p] = "reload"
          PROVE  ChosenAt(p)'
      <4>1. TypeAt(cfBuf[p]) # {}
        BY <1>3, <2>2, <3>3 DEF ChosenAt
      <4>2. FileType(Edited(p)) = Asked(p)
        BY <1>0, <3>1, <4>1, TypeChosen
      <4> QED BY <1>2, <3>3, <4>2 DEF ChosenAt
    <3> QED BY <1>4, <2>1, <2>2, <3>2, <3>3
  <2>3. CASE cfAt[p] = "write skip" /\ CfGo(p, "start")
    <3>1. Edited(p) = WithSkipped(cfBuf[p], "v2")
      BY <2>3 DEF Edited
    <3>2. Edited(p) # NoFile /\ FileType(Edited(p)) = FileType(cfBuf[p])
      BY <1>0, <3>1, SkipToml, TomlShape, TypeKept
    <3>3. ASSUME Chooses(p), ~cfMeddled[p], UsedType(p)' = FileType(Edited(p)), cfAt'[p] = "start"
          PROVE  ChosenAt(p)'
      <4>1. MemoryType(p) = Asked(p) /\ FileType(cfBuf[p]) = Asked(p)
        BY <1>3, <2>3, <3>3 DEF ChosenAt
      <4> QED BY <1>0, <1>1, <1>2, <3>2, <3>3, <4>1 DEF ChosenAt
    <3> QED BY <1>4, <2>1, <2>3, <3>2, <3>3
  <2> QED BY <2>1, <2>2, <2>3
<1> QED BY <1>5, <1>6

\* A step of one process is no other's.
LEMMA StepIsLocal ==
  ASSUME ConfigTypes, NEW p \in ConfigProcs, NEW q \in ConfigProcs, q # p, ConfigStep(p) \/ ConfigKilled(p)
  PROVE  SameOwn(q)
<1>1. ASSUME NEW at, CfGo(p, at) PROVE cfAt'[q] = cfAt[q] /\ cfEnd'[q] = cfEnd[q]
  BY <1>1 DEF CfGo, ConfigTypes
<1>2. ASSUME NEW why, CfStop(p, why) PROVE cfAt'[q] = cfAt[q] /\ cfEnd'[q] = cfEnd[q]
  BY <1>2 DEF CfStop, ConfigTypes
<1>3. ASSUME NEW d, NEW at, Loaded(p, d, at), UNCHANGED <<cfReq, cfFirst>> PROVE SameOwn(q)
  <2>1. CfGo(p, at) \/ CfStop(p, "invalid config")
    BY <1>3 DEF Loaded
  <2>2. cfAt'[q] = cfAt[q] /\ cfEnd'[q] = cfEnd[q]
    BY <1>1, <1>2, <2>1
  <2> QED BY <1>3, <2>2 DEF Loaded, SameOwn, ConfigTypes
<1>4. ASSUME UNCHANGED <<cfReq, cfUsed>>, cfAt'[q] = cfAt[q] /\ cfEnd'[q] = cfEnd[q],
             cfFirst' = cfFirst \/ cfFirst' = [cfFirst EXCEPT ![p] = TRUE],
             cfMem' = cfMem \/ cfMem' = [cfMem EXCEPT ![p] = cfMem'[p]],
             cfBuf' = cfBuf \/ cfBuf' = [cfBuf EXCEPT ![p] = cfBuf'[p]],
             cfPlan' = cfPlan \/ cfPlan' = [cfPlan EXCEPT ![p] = cfPlan'[p]]
      PROVE  SameOwn(q)
  BY <1>4 DEF SameOwn, ConfigTypes
<1> USE DEF CfFrame, CfLocals
<1>5. CASE InitFromPath(p)
  <2>1. CASE cfFile["flag"] = NoFile
    <3>1. CfStop(p, "no file") /\ UNCHANGED <<cfReq, cfUsed, cfFirst, cfMem, cfBuf, cfPlan>>
      BY <1>5, <2>1 DEF InitFromPath
    <3> QED BY <1>2, <1>4, <3>1
  <2>2. CASE cfFile["flag"] # NoFile
    BY <1>3, <1>5, <2>2 DEF InitFromPath
  <2> QED BY <2>1, <2>2
<1>6. CASE LoadFound(p)
  BY <1>3, <1>6 DEF LoadFound
<1>7. CASE LoadNone(p)
  <2>1. CfGo(p, AfterLoad(p)) /\ UNCHANGED <<cfReq, cfUsed, cfMem, cfBuf, cfPlan>>
        /\ cfFirst' = [cfFirst EXCEPT ![p] = TRUE]
    BY <1>7 DEF LoadNone
  <2> QED BY <1>1, <1>4, <2>1
<1>8. CASE ApplyEmulatorType(p) \/ SelectEmulator(p) \/ WriteTemplate(p) \/ Truncate(p) \/ ConfigDone(p)
           \/ ConfigKilled(p)
  <2>1. UNCHANGED <<cfReq, cfUsed, cfFirst, cfMem, cfBuf, cfPlan>>
    BY <1>8 DEF ApplyEmulatorType, SelectEmulator, WriteTemplate, Truncate, ConfigDone, ConfigKilled
  <2>2. CASE ApplyEmulatorType(p)
    <3>1. \/ CfStop(p, "conflict") \/ CfStop(p, "several blocks") \/ CfStop(p, "custom image")
          \/ CfGo(p, "create") \/ CfGo(p, "notify") \/ CfGo(p, "start") \/ CfGo(p, "read type")
      BY <2>2 DEF ApplyEmulatorType
    <3> QED BY <1>1, <1>2, <1>4, <2>1, <3>1
  <2>3. CASE SelectEmulator(p)
    BY <1>1, <1>2, <1>4, <2>1, <2>3 DEF SelectEmulator
  <2>4. CASE WriteTemplate(p)
    <3>1. CfGo(p, "load new") \/ CfStop(p, "cannot create")
      BY <2>4 DEF WriteTemplate
    <3> QED BY <1>1, <1>2, <1>4, <2>1, <3>1
  <2>5. CASE Truncate(p)
    <3>1. CfGo(p, "write type") \/ CfGo(p, "write skip")
      BY <2>5 DEF Truncate
    <3> QED BY <1>1, <1>4, <2>1, <3>1
  <2>6. CASE ConfigDone(p)
    BY <1>2, <1>4, <2>1, <2>6 DEF ConfigDone
  <2>7. CASE ConfigKilled(p)
    BY <1>2, <1>4, <2>1, <2>7 DEF ConfigKilled
  <2> QED BY <1>8, <2>2, <2>3, <2>4, <2>5, <2>6, <2>7
<1>9. CASE NotifyUpdate(p)
  <2>1. /\ UNCHANGED <<cfReq, cfUsed, cfFirst, cfBuf, cfPlan>>
        /\ cfMem' = cfMem \/ cfMem' = [cfMem EXCEPT ![p] = WithSkipped(@, "v2")]
        /\ CfGo(p, "select") \/ CfGo(p, "start") \/ CfGo(p, "read skip")
    BY <1>9 DEF NotifyUpdate
  <2>2. cfMem' = cfMem \/ cfMem' = [cfMem EXCEPT ![p] = cfMem'[p]]
    BY <2>1 DEF ConfigTypes
  <2> QED BY <1>1, <1>4, <2>1, <2>2
<1>10. CASE EnsureCreated(p)
  <2> DEFINE next == IF Chooses(p) THEN "read type" ELSE "done"
  <2>1. /\ UNCHANGED <<cfReq, cfFirst>>
        /\ \/ CfGo(p, next) /\ UNCHANGED <<cfUsed, cfMem, cfBuf, cfPlan>>
           \/ CfGo(p, "template") /\ UNCHANGED <<cfUsed, cfMem, cfBuf, cfPlan>>
           \/ Loaded(p, ConfigCreationDir, next)
    BY <1>10 DEF EnsureCreated
  <2> QED BY <1>1, <1>3, <1>4, <2>1
<1>11. CASE LoadNew(p)
  <2>1. /\ UNCHANGED <<cfReq, cfFirst>>
        /\ \/ CfStop(p, "no file") /\ UNCHANGED <<cfUsed, cfMem, cfBuf, cfPlan>>
           \/ Loaded(p, ConfigCreationDir, IF Chooses(p) THEN "read type" ELSE "done")
    BY <1>11 DEF LoadNew
  <2> QED BY <1>2, <1>3, <1>4, <2>1
<1>12. CASE Reload(p)
  <2>1. /\ UNCHANGED <<cfReq, cfFirst>>
        /\ \/ CfStop(p, "no file") /\ UNCHANGED <<cfUsed, cfMem, cfBuf, cfPlan>>
           \/ Loaded(p, cfUsed[p], IF cfReq[p].interactive /\ cfReq[p].type # "" THEN "notify" ELSE "start")
    BY <1>12 DEF Reload
  <2> QED BY <1>2, <1>3, <1>4, <2>1
<1>13. CASE ReadToEdit(p)
  <2>1. UNCHANGED <<cfReq, cfUsed, cfFirst, cfMem, cfPlan>>
    BY <1>13 DEF ReadToEdit
  <2>2. /\ CfStop(p, "no type field") \/ CfGo(p, "start") \/ CfGo(p, "notify")
             \/ CfGo(p, "truncate type") \/ CfGo(p, "truncate skip")
        /\ cfBuf' = cfBuf \/ cfBuf' = [cfBuf EXCEPT ![p] = cfFile[cfUsed[p]]]
    BY <1>13 DEF ReadToEdit
  <2>3. cfBuf' = cfBuf \/ cfBuf' = [cfBuf EXCEPT ![p] = cfBuf'[p]]
    BY <2>2 DEF ConfigTypes
  <2> QED BY <1>1, <1>2, <1>4, <2>1, <2>2, <2>3
<1>14. CASE WriteEdit(p)
  <2>1. /\ UNCHANGED <<cfReq, cfUsed, cfFirst, cfMem, cfPlan>> /\ cfBuf' = [cfBuf EXCEPT ![p] = NoFile]
        /\ CfGo(p, "reload") \/ CfGo(p, "start")
    BY <1>14 DEF WriteEdit
  <2>2. cfBuf' = [cfBuf EXCEPT ![p] = cfBuf'[p]]
    BY <2>1 DEF ConfigTypes
  <2> QED BY <1>1, <1>4, <2>1, <2>2
<1>15. CASE StartPlanned(p)
  <2> DEFINE dir == IF cfUsed[p] = "" THEN ConfigCreationDir ELSE cfUsed[p]
             plan == PlanContainer(FirstContainer(cfMem[p]), EnvTables(cfMem[p]), dir, "token", cfReq[p].persist)
  <2>1. /\ UNCHANGED <<cfReq, cfUsed, cfFirst, cfMem, cfBuf>>
        /\ cfPlan' = cfPlan \/ cfPlan' = [cfPlan EXCEPT ![p] = plan]
        /\ CfStop(p, "unsupported") \/ CfGo(p, "ports")
    BY <1>15 DEF StartPlanned
  <2> HIDE DEF plan
  <2>2. cfPlan' = cfPlan \/ cfPlan' = [cfPlan EXCEPT ![p] = cfPlan'[p]]
    BY <2>1 DEF ConfigTypes
  <2> QED BY <1>1, <1>2, <1>4, <2>1, <2>2
<1>16. ASSUME NEW busy \in SUBSET {443, 53}, PublishPorts(p, busy) PROVE SameOwn(q)
  <2> DEFINE ports == DropBusyOptionalPorts(cfPlan[p].ports, busy)
  <2>1. /\ UNCHANGED <<cfReq, cfUsed, cfFirst, cfMem, cfBuf>>
        /\ cfPlan' = cfPlan \/ cfPlan' = [cfPlan EXCEPT ![p].ports = ports]
        /\ CfStop(p, "port in use") \/ CfGo(p, "create") \/ CfGo(p, "done")
    BY <1>16 DEF PublishPorts
  <2> HIDE DEF ports
  <2>2. cfPlan' = cfPlan \/ cfPlan' = [cfPlan EXCEPT ![p] = cfPlan'[p]]
    BY <2>1 DEF ConfigTypes
  <2> QED BY <1>1, <1>2, <1>4, <2>1, <2>2
<1> QED BY <1>5, <1>6, <1>7, <1>8, <1>9, <1>10, <1>11, <1>12, <1>13, <1>14, <1>15, <1>16 DEF ConfigStep

\* A file another process writes counts as meddling, but for those that have
\* loaded nothing.
LEMMA WriteIsSeen ==
  ASSUME ConfigTypes, UsedInv, NEW p \in ConfigProcs, NEW q \in ConfigProcs, q # p, ConfigStep(p) \/ ConfigKilled(p)
  PROVE  ~cfMeddled'[q] => ~cfMeddled[q] /\ (cfUsed[q] # "" => cfFile'[cfUsed[q]] = cfFile[cfUsed[q]])
<1>1. \/ cfFile' = cfFile /\ cfMeddled' = cfMeddled
      \/ cfMeddled' = [r \in ConfigProcs |-> cfMeddled[r] \/ (r # p /\ ~CfAt(r, "load"))]
  BY DEF ConfigStep, ConfigKilled, InitFromPath, LoadFound, LoadNone, ApplyEmulatorType, NotifyUpdate,
    SelectEmulator, EnsureCreated, WriteTemplate, LoadNew, ReadToEdit, Truncate, WriteEdit, Reload,
    StartPlanned, ConfigDone, PublishPorts, WriteFile, CfFiles
<1>2. CASE cfMeddled' = [r \in ConfigProcs |-> cfMeddled[r] \/ (r # p /\ ~CfAt(r, "load"))]
  <2>1. ~cfMeddled'[q] => ~cfMeddled[q] /\ CfAt(q, "load")
    BY <1>2
  <2> QED BY <2>1 DEF CfAt, UsedInv
<1> QED BY <1>1, <1>2

\* Every step keeps what the processes know of their choices.
LEMMA OwnStep == UserFilesInv /\ OwnInvs /\ [ConfigNext]_cfVars => OwnInvs'
<1> SUFFICES ASSUME UserFilesInv, OwnInvs, [ConfigNext]_cfVars PROVE OwnInvs'
  OBVIOUS
<1>0. ConfigTypes /\ UsedInv /\ \A q \in ConfigProcs : OwnInv(q)
  BY DEF UserFilesInv, OwnInvs
<1>1. ASSUME NEW p \in ConfigProcs, ConfigKilled(p) PROVE OwnInv(p)'
  <2>1. CfStop(p, "killed") /\ UNCHANGED <<cfReq, cfUsed, cfFirst, cfPlan, cfFile, cfMeddled>>
    BY <1>1 DEF ConfigKilled, CfLocals, CfFiles, CfFrame
  <2> QED BY <1>0, <2>1, StopStops, StopOwn
<1>2. ASSUME NEW p \in ConfigProcs, ConfigStep(p) PROVE OwnInv(p)'
  <2>1. CASE InitFromPath(p) \/ LoadFound(p) \/ LoadNone(p) \/ LoadNew(p) \/ Reload(p)
    BY <1>0, <2>1, LoadsOwn
  <2>2. CASE ApplyEmulatorType(p) \/ NotifyUpdate(p) \/ SelectEmulator(p)
    BY <1>0, <2>2, DecisionsOwn
  <2>3. CASE EnsureCreated(p) \/ WriteTemplate(p)
    BY <1>0, <2>3, CreatesOwn
  <2>4. CASE ReadToEdit(p)
    BY <1>0, <2>4, ReadsOwn
  <2>5. CASE Truncate(p) \/ WriteEdit(p)
    BY <1>0, <2>5, EditsOwn
  <2>6. CASE StartPlanned(p) \/ ConfigDone(p) \/ \E busy \in SUBSET {443, 53} : PublishPorts(p, busy)
    BY <1>0, <2>6, PlansOwn
  <2> QED BY <1>2, <2>1, <2>2, <2>3, <2>4, <2>5, <2>6 DEF ConfigStep
<1>3. ASSUME NEW p \in ConfigProcs, ConfigStep(p) \/ ConfigKilled(p), NEW q \in ConfigProcs, q # p
      PROVE  OwnInv(q)'
  <2>1. SameOwn(q)
    BY <1>0, <1>3, StepIsLocal
  <2>2. ~cfMeddled'[q] => ~cfMeddled[q] /\ (cfUsed[q] # "" => cfFile'[cfUsed[q]] = cfFile[cfUsed[q]])
    BY <1>0, <1>3, WriteIsSeen
  <2> QED BY <1>0, <2>1, <2>2, OwnFrame
<1>4. ASSUME NEW d \in {"local", "xdg"}, NEW f \in UserConfigs, UserSaves(d, f), NEW q \in ConfigProcs
      PROVE  OwnInv(q)'
  <2>1. /\ cfFile' = [cfFile EXCEPT ![d] = f] /\ cfFile[d] = NoFile
        /\ UNCHANGED <<cfReq, cfAt, cfEnd, cfUsed, cfFirst, cfMem, cfBuf, cfPlan, cfMeddled>>
    BY <1>4 DEF UserSaves, CfLocals, CfFrame
  <2>2. SameOwn(q)
    BY <2>1 DEF SameOwn
  <2>3. ASSUME ~cfMeddled[q], cfUsed[q] # "" PROVE cfFile'[cfUsed[q]] = cfFile[cfUsed[q]]
    <3>1. cfFile[cfUsed[q]] # NoFile
      BY <1>0, <2>3 DEF OwnInv, FileThere
    <3>2. cfUsed[q] \in Places
      BY <1>0, <2>3 DEF ConfigTypes
    <3> QED BY <1>0, <2>1, <3>1, <3>2 DEF ConfigTypes
  <2> QED BY <1>0, <2>1, <2>2, <2>3, OwnFrame
<1>5. ASSUME UNCHANGED cfVars, NEW q \in ConfigProcs PROVE OwnInv(q)'
  <2>1. SameOwn(q) /\ cfFile' = cfFile /\ cfMeddled' = cfMeddled
    BY <1>5 DEF SameOwn, cfVars
  <2> QED BY <1>0, <2>1, OwnFrame
<1>6. ASSUME NEW q \in ConfigProcs PROVE OwnInv(q)'
  <2>1. CASE \E p \in ConfigProcs : ConfigStep(p) \/ ConfigKilled(p)
    <3>1. PICK p \in ConfigProcs : ConfigStep(p) \/ ConfigKilled(p)
      BY <2>1
    <3> QED BY <1>1, <1>2, <1>3, <1>6, <3>1
  <2>2. CASE \E d \in {"local", "xdg"}, f \in UserConfigs : UserSaves(d, f)
    BY <1>4, <1>6, <2>2
  <2>3. CASE UNCHANGED cfVars
    BY <1>5, <1>6, <2>3
  <2> QED BY <2>1, <2>2, <2>3 DEF ConfigNext
<1> QED BY <1>6 DEF OwnInvs

\* The emulator that starts is the one that was asked for with --type or
\* picked, and the file says so: whatever the files held, whatever a user
\* saves meanwhile and whoever is killed, unless another lstk process wrote a
\* file after this one had loaded its own. (emulator_type.go, config.go,
\* start.go)
THEOREM ChosenIsStarted == ConfigSpec => []StartsWhatWasChosen
<1>1. OwnInvs => StartsWhatWasChosen
  BY DEF OwnInvs, OwnInv, ChoiceInv, PlannedAs, StartsWhatWasChosen, UsedType, FileType
<1> QED BY <1>1, ConfigInitInv, ConfigInitOwn, UserFilesStep, OwnStep, PTL DEF ConfigSpec

-----------------------------------------------------------------------------
-----------------------------------------------------------------------------
\* Lists and what is computed of them step by step.
LEMMA ListShape ==
  ASSUME NEW s, IsList(s)
  PROVE  Len(s) \in Nat /\ DOMAIN s = 1..Len(s) /\ s = [i \in 1..Len(s) |-> s[i]]
BY DEF IsList

Elements(s) == {s[i] : i \in DOMAIN s}
LEMMA ListOver ==
  ASSUME NEW S, NEW s \in Seq(S)
  PROVE  IsList(s) /\ Elements(s) \subseteq S /\ Len(s) \in Nat /\ DOMAIN s = 1..Len(s)
<1>1. Len(s) \in Nat /\ DOMAIN s = 1..Len(s) /\ s \in [1..Len(s) -> S]
  OBVIOUS
<1>2. s \in [1..Len(s) -> Elements(s)]
  BY <1>1 DEF Elements
<1>3. s \in Seq(Elements(s))
  BY <1>1, <1>2, SeqDef
<1> QED BY <1>1, <1>3 DEF IsList, Elements

LEMMA ListBuilt ==
  ASSUME NEW n \in Nat, NEW s, s = [i \in 1..n |-> s[i]]
  PROVE  IsList(s) /\ Len(s) = n /\ DOMAIN s = 1..n
<1>1. DOMAIN s = 1..n
  OBVIOUS
<1>2. s \in [1..n -> {s[i] : i \in DOMAIN s}]
  BY <1>1
<1>3. s \in Seq({s[i] : i \in DOMAIN s})
  BY <1>2, SeqDef
<1> QED BY <1>1, <1>3 DEF IsList

LEMMA ElementsAppended ==
  ASSUME NEW S, NEW s \in Seq(S), NEW x \in S
  PROVE  Append(s, x) \in Seq(S) /\ Elements(Append(s, x)) = Elements(s) \cup {x}
<1> DEFINE t == Append(s, x)
<1>1. /\ t \in Seq(S) /\ Len(t) = Len(s) + 1
      /\ \A i \in 1..Len(s) : t[i] = s[i]
      /\ t[Len(s) + 1] = x
  BY AppendProperties
<1>2. Len(s) \in Nat /\ DOMAIN s = 1..Len(s) /\ DOMAIN t = 1..(Len(s) + 1)
  BY <1>1
<1> HIDE DEF t
<1>3. DOMAIN t = DOMAIN s \cup {Len(s) + 1}
  BY <1>2
<1>4. Elements(t) = Elements(s) \cup {x}
  BY <1>1, <1>2, <1>3 DEF Elements
<1> QED BY <1>1, <1>4 DEF t

LEMMA ElementsJoined ==
  ASSUME NEW S, NEW s \in Seq(S), NEW t \in Seq(S)
  PROVE  s \o t \in Seq(S) /\ Elements(s \o t) = Elements(s) \cup Elements(t)
<1> DEFINE u == s \o t
<1>1. /\ u \in Seq(S) /\ Len(u) = Len(s) + Len(t)
      /\ \A i \in 1..(Len(s) + Len(t)) : u[i] = IF i <= Len(s) THEN s[i] ELSE t[i - Len(s)]
  BY ConcatProperties
<1>2. PICK a \in Nat, b \in Nat : a = Len(s) /\ b = Len(t)
  OBVIOUS
<1>3. DOMAIN s = 1..a /\ DOMAIN t = 1..b /\ DOMAIN u = 1..(a + b)
  BY <1>1, <1>2
<1> HIDE DEF u
<1>4. \A i \in 1..a : u[i] = s[i] /\ i \in 1..(a + b)
  BY <1>1, <1>2
<1>5. ASSUME NEW i \in 1..b PROVE u[i + a] = t[i] /\ i + a \in 1..(a + b)
  <2>1. PICK j : j = i + a
    OBVIOUS
  <2>2. j \in 1..(a + b) /\ ~(j <= a) /\ j - a = i
    BY <1>2, <2>1
  <2>3. u[j] = t[j - a]
    BY <1>1, <1>2, <2>2
  <2> QED BY <2>1, <2>2, <2>3
<1>6. ASSUME NEW j \in 1..(a + b) PROVE (j \in 1..a /\ u[j] = s[j]) \/ \E i \in 1..b : u[j] = t[i]
  <2>1. CASE j <= a
    BY <1>4, <2>1
  <2>2. CASE ~(j <= a)
    <3>1. j - a \in 1..b /\ u[j] = t[j - a]
      BY <1>1, <1>2, <2>2
    <3> QED BY <3>1
  <2> QED BY <2>1, <2>2
<1>7. Elements(u) = Elements(s) \cup Elements(t)
  <2>1. Elements(u) \subseteq Elements(s) \cup Elements(t)
    BY <1>3, <1>6 DEF Elements
  <2>2. Elements(s) \subseteq Elements(u) /\ Elements(t) \subseteq Elements(u)
    BY <1>3, <1>4, <1>5 DEF Elements
  <2> QED BY <2>1, <2>2
<1> QED BY <1>1, <1>7 DEF u

\* Induction over the natural numbers, for a set.
Fewer == {ss \in Nat \X Nat : ss[1] < ss[2]}
LEMMA FewerWF == IsWellFoundedOn(Fewer, Nat)
<1>1. OpToRel(<, Nat) = Fewer
  BY DEF OpToRel, Fewer
<1> QED BY <1>1, NatLessThanWellFounded

LEMMA NatSetInduction ==
  ASSUME NEW S, 0 \in S, \A n \in Nat : n \in S => n + 1 \in S
  PROVE  Nat \subseteq S
<1> DEFINE T == Nat \ S
<1> SUFFICES ASSUME T # {} PROVE FALSE
  OBVIOUS
<1>1. T \subseteq Nat
  OBVIOUS
<1>2. PICK x \in T : \A y \in T : ~ (<<y, x>> \in Fewer)
  <2> HIDE DEF T
  <2> QED BY <1>1, FewerWF, WFMin
<1>3. \A y \in T : ~(y < x)
  BY <1>1, <1>2 DEF Fewer
<1>4. x # 0 /\ x \in Nat /\ x - 1 \in Nat /\ x - 1 < x
  OBVIOUS
<1>5. x - 1 \in S
  BY <1>3, <1>4
<1> QED BY <1>4, <1>5

\* What a loop computes: a value for each number of rounds.
Computes(f, n, V, base, step) ==
  /\ f \in [0..n -> V] /\ f[0] = base
  /\ \A k \in 1..n : f[k] = step[<<f[k - 1], k>>]
LEMMA LoopComputes ==
  ASSUME NEW V, NEW N \in Nat, NEW base \in V, NEW step \in [V \X (1..N) -> V]
  PROVE  \E f : Computes(f, N, V, base, step)
<1> DEFINE S == {n \in Nat : n <= N => \E f : Computes(f, n, V, base, step)}
<1>1. 0 \in S
  <2> DEFINE f == [k \in 0..0 |-> base]
  <2>1. f \in [0..0 -> V] /\ f[0] = base /\ 1..0 = {}
    OBVIOUS
  <2> HIDE DEF f
  <2>2. Computes(f, 0, V, base, step)
    BY <2>1 DEF Computes
  <2> QED BY <2>2
<1>2. ASSUME NEW n \in Nat, n \in S PROVE n + 1 \in S
  <2> SUFFICES ASSUME n + 1 <= N PROVE \E f : Computes(f, n + 1, V, base, step)
    OBVIOUS
  <2>1. n <= N
    OBVIOUS
  <2>2. PICK f : Computes(f, n, V, base, step)
    BY <1>2, <2>1
  <2>3. PICK v : v = step[<<f[n], n + 1>>]
    OBVIOUS
  <2>4. v \in V
    <3>1. f[n] \in V /\ n + 1 \in 1..N
      BY <2>2 DEF Computes
    <3> QED BY <2>3, <3>1
  <2> DEFINE g == [k \in 0..(n + 1) |-> IF k <= n THEN f[k] ELSE v]
  <2>5. /\ g \in [0..(n + 1) -> V] /\ g[0] = f[0] /\ g[n + 1] = v
        /\ \A k \in 0..n : g[k] = f[k]
    BY <2>2, <2>4 DEF Computes
  <2> HIDE DEF g
  <2>6. ASSUME NEW k \in 1..(n + 1) PROVE g[k] = step[<<g[k - 1], k>>]
    <3>1. CASE k <= n
      <4>1. k \in 1..n /\ k - 1 \in 0..n /\ k \in 0..n
        BY <3>1
      <4> QED BY <2>2, <2>5, <4>1 DEF Computes
    <3>2. CASE ~(k <= n)
      <4>1. k = n + 1 /\ k - 1 = n /\ n \in 0..n
        BY <3>2
      <4> QED BY <2>3, <2>5, <4>1
    <3> QED BY <3>1, <3>2
  <2>7. Computes(g, n + 1, V, base, step)
    BY <2>2, <2>5, <2>6 DEF Computes
  <2> QED BY <2>7
<1> HIDE DEF S
<1>3. N \in S
  BY <1>1, <1>2, NatSetInduction
<1> QED BY <1>3 DEF S
\* What Omitting and Distinct keep of the first n elements.
IsOmitted(s, gone, kept) ==
  kept = [n \in 0..Len(s) |->
            IF n = 0 THEN <<>> ELSE IF s[n] \in gone THEN kept[n - 1] ELSE Append(kept[n - 1], s[n])]
IsDistinct(s, kept) ==
  kept = [n \in 0..Len(s) |->
            IF n = 0 THEN <<>>
            ELSE IF \E k \in 1..(n - 1) : s[k] = s[n] THEN kept[n - 1] ELSE Append(kept[n - 1], s[n])]

LEMMA OmittedSteps ==
  ASSUME NEW S, NEW s \in Seq(S), NEW gone
  PROVE  \E kept : IsOmitted(s, gone, kept) /\ kept \in [0..Len(s) -> Seq(S)]
<1> DEFINE V == Seq(S)
           step == [x \in V \X (1..Len(s)) |-> IF s[x[2]] \in gone THEN x[1] ELSE Append(x[1], s[x[2]])]
<1>0. Len(s) \in Nat /\ \A n \in 1..Len(s) : s[n] \in S
  OBVIOUS
<1>1. ASSUME NEW v \in V, NEW n \in 1..Len(s)
      PROVE  /\ step[<<v, n>>] = IF s[n] \in gone THEN v ELSE Append(v, s[n])
             /\ step[<<v, n>>] \in V
  <2>1. Append(v, s[n]) \in V
    BY <1>0, AppendProperties
  <2>2. step[<<v, n>>] = IF s[n] \in gone THEN v ELSE Append(v, s[n])
    OBVIOUS
  <2> QED BY <2>1, <2>2
<1>2. step \in [V \X (1..Len(s)) -> V]
  <2>1. step = [x \in V \X (1..Len(s)) |-> step[x]]
    OBVIOUS
  <2>2. \A x \in V \X (1..Len(s)) : x = <<x[1], x[2]>> /\ x[1] \in V /\ x[2] \in 1..Len(s)
    OBVIOUS
  <2> HIDE DEF step, V
  <2>3. \A x \in V \X (1..Len(s)) : step[x] \in V
    BY <1>1, <2>2
  <2> QED BY <2>1, <2>3
<1>3. <<>> \in V
  OBVIOUS
<1> HIDE DEF V, step
<1>4. PICK kept : Computes(kept, Len(s), V, <<>>, step)
  BY <1>0, <1>2, <1>3, LoopComputes
<1>5. ASSUME NEW n \in 0..Len(s)
      PROVE  kept[n] = IF n = 0 THEN <<>> ELSE IF s[n] \in gone THEN kept[n - 1] ELSE Append(kept[n - 1], s[n])
  <2>1. CASE n = 0
    BY <1>4, <2>1 DEF Computes
  <2>2. CASE n # 0
    <3>1. n \in 1..Len(s) /\ n - 1 \in 0..Len(s)
      BY <1>0, <2>2
    <3>2. kept[n] = step[<<kept[n - 1], n>>] /\ kept[n - 1] \in V
      BY <1>4, <3>1 DEF Computes
    <3> QED BY <1>1, <2>2, <3>1, <3>2
  <2> QED BY <2>1, <2>2
<1>6. kept \in [0..Len(s) -> V]
  BY <1>4 DEF Computes
<1> QED BY <1>5, <1>6 DEF IsOmitted, V

LEMMA OmittingKeeps ==
  ASSUME NEW S, NEW s \in Seq(S), NEW gone
  PROVE  Omitting(s, gone) \in Seq(S) /\ Elements(Omitting(s, gone)) = Elements(s) \ gone
<1>1. PICK kept : IsOmitted(s, gone, kept) /\ Omitting(s, gone) = kept[Len(s)]
  <2> DEFINE k == CHOOSE k : IsOmitted(s, gone, k)
  <2>1. IsOmitted(s, gone, k)
    BY OmittedSteps
  <2>2. Omitting(s, gone) = k[Len(s)]
    BY DEF Omitting, IsOmitted
  <2> QED BY <2>1, <2>2
<1>0. Len(s) \in Nat /\ DOMAIN s = 1..Len(s) /\ \A n \in 1..Len(s) : s[n] \in S
  OBVIOUS
<1>p. \A n \in 0..Len(s) :
        kept[n] = IF n = 0 THEN <<>> ELSE IF s[n] \in gone THEN kept[n - 1] ELSE Append(kept[n - 1], s[n])
  BY <1>1, Zenon DEF IsOmitted
<1> DEFINE SoFar(n) == kept[n] \in Seq(S) /\ Elements(kept[n]) = {s[i] : i \in 1..n} \ gone
           T == {n \in Nat : n <= Len(s) => SoFar(n)}
<1>2. 0 \in T
  <2>1. kept[0] = <<>>
    BY <1>0, <1>p
  <2>2. Elements(<<>>) = {} /\ <<>> \in Seq(S)
    BY DEF Elements
  <2>3. {s[i] : i \in 1..0} = {}
    OBVIOUS
  <2>4. SoFar(0)
    BY <2>1, <2>2, <2>3
  <2> HIDE DEF SoFar
  <2> QED BY <2>4
<1>3. ASSUME NEW n \in Nat, n \in T PROVE n + 1 \in T
  <2> SUFFICES ASSUME n + 1 <= Len(s) PROVE SoFar(n + 1)
    OBVIOUS
  <2>1. SoFar(n)
    BY <1>3
  <2>2. PICK m \in 1..Len(s) : m = n + 1 /\ m - 1 = n /\ 1..m = 1..n \cup {m}
    OBVIOUS
  <2>3. kept[m] = IF s[m] \in gone THEN kept[n] ELSE Append(kept[n], s[m])
    <3>1. m \in 0..Len(s) /\ m # 0
      BY <2>2
    <3> QED BY <1>p, <2>2, <3>1
  <2>4. {s[i] : i \in 1..m} = {s[i] : i \in 1..n} \cup {s[m]}
    BY <2>2
  <2>5. CASE s[m] \in gone
    BY <2>1, <2>2, <2>3, <2>4, <2>5
  <2>6. CASE s[m] \notin gone
    <3>1. Append(kept[n], s[m]) \in Seq(S) /\ Elements(Append(kept[n], s[m])) = Elements(kept[n]) \cup {s[m]}
      BY <1>0, <2>1, ElementsAppended
    <3> QED BY <2>1, <2>2, <2>3, <2>4, <2>6, <3>1
  <2> QED BY <2>5, <2>6
<1> HIDE DEF T
<1>4. Len(s) \in T
  BY <1>0, <1>2, <1>3, NatSetInduction
<1>5. SoFar(Len(s))
  BY <1>0, <1>4 DEF T
<1> QED BY <1>0, <1>1, <1>5 DEF Elements

LEMMA DistinctSteps ==
  ASSUME NEW S, NEW s \in Seq(S)
  PROVE  \E kept : IsDistinct(s, kept) /\ kept \in [0..Len(s) -> Seq(S)]
<1> DEFINE V == Seq(S)
           step == [x \in V \X (1..Len(s)) |->
                      IF \E k \in 1..(x[2] - 1) : s[k] = s[x[2]] THEN x[1] ELSE Append(x[1], s[x[2]])]
<1>0. Len(s) \in Nat /\ \A n \in 1..Len(s) : s[n] \in S
  OBVIOUS
<1>1. ASSUME NEW v \in V, NEW n \in 1..Len(s)
      PROVE  /\ step[<<v, n>>] = IF \E k \in 1..(n - 1) : s[k] = s[n] THEN v ELSE Append(v, s[n])
             /\ step[<<v, n>>] \in V
  <2>1. Append(v, s[n]) \in V
    BY <1>0, AppendProperties
  <2>2. step[<<v, n>>] = IF \E k \in 1..(n - 1) : s[k] = s[n] THEN v ELSE Append(v, s[n])
    OBVIOUS
  <2> QED BY <2>1, <2>2
<1>2. step \in [V \X (1..Len(s)) -> V]
  <2>1. step = [x \in V \X (1..Len(s)) |-> step[x]]
    OBVIOUS
  <2>2. \A x \in V \X (1..Len(s)) : x = <<x[1], x[2]>> /\ x[1] \in V /\ x[2] \in 1..Len(s)
    OBVIOUS
  <2> HIDE DEF step, V
  <2>3. \A x \in V \X (1..Len(s)) : step[x] \in V
    BY <1>1, <2>2
  <2> QED BY <2>1, <2>3
<1>3. <<>> \in V
  OBVIOUS
<1> HIDE DEF V, step
<1>4. PICK kept : Computes(kept, Len(s), V, <<>>, step)
  BY <1>0, <1>2, <1>3, LoopComputes
<1>5. ASSUME NEW n \in 0..Len(s)
      PROVE  kept[n] = IF n = 0 THEN <<>>
                       ELSE IF \E k \in 1..(n - 1) : s[k] = s[n] THEN kept[n - 1] ELSE Append(kept[n - 1], s[n])
  <2>1. CASE n = 0
    BY <1>4, <2>1 DEF Computes
  <2>2. CASE n # 0
    <3>1. n \in 1..Len(s) /\ n - 1 \in 0..Len(s)
      BY <1>0, <2>2
    <3>2. kept[n] = step[<<kept[n - 1], n>>] /\ kept[n - 1] \in V
      BY <1>4, <3>1 DEF Computes
    <3> QED BY <1>1, <2>2, <3>1, <3>2
  <2> QED BY <2>1, <2>2
<1>6. kept \in [0..Len(s) -> V]
  BY <1>4 DEF Computes
<1> QED BY <1>5, <1>6 DEF IsDistinct, V

LEMMA DistinctKeeps ==
  ASSUME NEW S, NEW s \in Seq(S)
  PROVE  Distinct(s) \in Seq(S)
<1>1. PICK kept : IsDistinct(s, kept) /\ Distinct(s) = kept[Len(s)]
  <2> DEFINE k == CHOOSE k : IsDistinct(s, k)
  <2>1. IsDistinct(s, k)
    BY DistinctSteps
  <2>2. Distinct(s) = k[Len(s)]
    BY DEF Distinct, IsDistinct
  <2> QED BY <2>1, <2>2
<1>0. Len(s) \in Nat /\ \A n \in 1..Len(s) : s[n] \in S
  OBVIOUS
<1>p. \A n \in 0..Len(s) :
        kept[n] = IF n = 0 THEN <<>>
                  ELSE IF \E k \in 1..(n - 1) : s[k] = s[n] THEN kept[n - 1] ELSE Append(kept[n - 1], s[n])
  BY <1>1, Zenon DEF IsDistinct
<1> DEFINE T == {n \in Nat : n <= Len(s) => kept[n] \in Seq(S)}
<1>2. 0 \in T
  <2>1. kept[0] = <<>>
    BY <1>0, <1>p
  <2>2. <<>> \in Seq(S)
    OBVIOUS
  <2> QED BY <2>1, <2>2
<1>3. ASSUME NEW n \in Nat, n \in T PROVE n + 1 \in T
  <2> SUFFICES ASSUME n + 1 <= Len(s) PROVE kept[n + 1] \in Seq(S)
    OBVIOUS
  <2>1. kept[n] \in Seq(S)
    BY <1>3
  <2>2. PICK m \in 1..Len(s) : m = n + 1 /\ m - 1 = n
    OBVIOUS
  <2>3. kept[m] = kept[n] \/ kept[m] = Append(kept[n], s[m])
    <3>1. m \in 0..Len(s) /\ m # 0
      BY <2>2
    <3> QED BY <1>p, <2>2, <3>1
  <2>4. Append(kept[n], s[m]) \in Seq(S)
    BY <1>0, <2>1, AppendProperties
  <2> QED BY <2>1, <2>2, <2>3, <2>4
<1> HIDE DEF T
<1>4. Len(s) \in T
  BY <1>0, <1>2, <1>3, NatSetInduction
<1> QED BY <1>0, <1>1, <1>4 DEF T
\* What an expose_ports entry asks for is never given up when it is busy.
LEMMA EntryParsed ==
  ASSUME NEW e
  PROVE  /\ ParseExposePort(e) \in Seq(Elements(ParseExposePort(e)))
         /\ \A m \in Elements(ParseExposePort(e)) : m.optional = FALSE
<1> DEFINE asked == ParseExposePort(e)
           protos == IF e.proto = "" THEN <<"tcp", "udp">> ELSE <<e.proto>>
<1>1. PICK n \in Nat : DOMAIN protos = 1..n
  <2>1. DOMAIN <<"tcp", "udp">> = 1..2 /\ DOMAIN <<e.proto>> = 1..1
    OBVIOUS
  <2> QED BY <2>1
<1>2. asked = [i \in DOMAIN protos |->
                 [host |-> IF e.host = 0 THEN e.container ELSE e.host, container |-> e.container,
                  proto |-> protos[i], optional |-> FALSE]]
  BY DEF ParseExposePort
<1> HIDE DEF asked, protos
<1>3. DOMAIN asked = 1..n /\ asked = [i \in 1..n |-> asked[i]] /\ \A i \in 1..n : asked[i].optional = FALSE
  BY <1>1, <1>2
<1>4. IsList(asked) /\ \A m \in Elements(asked) : m.optional = FALSE
  BY <1>3, ListBuilt DEF Elements
<1>5. asked \in Seq(Elements(asked)) /\ \A m \in Elements(asked) : m.optional = FALSE
  BY <1>4 DEF IsList, Elements
<1> QED BY <1>5 DEF asked

EntriesAsked(entries) == UNION {Elements(ParseExposePort(entries[i])) : i \in 1..Len(entries)}
IsParsed(entries, all) ==
  all = [i \in 0..Len(entries) |-> IF i = 0 THEN <<>> ELSE all[i - 1] \o ParseExposePort(entries[i])]

LEMMA ParsedSteps ==
  ASSUME NEW entries, IsList(entries)
  PROVE  /\ \E all : IsParsed(entries, all)
         /\ \A i \in 1..Len(entries) : ParseExposePort(entries[i]) \in Seq(EntriesAsked(entries))
<1> DEFINE V == Seq(EntriesAsked(entries))
           N == Len(entries)
           step == [x \in V \X (1..N) |-> x[1] \o ParseExposePort(entries[x[2]])]
<1>0. N \in Nat
  BY ListShape
<1>1. ASSUME NEW i \in 1..N PROVE ParseExposePort(entries[i]) \in V
  <2>1. Elements(ParseExposePort(entries[i])) \subseteq EntriesAsked(entries)
    BY DEF EntriesAsked
  <2>2. PICK t : t = ParseExposePort(entries[i])
    OBVIOUS
  <2>3. t \in Seq(Elements(t))
    BY <2>2, EntryParsed
  <2> QED BY <2>1, <2>2, <2>3
<1>2. ASSUME NEW v \in V, NEW i \in 1..N
      PROVE  step[<<v, i>>] = v \o ParseExposePort(entries[i]) /\ step[<<v, i>>] \in V
  <2>1. v \o ParseExposePort(entries[i]) \in V
    BY <1>1, ElementsJoined
  <2>2. step[<<v, i>>] = v \o ParseExposePort(entries[i])
    OBVIOUS
  <2> QED BY <2>1, <2>2
<1>3. step \in [V \X (1..N) -> V]
  <2>1. step = [x \in V \X (1..N) |-> step[x]]
    OBVIOUS
  <2>2. \A x \in V \X (1..N) : x = <<x[1], x[2]>> /\ x[1] \in V /\ x[2] \in 1..N
    OBVIOUS
  <2> HIDE DEF step, V, N
  <2>3. \A x \in V \X (1..N) : step[x] \in V
    BY <1>2, <2>2
  <2> QED BY <2>1, <2>3
<1>4. <<>> \in V
  OBVIOUS
<1> HIDE DEF V, step
<1>5. PICK all : Computes(all, N, V, <<>>, step)
  BY <1>0, <1>3, <1>4, LoopComputes
<1>6. ASSUME NEW i \in 0..N
      PROVE  all[i] = IF i = 0 THEN <<>> ELSE all[i - 1] \o ParseExposePort(entries[i])
  <2>1. CASE i = 0
    BY <1>5, <2>1 DEF Computes
  <2>2. CASE i # 0
    <3>1. i \in 1..N /\ i - 1 \in 0..N
      BY <1>0, <2>2
    <3>2. all[i] = step[<<all[i - 1], i>>] /\ all[i - 1] \in V
      BY <1>5, <3>1 DEF Computes
    <3> QED BY <1>2, <2>2, <3>1, <3>2
  <2> QED BY <2>1, <2>2
<1>7. all = [i \in 0..N |-> all[i]]
  BY <1>5 DEF Computes
<1>8. IsParsed(entries, all)
  BY <1>6, <1>7 DEF IsParsed
<1> QED BY <1>1, <1>8 DEF V

LEMMA ExposeParsed ==
  ASSUME NEW entries, IsList(entries)
  PROVE  ParseExposePorts(entries) \in Seq(EntriesAsked(entries))
<1>1. PICK all : IsParsed(entries, all) /\ ParseExposePorts(entries) = all[Len(entries)]
  <2> DEFINE k == CHOOSE k : IsParsed(entries, k)
  <2>1. IsParsed(entries, k)
    BY ParsedSteps
  <2>2. ParseExposePorts(entries) = k[Len(entries)]
    BY DEF ParseExposePorts, IsParsed
  <2> QED BY <2>1, <2>2
<1>0. Len(entries) \in Nat /\ \A i \in 1..Len(entries) : ParseExposePort(entries[i]) \in Seq(EntriesAsked(entries))
  BY ListShape, ParsedSteps
<1>p. \A i \in 0..Len(entries) :
        all[i] = IF i = 0 THEN <<>> ELSE all[i - 1] \o ParseExposePort(entries[i])
  BY <1>1, Zenon DEF IsParsed
<1> DEFINE T == {i \in Nat : i <= Len(entries) => all[i] \in Seq(EntriesAsked(entries))}
<1>2. 0 \in T
  <2>1. all[0] = <<>>
    BY <1>0, <1>p
  <2>2. <<>> \in Seq(EntriesAsked(entries))
    OBVIOUS
  <2> QED BY <2>1, <2>2
<1>3. ASSUME NEW i \in Nat, i \in T PROVE i + 1 \in T
  <2> SUFFICES ASSUME i + 1 <= Len(entries) PROVE all[i + 1] \in Seq(EntriesAsked(entries))
    OBVIOUS
  <2>1. all[i] \in Seq(EntriesAsked(entries))
    BY <1>3
  <2>2. PICK m \in 1..Len(entries) : m = i + 1 /\ m - 1 = i
    OBVIOUS
  <2>3. all[m] = all[i] \o ParseExposePort(entries[m])
    <3>1. m \in 0..Len(entries) /\ m # 0
      BY <2>2
    <3> QED BY <1>p, <2>2, <3>1
  <2>4. ParseExposePort(entries[m]) \in Seq(EntriesAsked(entries))
    BY <1>0
  <2>5. all[i] \o ParseExposePort(entries[m]) \in Seq(EntriesAsked(entries))
    BY <2>1, <2>4, ElementsJoined
  <2> QED BY <2>2, <2>3, <2>5
<1> HIDE DEF T
<1>4. Len(entries) \in T
  BY <1>0, <1>2, <1>3, NatSetInduction
<1> QED BY <1>0, <1>1, <1>4 DEF T

LEMMA ExposeSpecsAre ==
  ASSUME NEW c, IsList(c.expose)
  PROVE  /\ ExposeSpecs(c) \in Seq(EntriesAsked(c.expose))
         /\ \A m \in EntriesAsked(c.expose) : m.optional = FALSE
<1>1. ExposeSpecs(c) \in Seq(EntriesAsked(c.expose))
  BY ExposeParsed, DistinctKeeps DEF ExposeSpecs
<1>2. ASSUME NEW m \in EntriesAsked(c.expose) PROVE m.optional = FALSE
  <2>1. PICK i \in 1..Len(c.expose) : m \in Elements(ParseExposePort(c.expose[i]))
    BY DEF EntriesAsked
  <2> QED BY <2>1, EntryParsed
<1> QED BY <1>1, <1>2
\* The mappings of lstk's own: the gateway's ports and the service range.
GatewayPorts(c, named) == ExtraGatewayPorts(ParseGatewayListen(Gateway(c, named)), Gateway(c, named) = <<>>)
OwnPorts(c, named) == GatewayPorts(c, named) \o ServicePortRange

LEMMA GatewayPortsAre ==
  ASSUME NEW g, IsList(g), NEW defaulted
  PROVE  \E S : ExtraGatewayPorts(g, defaulted) \in Seq(S)
<1> DEFINE all == [i \in DOMAIN g |-> Mapping(g[i].port, g[i].port, "tcp", defaulted)]
           gone == {Mapping(n, n, "tcp", defaulted) : n \in ServicePorts \cup {DefaultPort}}
           S == Elements(all)
<1>1. Len(g) \in Nat /\ DOMAIN g = 1..Len(g)
  BY ListShape
<1>2. DOMAIN all = 1..Len(g)
  BY <1>1
<1>3. ExtraGatewayPorts(g, defaulted) = Distinct(Omitting(all, gone))
  BY DEF ExtraGatewayPorts
<1> HIDE DEF all, gone
<1>4. all = [i \in 1..Len(g) |-> all[i]]
  BY <1>1 DEF all
<1>5. all \in Seq(S)
  BY <1>1, <1>4, ListBuilt DEF IsList, Elements
<1> HIDE DEF S
<1>6. Distinct(Omitting(all, gone)) \in Seq(S)
  BY <1>5, OmittingKeeps, DistinctKeeps
<1> QED BY <1>3, <1>6

LEMMA ServicePortsAre == \E S : ServicePortRange \in Seq(S)
<1> DEFINE first == CHOOSE n \in ServicePorts : \A k \in ServicePorts : n <= k
<1>1. Cardinality(ServicePorts) \in Nat
  BY PlanConstants, FS_CardinalityType
<1>2. ServicePortRange =
        [i \in 1..Cardinality(ServicePorts) |-> Mapping(first + i - 1, first + i - 1, "tcp", FALSE)]
  BY DEF ServicePortRange
<1>3. ServicePortRange = [i \in 1..Cardinality(ServicePorts) |-> ServicePortRange[i]]
  BY <1>2
<1>4. IsList(ServicePortRange)
  BY <1>1, <1>3, ListBuilt
<1> QED BY <1>4 DEF IsList

LEMMA DefaultGateway ==
  ASSUME NEW value, IsList(value)
  PROVE  IsList(ParseGatewayListen(value))
<1>1. CASE value = <<>>
  <2> DEFINE g == <<[host |-> "", port |-> 4566], [host |-> "", port |-> 443]>>
  <2>1. g = [i \in 1..2 |-> g[i]]
    OBVIOUS
  <2>2. ParseGatewayListen(value) = g
    BY <1>1 DEF ParseGatewayListen
  <2> HIDE DEF g
  <2> QED BY <2>1, <2>2, ListBuilt
<1>2. CASE value # <<>>
  BY <1>2 DEF ParseGatewayListen
<1> QED BY <1>1, <1>2

LEMMA OwnPortsAre ==
  ASSUME NEW c, NEW named, IsList(Gateway(c, named))
  PROVE  \E S : OwnPorts(c, named) \in Seq(S)
<1>1. PICK S : GatewayPorts(c, named) \in Seq(S)
  BY DefaultGateway, GatewayPortsAre DEF GatewayPorts
<1>2. PICK U : ServicePortRange \in Seq(U)
  BY ServicePortsAre
<1>3. GatewayPorts(c, named) \in Seq(S \cup U) /\ ServicePortRange \in Seq(S \cup U)
  BY <1>1, <1>2
<1>4. OwnPorts(c, named) \in Seq(S \cup U)
  BY <1>3, ElementsJoined DEF OwnPorts
<1> QED BY <1>4

\* What the profiles say of the gateway is a list, whichever comes last.
IsResolved(c, named, all) ==
  all = [i \in 0..Len(c.env) |-> IF i = 0 THEN [x \in {} |-> ""] ELSE Over(all[i - 1], named[c.env[i]])]
ListsGateway(env) == "GATEWAY_LISTEN" \in DOMAIN env => IsList(env["GATEWAY_LISTEN"])

\* A table that holds only names and values of some tables.
TablesOver(X, R) == UNION {[D -> R] : D \in SUBSET X}
Within(g, X, R) == DOMAIN g \subseteq X /\ \A k \in DOMAIN g : g[k] \in R
LEMMA OverTables ==
  ASSUME NEW X, NEW R, NEW f \in TablesOver(X, R), NEW g, Within(g, X, R)
  PROVE  Over(f, g) \in TablesOver(X, R)
<1>1. PICK D \in SUBSET X : f \in [D -> R]
  BY DEF TablesOver
<1>2. Over(f, g) = [k \in D \cup DOMAIN g |-> IF k \in DOMAIN g THEN g[k] ELSE f[k]]
  BY <1>1 DEF Over
<1>3. \A k \in D \cup DOMAIN g : (IF k \in DOMAIN g THEN g[k] ELSE f[k]) \in R
  BY <1>1 DEF Within
<1>4. Over(f, g) \in [D \cup DOMAIN g -> R]
  BY <1>2, <1>3
<1>5. D \cup DOMAIN g \in SUBSET X
  BY DEF Within
<1> QED BY <1>4, <1>5 DEF TablesOver

LEMMA ResolvedSteps ==
  ASSUME NEW c, NEW named, IsList(c.env), EnvKnown(c, named)
  PROVE  \E all : IsResolved(c, named, all)
<1> DEFINE X == UNION {DOMAIN named[n] : n \in DOMAIN named}
           R == UNION {{named[n][k] : k \in DOMAIN named[n]} : n \in DOMAIN named}
           V == TablesOver(X, R)
           N == Len(c.env)
           none == [x \in {} |-> ""]
           step == [x \in V \X (1..N) |-> Over(x[1], named[c.env[x[2]]])]
<1>0. N \in Nat /\ DOMAIN c.env = 1..N
  BY ListShape
<1>1. ASSUME NEW i \in 1..N PROVE Within(named[c.env[i]], X, R)
  <2>1. PICK n \in DOMAIN named : n = c.env[i]
    BY <1>0 DEF EnvKnown
  <2>2. DOMAIN named[n] \subseteq X /\ \A k \in DOMAIN named[n] : named[n][k] \in R
    OBVIOUS
  <2> HIDE DEF X, R
  <2> QED BY <2>1, <2>2 DEF Within
<1>2. ASSUME NEW v \in V, NEW i \in 1..N
      PROVE  step[<<v, i>>] = Over(v, named[c.env[i]]) /\ step[<<v, i>>] \in V
  <2>1. Over(v, named[c.env[i]]) \in V
    <3> HIDE DEF X, R
    <3> QED BY <1>1, OverTables
  <2>2. step[<<v, i>>] = Over(v, named[c.env[i]])
    OBVIOUS
  <2> QED BY <2>1, <2>2
<1>3. step \in [V \X (1..N) -> V]
  <2>1. step = [x \in V \X (1..N) |-> step[x]]
    OBVIOUS
  <2>2. \A x \in V \X (1..N) : x = <<x[1], x[2]>> /\ x[1] \in V /\ x[2] \in 1..N
    OBVIOUS
  <2> HIDE DEF step, V, N
  <2>3. \A x \in V \X (1..N) : step[x] \in V
    BY <1>2, <2>2
  <2> QED BY <2>1, <2>3
<1>4. none \in V
  <2> HIDE DEF X, R
  <2>1. none \in [{} -> R] /\ {} \in SUBSET X
    OBVIOUS
  <2> HIDE DEF none
  <2> QED BY <2>1 DEF TablesOver
<1> HIDE DEF V, step, none
<1>5. PICK all : Computes(all, N, V, none, step)
  BY <1>0, <1>3, <1>4, LoopComputes
<1>6. ASSUME NEW i \in 0..N
      PROVE  all[i] = IF i = 0 THEN none ELSE Over(all[i - 1], named[c.env[i]])
  <2>1. CASE i = 0
    BY <1>5, <2>1 DEF Computes
  <2>2. CASE i # 0
    <3>1. i \in 1..N /\ i - 1 \in 0..N
      BY <1>0, <2>2
    <3>2. all[i] = step[<<all[i - 1], i>>] /\ all[i - 1] \in V
      BY <1>5, <3>1 DEF Computes
    <3> QED BY <1>2, <2>2, <3>1, <3>2
  <2> QED BY <2>1, <2>2
<1>7. all = [i \in 0..N |-> all[i]]
  BY <1>5 DEF Computes
<1>8. IsResolved(c, named, all)
  BY <1>6, <1>7 DEF IsResolved, none
<1> QED BY <1>8

LEMMA ResolvedLists ==
  ASSUME NEW c, NEW named, IsList(c.env), EnvKnown(c, named),
         \A n \in DOMAIN named : ListsGateway(named[n])
  PROVE  IsList(Gateway(c, named))
<1>1. PICK all : IsResolved(c, named, all) /\ ResolvedEnv(c, named) = all[Len(c.env)]
  <2> DEFINE k == CHOOSE k : IsResolved(c, named, k)
  <2>1. IsResolved(c, named, k)
    BY ResolvedSteps
  <2>2. ResolvedEnv(c, named) = k[Len(c.env)]
    BY DEF ResolvedEnv, IsResolved
  <2> QED BY <2>1, <2>2
<1>0. Len(c.env) \in Nat /\ DOMAIN c.env = 1..Len(c.env)
  BY ListShape
<1>p. \A i \in 0..Len(c.env) :
        all[i] = IF i = 0 THEN [x \in {} |-> ""] ELSE Over(all[i - 1], named[c.env[i]])
  BY <1>1, Zenon DEF IsResolved
<1> DEFINE T == {i \in Nat : i <= Len(c.env) => ListsGateway(all[i])}
<1>2. 0 \in T
  <2>1. all[0] = [x \in {} |-> ""]
    BY <1>0, <1>p
  <2>2. ListsGateway(all[0])
    BY <2>1 DEF ListsGateway
  <2> QED BY <2>2
<1>3. ASSUME NEW i \in Nat, i \in T PROVE i + 1 \in T
  <2> SUFFICES ASSUME i + 1 <= Len(c.env) PROVE ListsGateway(all[i + 1])
    OBVIOUS
  <2>1. ListsGateway(all[i])
    BY <1>3
  <2>2. PICK m \in 1..Len(c.env) : m = i + 1 /\ m - 1 = i
    OBVIOUS
  <2>3. all[m] = Over(all[i], named[c.env[m]])
    <3>1. m \in 0..Len(c.env) /\ m # 0
      BY <2>2
    <3> QED BY <1>p, <2>2, <3>1
  <2>4. c.env[m] \in DOMAIN named
    BY <1>0 DEF EnvKnown
  <2>5. ListsGateway(named[c.env[m]])
    BY <2>4
  <2>6. ListsGateway(all[m])
    BY <2>1, <2>3, <2>5 DEF ListsGateway, Over
  <2> QED BY <2>2, <2>6
<1> HIDE DEF T
<1>4. Len(c.env) \in T
  BY <1>0, <1>2, <1>3, NatSetInduction
<1>5. ListsGateway(ResolvedEnv(c, named))
  BY <1>0, <1>1, <1>4 DEF T
<1>6. IsList(<<>>)
  BY DEF IsList
<1> QED BY <1>5, <1>6 DEF Gateway, ListsGateway
\* What is published besides lstk's own after n entries of expose_ports, and
\* what became of those entries.
IsMerged(edge, mappings, exposed, merged) ==
  merged = [i \in 0..Len(exposed) |->
              IF i = 0 THEN mappings
              ELSE IF Clash(edge, exposed[i]) \/ \E k \in DOMAIN merged[i - 1] : Clash(merged[i - 1][k], exposed[i])
                   THEN merged[i - 1] ELSE Append(merged[i - 1], exposed[i])]
Apart(edge, own, ports) ==
  \A m \in Elements(ports) \ own, n \in Elements(ports) \cup {edge} : m # n => ~Clash(m, n)
AskedFor(own, exposed, ports, n) ==
  \A m \in Elements(ports) \ own : \E j \in 1..n : m = exposed[j]
Accounted(edge, own, exposed, ports, n) ==
  \A j \in 1..n :
    \/ exposed[j] \in Elements(ports)
    \/ \E m \in own \cup {edge} : Clash(m, exposed[j])
    \/ \E i \in 1..(j - 1) : Clash(exposed[i], exposed[j])

LEMMA MergedSteps ==
  ASSUME NEW S, NEW edge, NEW mappings \in Seq(S), NEW exposed \in Seq(S)
  PROVE  \E merged : IsMerged(edge, mappings, exposed, merged)
<1> DEFINE V == Seq(S)
           N == Len(exposed)
           Out(v, i) == Clash(edge, exposed[i]) \/ \E k \in DOMAIN v : Clash(v[k], exposed[i])
           step == [x \in V \X (1..N) |-> IF Out(x[1], x[2]) THEN x[1] ELSE Append(x[1], exposed[x[2]])]
<1>0. N \in Nat /\ \A i \in 1..N : exposed[i] \in S
  OBVIOUS
<1>1. ASSUME NEW v \in V, NEW i \in 1..N
      PROVE  /\ step[<<v, i>>] = IF Out(v, i) THEN v ELSE Append(v, exposed[i])
             /\ step[<<v, i>>] \in V
  <2>1. Append(v, exposed[i]) \in V
    BY <1>0, AppendProperties
  <2> HIDE DEF Out
  <2>2. step[<<v, i>>] = IF Out(v, i) THEN v ELSE Append(v, exposed[i])
    OBVIOUS
  <2> QED BY <2>1, <2>2
<1>2. step \in [V \X (1..N) -> V]
  <2>1. step = [x \in V \X (1..N) |-> step[x]]
    <3> HIDE DEF Out
    <3> QED OBVIOUS
  <2>2. \A x \in V \X (1..N) : x = <<x[1], x[2]>> /\ x[1] \in V /\ x[2] \in 1..N
    OBVIOUS
  <2> HIDE DEF step, V, N, Out
  <2>3. \A x \in V \X (1..N) : step[x] \in V
    BY <1>1, <2>2
  <2> QED BY <2>1, <2>3
<1>3. mappings \in V
  OBVIOUS
<1> HIDE DEF V, step, Out
<1>4. PICK merged : Computes(merged, N, V, mappings, step)
  BY <1>0, <1>2, <1>3, LoopComputes
<1>5. ASSUME NEW i \in 0..N
      PROVE  merged[i] = IF i = 0 THEN mappings
                         ELSE IF Out(merged[i - 1], i) THEN merged[i - 1] ELSE Append(merged[i - 1], exposed[i])
  <2>1. CASE i = 0
    BY <1>4, <2>1 DEF Computes
  <2>2. CASE i # 0
    <3>1. i \in 1..N /\ i - 1 \in 0..N
      BY <1>0, <2>2
    <3>2. merged[i] = step[<<merged[i - 1], i>>] /\ merged[i - 1] \in V
      BY <1>4, <3>1 DEF Computes
    <3> QED BY <1>1, <2>2, <3>1, <3>2
  <2> QED BY <2>1, <2>2
<1>6. merged = [i \in 0..N |-> merged[i]]
  BY <1>4 DEF Computes
<1>7. merged = [i \in 0..N |-> IF i = 0 THEN mappings
                               ELSE IF Out(merged[i - 1], i) THEN merged[i - 1] ELSE Append(merged[i - 1], exposed[i])]
  BY <1>5, <1>6
<1> QED BY <1>7 DEF IsMerged, Out

LEMMA ClashBothWays == \A a, b : Clash(a, b) <=> Clash(b, a)
BY DEF Clash

LEMMA MergeFits ==
  ASSUME NEW S, NEW edge, NEW mappings \in Seq(S), NEW exposed \in Seq(S)
  PROVE  LET ports == MergeExposePorts(edge, mappings, exposed)
             own == Elements(mappings) \cup {edge}
         IN  ports \in Seq(S) /\ Apart(edge, own, ports) /\ Accounted(edge, own, exposed, ports, Len(exposed))
<1>1. PICK merged : IsMerged(edge, mappings, exposed, merged)
                    /\ MergeExposePorts(edge, mappings, exposed) = merged[Len(exposed)]
  <2> DEFINE k == CHOOSE k : IsMerged(edge, mappings, exposed, k)
  <2>1. IsMerged(edge, mappings, exposed, k)
    BY MergedSteps
  <2>2. MergeExposePorts(edge, mappings, exposed) = k[Len(exposed)]
    BY DEF MergeExposePorts, IsMerged
  <2> QED BY <2>1, <2>2
<1>0. Len(exposed) \in Nat /\ \A i \in 1..Len(exposed) : exposed[i] \in S
  OBVIOUS
<1>p. \A i \in 0..Len(exposed) :
        merged[i] = IF i = 0 THEN mappings
                    ELSE IF Clash(edge, exposed[i]) \/ \E k \in DOMAIN merged[i - 1] : Clash(merged[i - 1][k], exposed[i])
                         THEN merged[i - 1] ELSE Append(merged[i - 1], exposed[i])
  BY <1>1, Zenon DEF IsMerged
<1> DEFINE own == Elements(mappings) \cup {edge}
           Merged(n) == /\ merged[n] \in Seq(S)
                        /\ Apart(edge, own, merged[n]) /\ AskedFor(own, exposed, merged[n], n)
                        /\ Accounted(edge, own, exposed, merged[n], n)
           T == {n \in Nat : n <= Len(exposed) => Merged(n)}
<1> HIDE DEF Merged
<1>2. 0 \in T
  <2>1. merged[0] = mappings
    BY <1>0, <1>p
  <2>2. Merged(0)
    BY <2>1 DEF Merged, Apart, AskedFor, Accounted
  <2> QED BY <2>2
<1>3. ASSUME NEW n \in Nat, n \in T PROVE n + 1 \in T
  <2> SUFFICES ASSUME n + 1 <= Len(exposed) PROVE Merged(n + 1)
    OBVIOUS
  <2>1. Merged(n)
    BY <1>3
  <2>2. PICK m \in 1..Len(exposed) : m = n + 1 /\ m - 1 = n /\ 1..m = 1..n \cup {m} /\ 1..(m - 1) = 1..n
    OBVIOUS
  <2>3. PICK e \in S : e = exposed[m]
    BY <1>0
  <2>4. PICK v \in Seq(S) : v = merged[n]
    BY <2>1 DEF Merged
  <2>5. Apart(edge, own, v) /\ AskedFor(own, exposed, v, n) /\ Accounted(edge, own, exposed, v, n)
    BY <2>1, <2>4 DEF Merged
  <2>6. merged[m] = IF Clash(edge, e) \/ \E k \in DOMAIN v : Clash(v[k], e) THEN v ELSE Append(v, e)
    <3>1. m \in 0..Len(exposed) /\ m # 0
      BY <2>2
    <3> QED BY <1>p, <2>2, <2>3, <2>4, <3>1
  <2>7. (\E k \in DOMAIN v : Clash(v[k], e)) <=> \E x \in Elements(v) : Clash(x, e)
    BY DEF Elements
  <2>8. CASE Clash(edge, e) \/ \E x \in Elements(v) : Clash(x, e)
    <3>1. merged[m] = v
      BY <2>6, <2>7, <2>8
    <3>2. AskedFor(own, exposed, v, m)
      BY <2>2, <2>5 DEF AskedFor
    <3>3. (\E x \in own \cup {edge} : Clash(x, e)) \/ \E i \in 1..n : Clash(exposed[i], e)
      <4>1. CASE Clash(edge, e)
        BY <4>1
      <4>2. ASSUME NEW x \in Elements(v), Clash(x, e)
            PROVE  (\E y \in own \cup {edge} : Clash(y, e)) \/ \E i \in 1..n : Clash(exposed[i], e)
        BY <2>5, <4>2 DEF AskedFor
      <4> QED BY <2>8, <4>1, <4>2
    <3>4. Accounted(edge, own, exposed, v, m)
      BY <2>2, <2>3, <2>5, <3>3 DEF Accounted
    <3> QED BY <2>2, <2>5, <3>1, <3>2, <3>4 DEF Merged
  <2>9. CASE ~Clash(edge, e) /\ \A x \in Elements(v) : ~Clash(x, e)
    <3>1. PICK w \in Seq(S) : w = Append(v, e) /\ Elements(w) = Elements(v) \cup {e}
      BY ElementsAppended
    <3>2. merged[m] = w
      BY <2>6, <2>7, <2>9, <3>1
    <3>3. Apart(edge, own, w)
      BY <2>5, <2>9, <3>1, ClashBothWays DEF Apart
    <3>4. AskedFor(own, exposed, w, m)
      BY <2>2, <2>3, <2>5, <3>1 DEF AskedFor
    <3>5. Accounted(edge, own, exposed, w, m)
      BY <2>2, <2>3, <2>5, <3>1 DEF Accounted
    <3> QED BY <2>2, <3>2, <3>3, <3>4, <3>5 DEF Merged
  <2> QED BY <2>8, <2>9
<1> HIDE DEF T
<1>4. Len(exposed) \in T
  BY <1>0, <1>2, <1>3, NatSetInduction
<1> QED BY <1>0, <1>1, <1>4 DEF T, Merged
\* A plan publishes what was asked for without a clash, or warns.
Published(plan) == Elements(plan.ports)
OwnOf(c, named) == Elements(OwnPorts(c, named)) \cup {EdgeMapping(c)}
Requested(c) == Elements(ExposeSpecs(c))
FitsApart(plan, c, named) ==
  \A m \in Published(plan) \ OwnOf(c, named), n \in Published(plan) \cup {plan.edge} : m # n => ~Clash(m, n)
FitsAsked(plan, c, named) ==
  Requested(c) \subseteq Published(plan) \cup plan.warned
                         \cup {[m EXCEPT !.optional = FALSE] : m \in OwnOf(c, named)}
LEMMA FitsInTwo ==
  ASSUME NEW plan, NEW c, NEW named
  PROVE  PortsFit(plan, c, named) <=> FitsApart(plan, c, named) /\ FitsAsked(plan, c, named)
<1>1. OwnMappings(c, named) = OwnOf(c, named)
  BY DEF OwnMappings, OwnOf, OwnPorts, GatewayPorts, Elements
<1> QED BY <1>1, Zenon DEF PortsFit, FitsApart, FitsAsked, Published, Requested, Elements

Readable(c, named) ==
  /\ IsList(c.expose) /\ IsList(c.env)
  /\ \A n \in DOMAIN named : ListsGateway(named[n])
PlanFields == {"rejected", "type", "name", "env", "edge", "ports", "warned"}
OwnValues(plan) ==
  plan.env["LOCALSTACK_AUTH_TOKEN"] = "token" /\ plan.env["MAIN_CONTAINER_NAME"] = plan.name
Fits(plan, c, named) == PortsFit(plan, c, named) /\ IsList(plan.ports) /\ PlanFields \subseteq DOMAIN plan

\* Two entries that are asked for never clash, once the config is valid.
LEMMA AskedApart ==
  ASSUME NEW c, IsList(c.expose), ValidExpose(c)
  PROVE  \A i, j \in 1..Len(ExposeSpecs(c)) : i # j => ~Clash(ExposeSpecs(c)[i], ExposeSpecs(c)[j])
<1>1. PICK S : ExposeSpecs(c) \in Seq(S)
  BY ExposeSpecsAre
<1>2. DOMAIN ExposeSpecs(c) = 1..Len(ExposeSpecs(c))
  BY <1>1
<1> QED BY <1>2 DEF ValidExpose

LEMMA PlannedPorts ==
  ASSUME NEW c, NEW named, Readable(c, named), EnvKnown(c, named), ValidExpose(c), NEW plan,
         plan.edge = EdgeMapping(c),
         plan.ports = MergeExposePorts(EdgeMapping(c), OwnPorts(c, named), ExposeSpecs(c)),
         plan.warned = ExposeWarned(EdgeMapping(c), OwnPorts(c, named), ExposeSpecs(c))
  PROVE  PortsFit(plan, c, named) /\ IsList(plan.ports)
<1> DEFINE edge == EdgeMapping(c)
           own == OwnPorts(c, named)
           exposed == ExposeSpecs(c)
<1>1. PICK S : own \in Seq(S)
  BY ResolvedLists, OwnPortsAre DEF Readable
<1>2. PICK U : exposed \in Seq(U)
  BY ExposeSpecsAre DEF Readable
<1>3. own \in Seq(S \cup U) /\ exposed \in Seq(S \cup U)
  BY <1>1, <1>2
<1>4. /\ plan.ports \in Seq(S \cup U)
      /\ Apart(edge, OwnOf(c, named), plan.ports)
      /\ Accounted(edge, OwnOf(c, named), exposed, plan.ports, Len(exposed))
  <2> HIDE DEF edge, own, exposed
  <2>1. /\ MergeExposePorts(edge, own, exposed) \in Seq(S \cup U)
        /\ Apart(edge, Elements(own) \cup {edge}, MergeExposePorts(edge, own, exposed))
        /\ Accounted(edge, Elements(own) \cup {edge}, exposed, MergeExposePorts(edge, own, exposed), Len(exposed))
    BY <1>3, MergeFits
  <2> QED BY <2>1 DEF OwnOf, edge, own, exposed
<1>5. FitsApart(plan, c, named)
  BY <1>4 DEF FitsApart, Apart, Published
<1>6. ASSUME NEW e \in Requested(c), e \notin Published(plan),
             e \notin {[m EXCEPT !.optional = FALSE] : m \in OwnOf(c, named)}
      PROVE  e \in plan.warned
  <2>1. Len(exposed) \in Nat /\ DOMAIN exposed = 1..Len(exposed)
    BY <1>2
  <2>2. PICK j \in 1..Len(exposed) : e = exposed[j]
    BY <1>6, <2>1 DEF Requested, Elements
  <2>3. \A i \in 1..(j - 1) : i \in 1..Len(exposed) /\ i # j
    BY <2>1
  <2>4. ~ \E i \in 1..(j - 1) : Clash(exposed[i], exposed[j])
    BY <2>3, AskedApart DEF Readable
  <2>5. \E m \in OwnOf(c, named) \cup {edge} : Clash(m, e)
    BY <1>4, <1>6, <2>2, <2>4 DEF Accounted, Published
  <2>6. OwnOf(c, named) \cup {edge} = OwnOf(c, named) /\ OwnOf(c, named) = {own[k] : k \in DOMAIN own} \cup {edge}
    BY DEF OwnOf, Elements
  <2>7. /\ j \in DOMAIN exposed /\ exposed[j] \notin {[m EXCEPT !.optional = FALSE] : m \in OwnOf(c, named)}
        /\ \E m \in OwnOf(c, named) : Clash(m, exposed[j])
    BY <1>6, <2>1, <2>2, <2>5, <2>6
  <2> HIDE DEF edge, own, exposed
  <2>8. exposed[j] \in ExposeWarned(edge, own, exposed)
    BY <2>6, <2>7 DEF ExposeWarned
  <2> QED BY <2>2, <2>8 DEF edge, own, exposed
<1>7. FitsAsked(plan, c, named)
  BY <1>6 DEF FitsAsked
<1>8. IsList(plan.ports)
  BY <1>4, ListOver
<1> QED BY <1>5, <1>7, <1>8, FitsInTwo

\* Only lstk's own optional ports are given up when they are busy.
LEMMA DroppedPorts ==
  ASSUME NEW plan, NEW c, NEW named, IsList(c.expose), PortsFit(plan, c, named), IsList(plan.ports), NEW busy,
         NEW less, less.ports = DropBusyOptionalPorts(plan.ports, busy),
         less.edge = plan.edge, less.warned = plan.warned
  PROVE  PortsFit(less, c, named) /\ IsList(less.ports)
<1> DEFINE ports == plan.ports
           gone == {ports[i] : i \in {i \in DOMAIN ports : ports[i].optional /\ ports[i].host \in busy}}
<1>1. ports \in Seq(Elements(ports))
  BY DEF IsList, Elements
<1>2. less.ports = Omitting(ports, gone)
  BY DEF DropBusyOptionalPorts
<1>3. \A m \in gone : m.optional
  OBVIOUS
<1> HIDE DEF gone
<1>4. less.ports \in Seq(Elements(ports)) /\ Published(less) = Published(plan) \ gone
  BY <1>1, <1>2, OmittingKeeps DEF Published
<1>5. \A m \in Requested(c) : m.optional = FALSE
  BY ExposeSpecsAre, ListOver DEF Requested
<1>6. FitsApart(plan, c, named) /\ FitsAsked(plan, c, named)
  BY FitsInTwo
<1>7. FitsApart(less, c, named)
  BY <1>4, <1>6 DEF FitsApart
<1>8. FitsAsked(less, c, named)
  BY <1>3, <1>4, <1>5, <1>6 DEF FitsAsked
<1> QED BY <1>4, <1>7, <1>8, FitsInTwo, ListOver

\* Neither profiles nor the host replace the token and the name.
LEMMA OwnValuesWin ==
  ASSUME NEW c, NEW named, NEW persist
  PROVE  /\ EnvOf(c, named, "token", persist)["LOCALSTACK_AUTH_TOKEN"] = "token"
         /\ EnvOf(c, named, "token", persist)["MAIN_CONTAINER_NAME"] = NameOf(c)
<1> DEFINE base == ResolvedEnv(c, named)
           own == OwnEnv(c, named, "token")
           host == FilterHostEnv(HostEnv)
           names == {"LOCALSTACK_AUTH_TOKEN", "MAIN_CONTAINER_NAME"}
<1>1. names \subseteq DOMAIN own /\ own["LOCALSTACK_AUTH_TOKEN"] = "token" /\ own["MAIN_CONTAINER_NAME"] = NameOf(c)
  BY DEF OwnEnv
<1>2. names \cap DOMAIN host = {}
  BY PlanConstants DEF FilterHostEnv
<1>3. names \cap DOMAIN AgentEnv = {}
  BY DEF AgentEnv
<1>4. names \cap DOMAIN [k \in {"PERSISTENCE"} |-> "1"] = {}
  OBVIOUS
<1> HIDE DEF base, own, host
<1>5. \A f, g : names \subseteq DOMAIN g => names \subseteq DOMAIN Over(f, g) /\ \A k \in names : Over(f, g)[k] = g[k]
  BY DEF Over
<1>6. \A f, g : names \subseteq DOMAIN f /\ names \cap DOMAIN g = {}
                  => names \subseteq DOMAIN Over(f, g) /\ \A k \in names : Over(f, g)[k] = f[k]
  BY DEF Over
<1> DEFINE e1 == Over(base, own)
           e2 == Over(e1, host)
           e3 == Over(e2, AgentEnv)
<1>7. names \subseteq DOMAIN e1 /\ \A k \in names : e1[k] = own[k]
  BY <1>1, <1>5
<1> HIDE DEF e1
<1>8. names \subseteq DOMAIN e2 /\ \A k \in names : e2[k] = own[k]
  BY <1>2, <1>6, <1>7
<1> HIDE DEF e2
<1>9. names \subseteq DOMAIN e3 /\ \A k \in names : e3[k] = own[k]
  BY <1>3, <1>6, <1>8
<1> HIDE DEF e3
<1>10. \A k \in names : Over(e3, [x \in {"PERSISTENCE"} |-> "1"])[k] = own[k]
  BY <1>4, <1>6, <1>9
<1>11. EnvOf(c, named, "token", persist) = IF persist THEN Over(e3, [x \in {"PERSISTENCE"} |-> "1"]) ELSE e3
  BY DEF EnvOf, base, own, host, e1, e2, e3
<1>12. \A k \in names : EnvOf(c, named, "token", persist)[k] = own[k]
  BY <1>9, <1>10, <1>11
<1> QED BY <1>1, <1>12

LEMMA ForwardedHarmless == \A k \in DOMAIN FilterHostEnv(HostEnv) : ~CriticalContainerVar(Stripped(k))
<1>1. "CI" \notin DOMAIN StrippedVars
  BY DEF StrippedVars
<1>2. ~CriticalContainerVar(Stripped("CI"))
  BY <1>1 DEF Stripped, CriticalContainerVar
<1>3. \A k \in DOMAIN FilterHostEnv(HostEnv) : k = "CI" \/ ~CriticalContainerVar(Stripped(k))
  BY DEF FilterHostEnv
<1> QED BY <1>2, <1>3

LEMMA PlanIsFit ==
  ASSUME NEW c, NEW named, Readable(c, named), ValidExpose(c), NEW d, NEW persist,
         NEW plan, plan = PlanContainer(c, named, d, "token", persist), ~plan.rejected
  PROVE  Fits(plan, c, named) /\ OwnValues(plan)
<1>1. EnvKnown(c, named)
  BY DEF PlanContainer, Rejected
<1> DEFINE g == ParseGatewayListen(Gateway(c, named))
           rest == [rejected |-> FALSE, type |-> c.type, image |-> ImageOf(c), name |-> NameOf(c),
                    bindHost |-> BindHost(g), env |-> EnvOf(c, named, "token", persist),
                    binds |-> <<[source |-> VolumeDir(c, d), target |-> PersistenceTarget, ro |-> FALSE]>>
                                \o ExtraVolumes(c, d),
                    edge |-> EdgeMapping(c),
                    ports |-> MergeExposePorts(EdgeMapping(c), OwnPorts(c, named), ExposeSpecs(c)),
                    warned |-> ExposeWarned(EdgeMapping(c), OwnPorts(c, named), ExposeSpecs(c))]
<1>2. plan = rest
  BY DEF PlanContainer, Rejected, OwnPorts, GatewayPorts
<1>3. /\ plan.edge = EdgeMapping(c) /\ plan.name = NameOf(c) /\ plan.env = EnvOf(c, named, "token", persist)
      /\ plan.ports = MergeExposePorts(EdgeMapping(c), OwnPorts(c, named), ExposeSpecs(c))
      /\ plan.warned = ExposeWarned(EdgeMapping(c), OwnPorts(c, named), ExposeSpecs(c))
      /\ PlanFields \subseteq DOMAIN plan
  BY <1>2 DEF PlanFields
<1>4. PortsFit(plan, c, named) /\ IsList(plan.ports)
  BY <1>1, <1>3, PlannedPorts
<1>5. OwnValues(plan)
  BY <1>3, OwnValuesWin DEF OwnValues
<1> QED BY <1>3, <1>4, <1>5 DEF Fits

-----------------------------------------------------------------------------
\* What is planned from a file lstk can read.
LEMMA FieldOf ==
  ASSUME NEW t, NEW k \in {"expose", "env"}
  PROVE  ContainerOf(t)[k] = IF k \in DOMAIN t.keys THEN t.keys[k] ELSE <<>>
<1>1. {"expose", "env"} \subseteq DOMAIN DefaultContainer
      /\ DefaultContainer["expose"] = <<>> /\ DefaultContainer["env"] = <<>>
  BY DEF DefaultContainer
<1> QED BY <1>1 DEF ContainerOf, Over

LEMMA ListsRead ==
  ASSUME NEW f, Toml(f)
  PROVE  IsList(FirstContainer(f).expose) /\ IsList(FirstContainer(f).env)
<1>1. IsList(<<>>)
  BY DEF IsList
<1>2. CASE FirstBlock(f) = {}
  <2>1. FirstContainer(f) = DefaultContainer
    BY <1>2 DEF FirstContainer
  <2>2. DefaultContainer.expose = <<>> /\ DefaultContainer.env = <<>>
    BY DEF DefaultContainer
  <2> QED BY <1>1, <2>1, <2>2
<1>3. CASE FirstBlock(f) # {}
  <2>1. PICK i \in FirstBlock(f) : TRUE
    BY <1>3
  <2>2. FirstContainer(f) = ContainerOf(f[i])
    BY OneFirst
  <2>3. i \in DOMAIN f
    BY DEF FirstBlock, ContainerBlocks
  <2>4. \A k \in DOMAIN f[i].keys \cap {"expose", "env"} : IsList(f[i].keys[k])
    BY <2>3 DEF Toml, ReadTable
  <2>5. ASSUME NEW k \in {"expose", "env"} PROVE IsList(ContainerOf(f[i])[k])
    BY <1>1, <2>4, FieldOf
  <2> QED BY <2>2, <2>5
<1> QED BY <1>2, <1>3

LEMMA ProfilesRead ==
  ASSUME NEW f, Toml(f)
  PROVE  \A n \in DOMAIN EnvTables(f) : ListsGateway(EnvTables(f)[n])
<1> SUFFICES ASSUME NEW n \in DOMAIN EnvTables(f) PROVE ListsGateway(EnvTables(f)[n])
  OBVIOUS
<1> DEFINE named == {i \in DOMAIN f : f[i].table \notin {"containers", "cli"}}
           k == CHOOSE i \in named : f[i].table = n
<1>1. n \in {f[i].table : i \in named} /\ EnvTables(f)[n] = f[NamedEnvs(f)[n]].keys
  BY DEF EnvTables, NamedEnvs
<1>2. NamedEnvs(f)[n] = k
  BY <1>1 DEF NamedEnvs
<1>3. k \in named
  BY <1>1
<1>4. k \in DOMAIN f /\ EnvTables(f)[n] = f[k].keys
  BY <1>1, <1>2, <1>3
<1> HIDE DEF k
<1>5. "GATEWAY_LISTEN" \in DOMAIN f[k].keys => IsList(f[k].keys["GATEWAY_LISTEN"])
  BY <1>4 DEF Toml, ReadTable
<1> QED BY <1>4, <1>5 DEF ListsGateway

LEMMA FileReadable ==
  ASSUME NEW f, Toml(f)
  PROVE  Readable(FirstContainer(f), EnvTables(f))
BY ListsRead, ProfilesRead DEF Readable

\* Only expose_ports says which ports are asked for.
LEMMA SameExpose ==
  ASSUME NEW a, NEW b, a.expose = b.expose
  PROVE  ValidExpose(a) <=> ValidExpose(b)
<1>1. ExposeSpecs(a) = ExposeSpecs(b)
  BY DEF ExposeSpecs
<1> QED BY <1>1, Zenon DEF ValidExpose

LEMMA NothingAsked ==
  ASSUME NEW c, c.expose = <<>>
  PROVE  ValidExpose(c)
<1>1. IsList(<<>>) /\ DOMAIN <<>> = {} /\ Len(<<>>) = 0
  BY DEF IsList
<1>2. EntriesAsked(c.expose) = {}
  BY <1>1 DEF EntriesAsked
<1>3. ExposeSpecs(c) \in Seq({})
  BY <1>1, <1>2, ExposeSpecsAre
<1>4. DOMAIN ExposeSpecs(c) = {}
  BY <1>3
<1> QED BY <1>1, <1>4 DEF ValidExpose

LEMMA FirstIsValid ==
  ASSUME NEW f, Toml(f), NEW d, ValidConfig(f, d)
  PROVE  ValidExpose(FirstContainer(f))
<1>1. CASE FirstBlock(f) = {}
  <2>1. FirstContainer(f) = DefaultContainer
    BY <1>1 DEF FirstContainer
  <2>2. DefaultContainer.expose = <<>>
    BY DEF DefaultContainer
  <2> QED BY <2>1, <2>2, NothingAsked
<1>2. CASE FirstBlock(f) # {}
  <2>1. PICK i \in FirstBlock(f) : TRUE
    BY <1>2
  <2>2. FirstContainer(f) = ContainerOf(f[i]) /\ i \in ContainerBlocks(f)
    BY OneFirst DEF FirstBlock
  <2> QED BY <2>2 DEF ValidConfig, Valid
<1> QED BY <1>1, <1>2

\* A skipped version asks for no other ports.
LEMMA ExposeKept ==
  ASSUME NEW f, Toml(f), NEW v
  PROVE  FirstContainer(WithSkipped(f, v)).expose = FirstContainer(f).expose
<1> DEFINE h == WithSkipped(f, v)
<1>1. /\ Toml(h) /\ DOMAIN f \subseteq DOMAIN h
      /\ \A i \in DOMAIN f :
           /\ h[i].table = f[i].table
           /\ h[i].keys = IF i \in SkipTables(f) THEN Over(f[i].keys, [update_skipped_version |-> v]) ELSE f[i].keys
      /\ \A i \in DOMAIN h \ DOMAIN f : h[i].table = "cli"
  BY SkipWritten
<1> HIDE DEF h
<1>2. ContainerBlocks(h) = ContainerBlocks(f)
  BY <1>1 DEF ContainerBlocks
<1>3. FirstBlock(h) = FirstBlock(f)
  BY <1>2 DEF FirstBlock
<1>4. CASE FirstBlock(f) = {}
  BY <1>3, <1>4 DEF FirstContainer, h
<1>5. CASE FirstBlock(f) # {}
  <2>1. PICK i \in FirstBlock(f) : TRUE
    BY <1>5
  <2>2. i \in DOMAIN f
    BY DEF FirstBlock, ContainerBlocks
  <2>3. FirstContainer(f) = ContainerOf(f[i]) /\ FirstContainer(h) = ContainerOf(h[i])
    BY <1>1, <1>3, OneFirst
  <2>4. /\ "expose" \in DOMAIN h[i].keys <=> "expose" \in DOMAIN f[i].keys
        /\ "expose" \in DOMAIN f[i].keys => h[i].keys["expose"] = f[i].keys["expose"]
    <3>1. CASE h[i].keys = f[i].keys
      BY <3>1
    <3>2. CASE h[i].keys = Over(f[i].keys, [update_skipped_version |-> v])
      BY <3>2 DEF Over
    <3> QED BY <1>1, <2>2, <3>1, <3>2
  <2> QED BY <2>3, <2>4, FieldOf DEF h
<1> QED BY <1>4, <1>5

\* A process that goes on has valid ports to ask for; a first run that was
\* asked nothing plans the default container, and creates the file afterwards.
Creating == {"create", "template", "load new"}
ExposeInv(p) == cfEnd[p] = "busy" => ValidExpose(FirstContainer(cfMem[p]))
PlanFit(p) ==
  ~cfPlan[p].rejected =>
    /\ cfAt[p] \in Creating => cfFirst[p]
    /\ OwnValues(cfPlan[p]) /\ IsList(cfPlan[p].ports) /\ PlanFields \subseteq DOMAIN cfPlan[p]
    /\ PortsAsAsked(p)
FitInv(p) == ExposeInv(p) /\ PlanFit(p)
FitInvs == \A p \in ConfigProcs : FitInv(p)

LEMMA FitFrame ==
  ASSUME NEW p \in ConfigProcs, FitInv(p), SameOwn(p)
  PROVE  FitInv(p)'
<1>1. Chooses(p)' = Chooses(p)
  BY DEF SameOwn, Chooses
<1>2. PortsAsAsked(p)' = PortsAsAsked(p)
  BY <1>1 DEF SameOwn, PortsAsAsked
<1> QED BY <1>2 DEF SameOwn, FitInv, ExposeInv, PlanFit

LEMMA ConfigInitFit == ConfigInit => FitInvs
<1> SUFFICES ASSUME ConfigInit, NEW p \in ConfigProcs PROVE FitInv(p)
  BY DEF FitInvs
<1>1. cfMem[p] = Empty /\ cfPlan[p] = Nothing
  BY DEF ConfigInit
<1>2. FirstContainer(Empty) = DefaultContainer
  BY DEF Empty, FirstContainer, FirstBlock, ContainerBlocks
<1>3. DefaultContainer.expose = <<>>
  BY DEF DefaultContainer
<1>4. ValidExpose(FirstContainer(cfMem[p]))
  BY <1>1, <1>2, <1>3, NothingAsked
<1>5. Nothing.rejected
  BY DEF Nothing
<1> QED BY <1>1, <1>4, <1>5 DEF FitInv, ExposeInv, PlanFit

\* Most steps leave the plan and what it was made from alone.
LEMMA SamePlan ==
  ASSUME NEW p \in ConfigProcs, OwnInv(p), FitInv(p), cfReq' = cfReq, cfEnd[p] = "busy",
         cfPlan'[p] = cfPlan[p], cfMem'[p] = cfMem[p], cfFirst'[p] = cfFirst[p],
         cfAt[p] \notin {"ports", "done"} \/ cfAt'[p] = cfAt[p]
  PROVE  FitInv(p)'
<1>1. Chooses(p)' = Chooses(p)
  BY DEF Chooses
<1>2. PortsAsAsked(p)' = PortsAsAsked(p)
  BY <1>1 DEF PortsAsAsked
<1>3. ~cfPlan[p].rejected /\ cfAt'[p] \in Creating => cfFirst[p]
  BY DEF OwnInv, BootPlanInv, FitInv, PlanFit, Creating
<1> QED BY <1>2, <1>3 DEF FitInv, ExposeInv, PlanFit

LEMMA LoadedFit ==
  ASSUME UserFilesInv, NEW p \in ConfigProcs, OwnInv(p), FitInv(p), NEW d \in Places, NEW at,
         cfFile[d] # NoFile, Loaded(p, d, at), cfAt[p] \in {"load", "create", "load new", "reload"},
         cfReq' = cfReq, cfFirst' = cfFirst
  PROVE  FitInv(p)'
<1>0. ConfigTypes
  BY DEF UserFilesInv
<1>1. cfMem'[p] = cfFile[d] /\ cfPlan' = cfPlan /\ Chooses(p)' = Chooses(p)
  BY <1>0 DEF Loaded, ConfigTypes, Chooses
<1>2. ExposeInv(p)'
  <2>1. CASE cfFile[d] # OldYaml /\ ValidConfig(cfFile[d], d)
    <3>1. Toml(cfFile[d])
      BY <1>0, <2>1 DEF ConfigTypes
    <3> QED BY <1>1, <2>1, <3>1, FirstIsValid DEF ExposeInv
  <2>2. CASE ~(cfFile[d] # OldYaml /\ ValidConfig(cfFile[d], d))
    <3>1. CfStop(p, "invalid config")
      BY <2>2 DEF Loaded
    <3> QED BY <1>0, <3>1, StopStops DEF ExposeInv, Stops
  <2> QED BY <2>1, <2>2
<1>3. PlanFit(p)'
  <2> SUFFICES ASSUME ~cfPlan[p].rejected PROVE PlanFit(p)'
    BY <1>1 DEF PlanFit
  <2>1. cfFirst[p] /\ ~Chooses(p)
    BY DEF OwnInv, BootPlanInv, FitInv, PlanFit, Creating
  <2>2. PortsAsAsked(p)'
    BY <1>1, <2>1 DEF PortsAsAsked
  <2> QED BY <1>1, <2>1, <2>2 DEF FitInv, PlanFit
<1> QED BY <1>2, <1>3 DEF FitInv

LEMMA LoadsFit ==
  ASSUME UserFilesInv, NEW p \in ConfigProcs, OwnInv(p), FitInv(p),
         InitFromPath(p) \/ LoadFound(p) \/ LoadNone(p) \/ LoadNew(p) \/ Reload(p) \/ EnsureCreated(p)
  PROVE  FitInv(p)'
<1> USE DEF CfFrame
<1>0. "flag" \in Places /\ ConfigTypes
  BY DEF Places, UserFilesInv
<1>1. CASE InitFromPath(p)
  <2>1. cfReq' = cfReq /\ cfFirst' = cfFirst /\ cfAt[p] = "load" /\ cfEnd[p] = "busy"
    BY <1>1 DEF InitFromPath, CfAt
  <2>2. CASE cfFile["flag"] = NoFile
    <3>1. cfPlan' = cfPlan /\ cfMem' = cfMem
      BY <1>1, <2>2 DEF InitFromPath
    <3> QED BY <2>1, <3>1, SamePlan
  <2>3. CASE cfFile["flag"] # NoFile
    <3>1. Loaded(p, "flag", AfterLoad(p))
      BY <1>1, <2>3 DEF InitFromPath
    <3> QED BY <1>0, <2>1, <2>3, <3>1, LoadedFit
  <2> QED BY <2>2, <2>3
<1>2. CASE LoadFound(p)
  <2>1. /\ Loaded(p, FirstFound, AfterLoad(p)) /\ cfAt[p] = "load" /\ cfReq' = cfReq /\ cfFirst' = cfFirst
        /\ Found # {}
    BY <1>2 DEF LoadFound, CfAt
  <2> QED BY <2>1, FoundFirst, LoadedFit
<1>3. CASE LoadNone(p)
  <2>1. cfAt[p] = "load" /\ cfEnd[p] = "busy" /\ cfPlan' = cfPlan /\ cfMem' = cfMem
    BY <1>3 DEF LoadNone, CfAt
  <2>2. cfPlan[p].rejected
    BY <2>1 DEF OwnInv, BootPlanInv
  <2> QED BY <2>1, <2>2 DEF FitInv, ExposeInv, PlanFit
<1>4. CASE LoadNew(p)
  <2>1. cfReq' = cfReq /\ cfFirst' = cfFirst /\ cfAt[p] = "load new" /\ cfEnd[p] = "busy"
    BY <1>4 DEF LoadNew, CfAt
  <2>2. CASE cfFile[ConfigCreationDir] = NoFile
    <3>1. cfPlan' = cfPlan /\ cfMem' = cfMem
      BY <1>4, <2>2 DEF LoadNew
    <3> QED BY <2>1, <3>1, SamePlan
  <2>3. CASE cfFile[ConfigCreationDir] # NoFile
    <3>1. Loaded(p, ConfigCreationDir, IF Chooses(p) THEN "read type" ELSE "done")
      BY <1>4, <2>3 DEF LoadNew
    <3> QED BY <2>1, <2>3, <3>1, CreationDirIsPlace, LoadedFit
  <2> QED BY <2>2, <2>3
<1>5. CASE Reload(p)
  <2>1. cfReq' = cfReq /\ cfFirst' = cfFirst /\ cfAt[p] = "reload" /\ cfEnd[p] = "busy"
    BY <1>5 DEF Reload, CfAt
  <2>2. CASE cfFile[cfUsed[p]] = NoFile
    <3>1. cfPlan' = cfPlan /\ cfMem' = cfMem
      BY <1>5, <2>2 DEF Reload
    <3> QED BY <2>1, <3>1, SamePlan
  <2>3. CASE cfFile[cfUsed[p]] # NoFile
    <3>1. Loaded(p, cfUsed[p], IF cfReq[p].interactive /\ cfReq[p].type # "" THEN "notify" ELSE "start")
      BY <1>5, <2>3 DEF Reload
    <3>2. cfUsed[p] \in Places
      BY <1>0, <2>1 DEF UserFilesInv, UsedInv, ConfigTypes
    <3> QED BY <2>1, <2>3, <3>1, <3>2, LoadedFit
  <2> QED BY <2>2, <2>3
<1>6. CASE EnsureCreated(p)
  <2> DEFINE next == IF Chooses(p) THEN "read type" ELSE "done"
  <2>1. cfReq' = cfReq /\ cfFirst' = cfFirst /\ cfAt[p] = "create" /\ cfEnd[p] = "busy"
    BY <1>6 DEF EnsureCreated, CfAt
  <2>2. \/ cfPlan' = cfPlan /\ cfMem' = cfMem
        \/ ~MayCreateFile(ConfigCreationDir) /\ Loaded(p, ConfigCreationDir, next)
    BY <1>6 DEF EnsureCreated
  <2>3. CASE cfPlan' = cfPlan /\ cfMem' = cfMem
    BY <2>1, <2>3, SamePlan
  <2>4. CASE ~MayCreateFile(ConfigCreationDir) /\ Loaded(p, ConfigCreationDir, next)
    <3>1. cfFile[ConfigCreationDir] # NoFile
      BY <2>4 DEF MayCreateFile
    <3> QED BY <2>1, <2>4, <3>1, CreationDirIsPlace, LoadedFit
  <2> QED BY <2>2, <2>3, <2>4
<1> QED BY <1>1, <1>2, <1>3, <1>4, <1>5, <1>6

LEMMA QuietFit ==
  ASSUME UserFilesInv, NEW p \in ConfigProcs, OwnInv(p), FitInv(p),
         \/ ApplyEmulatorType(p) \/ SelectEmulator(p) \/ WriteTemplate(p) \/ ReadToEdit(p) \/ Truncate(p)
         \/ WriteEdit(p) \/ ConfigDone(p) \/ ConfigKilled(p)
  PROVE  FitInv(p)'
<1>1. cfEnd[p] = "busy" /\ UNCHANGED <<cfReq, cfFirst, cfMem, cfPlan>>
  BY DEF ApplyEmulatorType, SelectEmulator, WriteTemplate, ReadToEdit, Truncate, WriteEdit, ConfigDone,
    ConfigKilled, CfAt, CfLocals, CfFrame
<1>2. cfAt[p] \notin {"ports", "done"} \/ cfAt' = cfAt
  BY DEF ApplyEmulatorType, SelectEmulator, WriteTemplate, ReadToEdit, Truncate, WriteEdit, ConfigDone,
    ConfigKilled, CfAt, CfStop
<1> QED BY <1>1, <1>2, SamePlan

LEMMA NotifiedFit ==
  ASSUME UserFilesInv, NEW p \in ConfigProcs, OwnInv(p), FitInv(p), NotifyUpdate(p)
  PROVE  FitInv(p)'
<1>0. ConfigTypes
  BY DEF UserFilesInv
<1>1. cfAt[p] = "notify" /\ cfEnd[p] = "busy" /\ cfPlan' = cfPlan
  BY DEF NotifyUpdate, CfAt
<1>2. cfPlan[p].rejected /\ Toml(cfMem[p])
  BY <1>1 DEF OwnInv, BootPlanInv, UserFilesInv, ReadableInv
<1>3. cfMem'[p] = cfMem[p] \/ cfMem'[p] = WithSkipped(cfMem[p], "v2")
  BY <1>0 DEF NotifyUpdate, ConfigTypes
<1>4. FirstContainer(cfMem'[p]).expose = FirstContainer(cfMem[p]).expose
  BY <1>2, <1>3, ExposeKept
<1>5. ValidExpose(FirstContainer(cfMem'[p]))
  BY <1>1, <1>4, SameExpose DEF FitInv, ExposeInv
<1> QED BY <1>1, <1>2, <1>5 DEF FitInv, ExposeInv, PlanFit

LEMMA PlannedFit ==
  ASSUME UserFilesInv, NEW p \in ConfigProcs, OwnInv(p), FitInv(p), StartPlanned(p)
  PROVE  FitInv(p)'
<1>0. ConfigTypes
  BY DEF UserFilesInv
<1> DEFINE c == FirstContainer(cfMem[p])
           named == EnvTables(cfMem[p])
           dir == IF cfUsed[p] = "" THEN ConfigCreationDir ELSE cfUsed[p]
           plan == PlanContainer(c, named, dir, "token", cfReq[p].persist)
<1>1. /\ cfAt[p] = "start" /\ cfEnd[p] = "busy" /\ UNCHANGED <<cfReq, cfFirst, cfMem>>
      /\ \/ cfPlan' = cfPlan
         \/ ~plan.rejected /\ CfGo(p, "ports") /\ cfPlan' = [cfPlan EXCEPT ![p] = plan]
  BY DEF StartPlanned, CfAt, CfFrame
<1>2. Readable(c, named) /\ ValidExpose(c)
  BY <1>1, FileReadable DEF UserFilesInv, ReadableInv, FitInv, ExposeInv
<1>3. ~plan.rejected => Fits(plan, c, named) /\ OwnValues(plan)
  BY <1>2, PlanIsFit
<1> HIDE DEF plan
<1>4. CASE cfPlan' = cfPlan
  BY <1>1, <1>4, SamePlan
<1>5. CASE ~plan.rejected /\ CfGo(p, "ports") /\ cfPlan' = [cfPlan EXCEPT ![p] = plan]
  <2>1. cfPlan'[p] = plan /\ cfAt'[p] = "ports" /\ cfMem'[p] = cfMem[p] /\ cfEnd' = cfEnd
    BY <1>0, <1>1, <1>5, GoGoes DEF ConfigTypes, GoesTo
  <2>2. PortsAsAsked(p)'
    BY <1>3, <1>5, <2>1 DEF PortsAsAsked, Fits
  <2>3. PlanFit(p)'
    BY <1>3, <1>5, <2>1, <2>2 DEF PlanFit, Fits, Creating
  <2>4. ExposeInv(p)'
    BY <1>2, <2>1 DEF ExposeInv
  <2> QED BY <2>3, <2>4 DEF FitInv
<1> QED BY <1>1, <1>4, <1>5

LEMMA PublishedFit ==
  ASSUME UserFilesInv, NEW p \in ConfigProcs, OwnInv(p), FitInv(p), NEW busy, PublishPorts(p, busy)
  PROVE  FitInv(p)'
<1>0. ConfigTypes
  BY DEF UserFilesInv
<1> DEFINE c == FirstContainer(cfMem[p])
           named == EnvTables(cfMem[p])
           at == IF cfFirst[p] /\ ~cfReq[p].interactive /\ cfReq[p].type = "" THEN "create" ELSE "done"
           plan == cfPlan[p]
           ports == DropBusyOptionalPorts(plan.ports, busy)
           less == [plan EXCEPT !.ports = ports]
<1>1. /\ cfAt[p] = "ports" /\ cfEnd[p] = "busy" /\ UNCHANGED <<cfReq, cfFirst, cfMem>>
      /\ \/ CfStop(p, "port in use") /\ cfPlan' = cfPlan
         \/ CfGo(p, at) /\ cfPlan' = [cfPlan EXCEPT ![p].ports = ports]
  BY DEF PublishPorts, CfAt, CfFrame
<1>2. at = "done" \/ (at = "create" /\ cfFirst[p])
  OBVIOUS
<1> HIDE DEF at
<1>3. CASE CfStop(p, "port in use") /\ cfPlan' = cfPlan
  BY <1>1, <1>3, SamePlan DEF CfStop
<1>4. CASE CfGo(p, at) /\ cfPlan' = [cfPlan EXCEPT ![p].ports = ports]
  <2>1. cfPlan'[p] = less /\ cfAt'[p] = at /\ cfMem'[p] = cfMem[p] /\ cfEnd' = cfEnd
    BY <1>0, <1>1, <1>4, GoGoes DEF ConfigTypes, GoesTo
  <2>2. ExposeInv(p)'
    BY <1>1, <2>1 DEF ExposeInv, FitInv
  <2>3. less.rejected = plan.rejected
    BY DEF OwnInv, BootPlanInv
  <2>4. ASSUME ~plan.rejected PROVE PlanFit(p)'
    <3>1. OwnValues(plan) /\ IsList(plan.ports) /\ PlanFields \subseteq DOMAIN plan /\ PortsAsAsked(p)
      BY <2>4 DEF FitInv, PlanFit
    <3> HIDE DEF ports, plan
    <3>2. /\ less.ports = ports /\ less.edge = plan.edge /\ less.warned = plan.warned /\ less.env = plan.env
          /\ less.name = plan.name /\ PlanFields \subseteq DOMAIN less
      BY <3>1 DEF PlanFields
    <3>3. OwnValues(less)
      BY <3>1, <3>2 DEF OwnValues
    <3>4. IsList(c.expose)
      BY <1>1, FileReadable DEF UserFilesInv, ReadableInv, Readable
    <3> HIDE DEF less
    <3>5. IsList(less.ports)
      <4> DEFINE gone == {plan.ports[i] :
                     i \in {i \in DOMAIN plan.ports : plan.ports[i].optional /\ plan.ports[i].host \in busy}}
      <4>1. ports = Omitting(plan.ports, gone)
        BY DEF ports, DropBusyOptionalPorts
      <4> HIDE DEF gone
      <4>2. plan.ports \in Seq(Elements(plan.ports))
        BY <3>1 DEF IsList, Elements
      <4>3. Omitting(plan.ports, gone) \in Seq(Elements(plan.ports))
        BY <4>2, OmittingKeeps
      <4> QED BY <3>2, <4>1, <4>3, ListOver
    <3>6. (cfFirst[p] => Chooses(p)) => PortsFit(less, c, named)
      <4> SUFFICES ASSUME cfFirst[p] => Chooses(p) PROVE PortsFit(less, c, named)
        OBVIOUS
      <4>1. PortsFit(plan, c, named)
        BY <3>1 DEF PortsAsAsked, plan
      <4> QED BY <3>1, <3>2, <3>4, <4>1, DroppedPorts DEF ports
    <3>7. Chooses(p)' = Chooses(p)
      BY <1>1 DEF Chooses
    <3>8. PortsAsAsked(p)'
      BY <1>1, <2>1, <3>6, <3>7 DEF PortsAsAsked
    <3> QED BY <1>1, <1>2, <2>1, <3>2, <3>3, <3>5, <3>8 DEF PlanFit, Creating
  <2>5. plan.rejected => PlanFit(p)'
    BY <2>1, <2>3 DEF PlanFit
  <2> QED BY <2>2, <2>4, <2>5 DEF FitInv
<1> QED BY <1>1, <1>3, <1>4

LEMMA FitStep == UserFilesInv /\ OwnInvs /\ FitInvs /\ [ConfigNext]_cfVars => FitInvs'
<1> SUFFICES ASSUME UserFilesInv, OwnInvs, FitInvs, [ConfigNext]_cfVars PROVE FitInvs'
  OBVIOUS
<1>0. ConfigTypes /\ \A q \in ConfigProcs : OwnInv(q) /\ FitInv(q)
  BY DEF UserFilesInv, OwnInvs, FitInvs
<1>1. ASSUME NEW p \in ConfigProcs, ConfigStep(p) \/ ConfigKilled(p) PROVE FitInv(p)'
  <2>1. CASE \/ InitFromPath(p) \/ LoadFound(p) \/ LoadNone(p) \/ LoadNew(p) \/ Reload(p)
             \/ EnsureCreated(p)
    BY <1>0, <2>1, LoadsFit
  <2>2. CASE \/ ApplyEmulatorType(p) \/ SelectEmulator(p) \/ WriteTemplate(p) \/ ReadToEdit(p) \/ Truncate(p)
             \/ WriteEdit(p) \/ ConfigDone(p) \/ ConfigKilled(p)
    BY <1>0, <2>2, QuietFit
  <2>3. CASE NotifyUpdate(p)
    BY <1>0, <2>3, NotifiedFit
  <2>4. CASE StartPlanned(p)
    BY <1>0, <2>4, PlannedFit
  <2>5. CASE \E busy \in SUBSET {443, 53} : PublishPorts(p, busy)
    BY <1>0, <2>5, PublishedFit
  <2> QED BY <1>1, <2>1, <2>2, <2>3, <2>4, <2>5 DEF ConfigStep
<1>2. ASSUME NEW p \in ConfigProcs, ConfigStep(p) \/ ConfigKilled(p), NEW q \in ConfigProcs, q # p
      PROVE  FitInv(q)'
  BY <1>0, <1>2, StepIsLocal, FitFrame
<1>3. ASSUME NEW d, NEW f, UserSaves(d, f), NEW q \in ConfigProcs PROVE FitInv(q)'
  <2>1. SameOwn(q)
    BY <1>3 DEF UserSaves, CfLocals, CfFrame, SameOwn
  <2> QED BY <1>0, <2>1, FitFrame
<1>4. ASSUME UNCHANGED cfVars, NEW q \in ConfigProcs PROVE FitInv(q)'
  <2>1. SameOwn(q)
    BY <1>4 DEF SameOwn, cfVars
  <2> QED BY <1>0, <2>1, FitFrame
<1>5. ASSUME NEW q \in ConfigProcs PROVE FitInv(q)'
  <2>1. CASE \E p \in ConfigProcs : ConfigStep(p) \/ ConfigKilled(p)
    <3>1. PICK p \in ConfigProcs : ConfigStep(p) \/ ConfigKilled(p)
      BY <2>1
    <3> QED BY <1>1, <1>2, <1>5, <3>1
  <2>2. CASE \E d \in {"local", "xdg"}, f \in UserConfigs : UserSaves(d, f)
    BY <1>3, <1>5, <2>2
  <2>3. CASE UNCHANGED cfVars
    BY <1>4, <1>5, <2>3
  <2> QED BY <2>1, <2>2, <2>3 DEF ConfigNext
<1> QED BY <1>5 DEF FitInvs

\* The container that starts is what was configured, for any files lstk can
\* read and whatever is busy on the host: no two publications share a container
\* port or a host port because of expose_ports, and what the user asked for is
\* published or warned about; it gets the token lstk resolved and the name it
\* really has. (expose.go, start.go)
THEOREM PlansAreAsAsked == ConfigSpec => []PlannedAsAsked
<1>1. FitInvs => PlannedAsAsked
  BY ForwardedHarmless DEF FitInvs, FitInv, PlanFit, OwnValues, OwnEnvironmentWins, PlannedAsAsked
<1> QED BY <1>1, ConfigInitInv, ConfigInitOwn, ConfigInitFit, UserFilesStep, OwnStep, FitStep, PTL DEF ConfigSpec
=============================================================================
