----------------------------- MODULE MCCommands -----------------------------
(***************************************************************************)
(* The commands that are not a start, checked together. The commands of    *)
(* one scene act on state of their own, so in a behaviour one scene is     *)
(* played and the other components rest in a start state of theirs. Where  *)
(* a command is tried on its own, the second process takes no step.        *)
(***************************************************************************)
EXTENDS Snapshots, Proxies, ConfigFiles, CloudProfiles, Lifecycle, LogTail, SelfUpdate, TLC

CONSTANTS Scenes, s1, s2, p1, p2, c1, c2, u1, u2, l1, l2, v1, v2

VARIABLE scene
-----------------------------------------------------------------------------
\* Snapshots: one command of each kind, and pairs on the same names.
NoCredentials == [flag |-> "", env |-> "none", envProfile |-> ""]
EnvCredentials == [flag |-> "", env |-> "complete", envProfile |-> ""]
StateFile == [base |-> "state", ext |-> ""]
Snap(cmd, args) ==
  [cmd |-> cmd, args |-> args, mergeFlag |-> "", mergeEnv |-> "", servicesOk |-> TRUE, dryRun |-> FALSE,
   force |-> FALSE, interactive |-> FALSE, token |-> TRUE, endpoint |-> "none",
   credentials |-> EnvCredentials, noSnapshot |-> FALSE, configRef |-> NoRef]
PodRef(v) == [NoRef EXCEPT !.form = "pod", !.name = "pod", !.version = v]
S3Ref == [NoRef EXCEPT !.form = "s3"]
FileRef(x) == [NoRef EXCEPT !.form = "path", !.name = "pod", !.path = [StateFile EXCEPT !.ext = x]]
RemovesPod == [Snap("remove", <<PodRef(0)>>) EXCEPT !.force = TRUE]
SavesFile == Snap("save", <<FileRef("")>>)
PreviewsRemote == [Snap("load", <<FileRef(""), S3Ref>>) EXCEPT !.dryRun = TRUE]
MCSnapRequests ==
  { Snap("save", <<>>), SavesFile, Snap("save", <<FileRef("zip")>>), Snap("save", <<PodRef(0)>>),
    Snap("save", <<PodRef(1)>>), Snap("save", <<FileRef(""), S3Ref>>),
    [Snap("save", <<FileRef(""), S3Ref>>) EXCEPT !.credentials = NoCredentials],
    Snap("load", <<PodRef(0)>>), Snap("load", <<PodRef(1)>>), Snap("load", <<FileRef("")>>),
    [Snap("load", <<FileRef("")>>) EXCEPT !.mergeFlag = "overwrite"],
    PreviewsRemote,
    [Snap("load", <<PodRef(0)>>) EXCEPT !.dryRun = TRUE],
    [Snap("load", <<PodRef(0)>>) EXCEPT !.mergeEnv = "service-merge", !.endpoint = "target"],
    [Snap("remove", <<PodRef(0)>>) EXCEPT !.interactive = TRUE], RemovesPod,
    [Snap("remove", <<FileRef("")>>) EXCEPT !.force = TRUE],
    Snap("remove", <<PodRef(0)>>), Snap("remove", <<PodRef(1)>>),
    Snap("show", <<PodRef(1)>>), Snap("versions", <<PodRef(0)>>), Snap("list", <<>>), Snap("list", <<S3Ref>>),
    [Snap("load", <<FileRef("")>>) EXCEPT !.endpoint = "error"],
    Snap("start", <<S3Ref>>), [Snap("start", <<>>) EXCEPT !.configRef = PodRef(0)] }
Refused == Snap("save", <<PodRef(1)>>)
MCSnapStarts ==
  {<<r, Refused>> : r \in MCSnapRequests \ {Refused}}
    \cup {<<SavesFile, SavesFile>>, <<RemovesPod, Snap("load", <<PodRef(0)>>)>>,
          <<Snap("save", <<PodRef(0)>>), RemovesPod>>, <<SavesFile, Snap("load", <<FileRef("")>>)>>,
          <<Snap("save", <<FileRef(""), S3Ref>>), PreviewsRemote>>}
SnapshotsInit ==
  /\ \E r \in IF scene = "snapshots" THEN MCSnapStarts ELSE {<<Refused, Refused>>} :
       snapReq = [p \in SnapProcs |-> IF p = s1 THEN r[1] ELSE r[2]]
  /\ emu \in {[h \in Hosts |-> [running |-> up /\ (h = "external") = (snapReq[s1].endpoint = "target"),
                                 items |-> {}]] : up \in IF scene = "snapshots" THEN BOOLEAN ELSE {FALSE}}
  /\ bucket = TRUE
  /\ SnapInit
  /\ scene # "snapshots" => /\ \A path \in Paths : dir[path] = "none"
                            /\ pods["platform"]["pod"] = <<>> /\ licensed
SnapshotsAlone == snapReq[s2] = Refused => snapEnd'[s2] = snapEnd[s2]
-----------------------------------------------------------------------------
\* Proxies: every short command line of lstk aws, a command of each other
\* tool, pairs of terraform runs in one directory, and runs under signals.
NoEnv == [k \in EnvKeys |-> ""]
CloudEnv ==
  [NoEnv EXCEPT !["AWS_ACCESS_KEY_ID"] = "AKIA", !["AWS_SECRET_ACCESS_KEY"] = "real",
     !["AWS_SESSION_TOKEN"] = "real", !["AWS_PROFILE"] = "prod", !["AWS_ENDPOINT_URL"] = "aws"]
Dir(backend) ==
  [backend |-> backend, attrs |-> {"key", "endpoint", "access_key"}, legacy |-> FALSE, bucket |-> TRUE,
   aliases |-> {}, keys |-> {"s3", "s3api", "ec2"}]
Url == [scheme |-> "http", host |-> "h"]
Urls == [scheme : {"http", "https"}, host : {"h"}]
NoneGiven == [x \in Sources |-> NoUrl]
Answering(a) == [x \in Urls |-> IF x = Url THEN a ELSE Silent]
Answers == { Silent, [health |-> TRUE, version |-> TRUE, services |-> {"s3"}, info |-> "none"],
             [health |-> TRUE, version |-> FALSE, services |-> {}, info |-> "version"] }
Proxy(tool, args) ==
  [tool |-> tool, before |-> <<>>, args |-> args, env |-> CloudEnv, given |-> NoneGiven,
   world |-> Answering(Silent), dir |-> Dir(TRUE), dryRun |-> FALSE, terminal |-> TRUE]
Account == Flag("--account", NoToken)
AwsTokens ==
  { Account, Flag("--account", "111111111111"), Word("111111111111"), Word("s3"), Flag("--no-cli", NoToken),
    Flag("--out", "x") }
AwsRequests == {Proxy("aws", a) : a \in UNION {[1..n -> AwsTokens] : n \in 0..3}}
TerraformRequests ==
  {Proxy("terraform", <<Word(w)>>) : w \in {"init", "plan", "fmt"}}
    \cup { [Proxy("terraform", <<Word("init")>>) EXCEPT !.dir = Dir(FALSE)],
           [Proxy("terraform", <<Word("plan")>>) EXCEPT !.dir = Dir(FALSE)],
           [Proxy("terraform", <<Word("plan")>>) EXCEPT !.dryRun = TRUE] }
NoProxy == [Proxy("aws", <<Word("s3")>>) EXCEPT !.before = <<Account>>]
OtherRequests ==
  { Proxy("cdk", <<Word("deploy")>>), Proxy("cdk", <<Account, Word("111111111111")>>),
    Proxy("sam", <<Flag("--region", "eu"), Word("build")>>), Proxy("sam", <<Word("deploy"), Account>>),
    Proxy("az", <<Word("group")>>), NoProxy,
    [Proxy("terraform", <<Word("plan")>>) EXCEPT !.dir.legacy = TRUE, !.dir.aliases = {"default", "eu"},
       !.dir.attrs = {"key", "region", "encrypt", "sts_endpoint"}] }
    \cup {[Proxy("az", <<Word("group")>>) EXCEPT !.given["AWS_ENDPOINT_URL"] = Url,
             !.world = Answering(a)] : a \in Answers}
MCProxyRequests == AwsRequests \cup TerraformRequests \cup OtherRequests
SignalRequests ==
  {[Proxy("aws", <<Word("s3")>>) EXCEPT !.terminal = t] : t \in BOOLEAN} \cup {Proxy("cdk", <<Word("deploy")>>)}
Signalling == pxReq[p1] \in SignalRequests /\ pxReq[p2] = NoProxy
ProxiesInit ==
  /\ pxReq \in IF scene # "proxies" THEN {[p \in ProxyProcs |-> NoProxy]}
               ELSE {[p \in ProxyProcs |-> IF p = p1 THEN r ELSE NoProxy] :
                       r \in AwsRequests \cup TerraformRequests \cup OtherRequests \cup SignalRequests}
                    \cup [ProxyProcs -> TerraformRequests]
  /\ ProxyInit
ProxiesAlone ==
  /\ Signalling \/ sent' = sent
  /\ pxReq[p2] = NoProxy => pxAt'[p2] = pxAt[p2] /\ pxEnd'[p2] = pxEnd[p2]
  /\ pxReq[p1].tool # "terraform" => override' = override
-----------------------------------------------------------------------------
\* ConfigFiles: files of a user, and a second command that changes the type.
MCLocalStackVars == {"LOCALSTACK_AUTH_TOKEN", "LOCALSTACK_PATH", "LOCALSTACK_DEBUG", "LOCALSTACK_HOST"}
MCHostEnv ==
  [k \in MCLocalStackVars \cup {"CI", "MAIN_CONTAINER_NAME"} |->
     IF k = "LOCALSTACK_DEBUG" THEN "two\nlines" ELSE "host"]
Start(type) ==
  [type |-> type, interactive |-> FALSE, skips |-> FALSE, pick |-> "snowflake", configFlag |-> FALSE,
   persist |-> TRUE]
MCConfigRequests ==
  { Start(""), [Start("") EXCEPT !.interactive = TRUE, !.skips = TRUE], Start("snowflake"),
    [Start("azure") EXCEPT !.interactive = TRUE, !.skips = TRUE],
    [Start("snowflake") EXCEPT !.configFlag = TRUE] }
Exposed(h, c, proto) == [host |-> h, container |-> c, proto |-> proto]
Volume(base, target, ro) == [base |-> base, path |-> "d", target |-> target, ro |-> ro]
Block(keys) == Table("containers", keys)
Snowflake ==
  Block([type |-> "snowflake", port |-> 4510, expose |-> <<Exposed(0, 443, "tcp"), Exposed(53, 8053, "udp")>>,
         volumes |-> <<Volume("rel", PersistenceTarget, FALSE), Volume("~", "/init", TRUE)>>])
NamedEnvFile ==
  << Table("debug", [type |-> "user", LOCALSTACK_AUTH_TOKEN |-> "theirs"]),
     Block([type |-> "aws", env |-> <<"debug">>,
            expose |-> <<Exposed(0, 53, ""), Exposed(4566, 4510, "tcp"), Exposed(4511, 8053, "tcp"),
                         Exposed(0, 8054, "")>>]),
     Table("cli", [other |-> "x"]) >>
GatewayFile ==
  << Table("gw", [GATEWAY_LISTEN |-> <<[host |-> "0.0.0.0", port |-> 4566], [host |-> "", port |-> 8443],
                                       [host |-> "127.0.0.1", port |-> 8443], [host |-> "", port |-> 4510]>>]),
     Block([type |-> "snowflake", env |-> <<"gw">>, expose |-> <<Exposed(8443, 443, "tcp"), Exposed(443, 8443, "udp")>>]) >>
MCConfigFiles ==
  { NamedEnvFile, GatewayFile,
    <<Block([type |-> "aws", image |-> [repo |-> "r", tag |-> ""], tag |-> "2026.4",
             expose |-> <<Exposed(0, 443, "tcp"), Exposed(8443, 443, "tcp")>>])>>,
    <<Snowflake, Block([type |-> "aws"])>>, <<Snowflake, Table("cli", [update_skipped_version |-> "v1"])>>,
    <<Block([type |-> "aws", tag |-> "-bad"])>>, <<Block([type |-> "aws", env |-> <<"gone">>])>>,
    OldYaml, NoFile }
Holding(f, dotConfig) ==
  [dotConfig |-> dotConfig, running |-> "",
   files |-> [x \in Places |-> IF x \in {"xdg", "flag"} THEN f ELSE NoFile]]
MCConfigWorlds ==
  {Holding(f, TRUE) : f \in MCConfigFiles}
    \cup {[Holding(NamedEnvFile, TRUE) EXCEPT !.running = "aws"], Holding(NoFile, FALSE),
          [Holding(NoFile, FALSE) EXCEPT !.running = "aws"]}
MCUserConfigs == {NamedEnvFile}
ConfigFilesInit ==
  /\ cfReq \in IF scene # "config" THEN {[p \in ConfigProcs |-> Start("")]}
               ELSE {[p \in ConfigProcs |-> IF p = c1 THEN r ELSE Start("snowflake")] : r \in MCConfigRequests}
  /\ cfWorld \in IF scene = "config" THEN {[dotConfig |-> w.dotConfig, running |-> w.running] : w \in MCConfigWorlds}
                 ELSE {[dotConfig |-> FALSE, running |-> ""]}
  /\ ConfigInit
ConfigPair == cfReq[c1].interactive /\ cfFile["flag"] \in {NoFile, NamedEnvFile}
ConfigAlone ==
  IF ConfigPair THEN cfUser' = cfUser ELSE cfAt'[c2] = cfAt[c2] /\ cfEnd'[c2] = cfEnd[c2]
-----------------------------------------------------------------------------
\* CloudProfiles: one setup or interception, and pairs.
Profile(cmd) == [cmd |-> cmd, interactive |-> FALSE, force |-> FALSE, cloud |-> "AzureCloud"]
MCProfileRequests ==
  [cmd : {"setup-aws"}, interactive : BOOLEAN, force : BOOLEAN, cloud : {"AzureCloud"}]
    \cup [cmd : {"start"}, interactive : BOOLEAN, force : {FALSE}, cloud : {"AzureCloud"}]
    \cup {Profile(c) : c \in {"setup-azure", "intercept", "stop"}}
    \cup {[Profile("stop") EXCEPT !.cloud = c] : c \in {"Unknown", "Mine", "LocalStack"}}
MCAwsStarts == [AwsFiles -> {Absent, Broken, "other", "lstk"}]
WritesAws(p) == cpReq[p].cmd \in {"setup-aws", "start"}
CloudProfilesInit ==
  /\ cpReq \in IF scene # "profiles" THEN {[p \in ProfileProcs |-> Profile("stop")]}
               ELSE {[p \in ProfileProcs |-> IF p = u1 THEN r ELSE s] :
                       r \in MCProfileRequests, s \in {Profile("setup-azure"), Profile("stop")}}
  /\ aws \in IF scene = "profiles" /\ WritesAws(u1) THEN MCAwsStarts ELSE {[f \in AwsFiles |-> Absent]}
  /\ ProfileInit
ProfilesAlone ==
  /\ ~WritesAws(u1) => aws' = aws
  /\ WritesAws(u1) => cpAt'[u2] = cpAt[u2] /\ cpEnd'[u2] = cpEnd[u2] /\ clouds' = clouds
-----------------------------------------------------------------------------
\* Lifecycle: one command, and pairs of a restart and a command that stops or
\* starts what it works on; containers of its own and of others.
AwsBlock == [type |-> "aws", port |-> 4566]
SnowflakeBlock == [type |-> "snowflake", port |-> 4567]
Command(c) ==
  [cmd |-> c, containers |-> <<AwsBlock>>, json |-> FALSE, terminal |-> TRUE, force |-> FALSE,
   persist |-> FALSE, config |-> "ok", target |-> "none", only |-> "", installed |-> TRUE]
Resting == [Command("status") EXCEPT !.target = "down"]
MCLifeRequests ==
  {Resting} \cup {Command(c) : c \in {"stop", "restart", "reset", "volume clear", "status", "extension"}}
    \cup {[Command(c) EXCEPT !.json = TRUE] : c \in {"stop", "restart", "reset"}}
    \cup {[Command(c) EXCEPT !.json = TRUE, !.config = "unreadable"] : c \in {"stop", "restart"}}
    \cup {[Command("reset") EXCEPT !.force = TRUE, !.target = t] : t \in {"none", "aws", "down", "snowflake"}}
    \cup {[Command(c) EXCEPT !.containers = <<AwsBlock, SnowflakeBlock>>, !.json = (c = "stop")] :
            c \in {"stop", "restart", "status"}}
    \cup {[Command(c) EXCEPT !.containers = <<>>] : c \in {"restart", "volume clear", "extension"}}
    \cup {[Command("volume clear") EXCEPT !.force = TRUE, !.only = o,
             !.containers = <<AwsBlock, SnowflakeBlock>>] : o \in {"", "snowflake", "azure"}}
    \cup { [Command("restart") EXCEPT !.persist = TRUE], [Command("status") EXCEPT !.target = "aws"],
           [Command("extension") EXCEPT !.installed = FALSE] }
Box(type, port, persist) == [up |-> "running", type |-> type, port |-> port, persist |-> persist, items |-> TRUE]
BoxesAre(a, s, m) ==
  [n \in BoxNames |-> CASE n = "mine" -> m [] n = "localstack-aws" -> a [] OTHER -> s]
MCLifeWorlds ==
  { BoxesAre(Box("aws", 4566, TRUE), NoBox, NoBox),
    BoxesAre(NoBox, Box("snowflake", 4567, FALSE), Box("aws", 4566, FALSE)),
    BoxesAre(Box("aws", 4566, FALSE), Box("snowflake", 4567, TRUE), NoBox) }
MCLifeStarts ==
  {[p \in LifeProcs |-> IF p = l1 THEN r ELSE Resting] : r \in MCLifeRequests}
    \cup {[p \in LifeProcs |-> Command(IF p = l1 THEN "restart" ELSE c)] : c \in {"stop", "restart"}}
\* Where two commands run nobody else acts but the daemon.
LifeAlone ==
  IF lcReq[l2] = Resting THEN lcAt'[l2] = lcAt[l2] /\ lcResult'[l2] = lcResult[l2]
  ELSE lcAt' # lcAt \/ lcResult' # lcResult \/ \E n \in BoxNames : boxes[n].up = "removing" /\ boxes'[n] = NoBox
LifecycleInit ==
  /\ lcReq \in IF scene = "lifecycle" THEN MCLifeStarts ELSE {[p \in LifeProcs |-> Resting]}
  /\ boxes \in IF scene = "lifecycle" THEN MCLifeWorlds ELSE {BoxesAre(Box("aws", 4566, TRUE), NoBox, NoBox)}
  /\ LifeInit
-----------------------------------------------------------------------------
\* LogTail and SelfUpdate.
Logs(n, follow, verbose) == [tail |-> n, follow |-> follow, verbose |-> verbose, invalid |-> FALSE]
MCLogRequests ==
  {Logs(n, f, v) : n \in {0, 1, 2, AllLines}, f \in BOOLEAN, v \in BOOLEAN}
    \cup {[Logs(0, FALSE, FALSE) EXCEPT !.invalid = TRUE]}
LogTailInit ==
  /\ ltReq \in IF scene = "logs" THEN MCLogRequests ELSE {Logs(0, FALSE, FALSE)}
  /\ LogInit
  /\ scene # "logs" => ltLog = <<>>
MCUpdateRequests ==
  [checkOnly : {FALSE}, method : {"binary"}, os : {"linux", "darwin", "windows"}, device : {"same", "other"}]
    \cup [checkOnly : BOOLEAN, method : {"homebrew"}, os : {"darwin"}, device : {"same"}]
SelfUpdateInit ==
  /\ suReq \in IF scene = "update" THEN [UpdateProcs -> MCUpdateRequests]
               ELSE {[p \in UpdateProcs |-> CHOOSE r \in MCUpdateRequests : r.checkOnly]}
  /\ UpdateInit
  /\ scene # "update" => suLatest = 0 /\ suOld = 0
-----------------------------------------------------------------------------
CommandsInit ==
  /\ scene \in Scenes
  /\ SnapshotsInit /\ ProxiesInit /\ ConfigFilesInit /\ CloudProfilesInit /\ LifecycleInit
  /\ LogTailInit /\ SelfUpdateInit

CommandsNext ==
  /\ UNCHANGED scene
  /\ \/ /\ scene = "snapshots" /\ SnapNext /\ SnapshotsAlone
        /\ UNCHANGED <<pxVars, cfVars, cpVars, lcVars, ltVars, suVars>>
     \/ /\ scene = "proxies" /\ ProxyNext /\ ProxiesAlone
        /\ UNCHANGED <<snapVars, cfVars, cpVars, lcVars, ltVars, suVars>>
     \/ /\ scene = "config" /\ ConfigNext /\ ConfigAlone
        /\ UNCHANGED <<snapVars, pxVars, cpVars, lcVars, ltVars, suVars>>
     \/ /\ scene = "profiles" /\ ProfileNext /\ ProfilesAlone
        /\ UNCHANGED <<snapVars, pxVars, cfVars, lcVars, ltVars, suVars>>
     \/ /\ scene = "lifecycle" /\ LifeNext /\ LifeAlone
        /\ UNCHANGED <<snapVars, pxVars, cfVars, cpVars, ltVars, suVars>>
     \/ /\ scene = "logs" /\ LogNext
        /\ UNCHANGED <<snapVars, pxVars, cfVars, cpVars, lcVars, suVars>>
     \/ /\ scene = "update" /\ UpdateNext
        /\ UNCHANGED <<snapVars, pxVars, cfVars, cpVars, lcVars, ltVars>>
commandsVars == <<scene, snapVars, pxVars, cfVars, cpVars, lcVars, ltVars, suVars>>
CommandsSpec == CommandsInit /\ [][CommandsNext]_commandsVars

\* Every component's state stays of its type. (the state of each command)
CommandsTypeOK ==
  /\ SnapTypeOK /\ ProxyTypeOK /\ ConfigTypeOK /\ ProfileTypeOK /\ LifeTypeOK /\ LogTypeOK /\ UpdateTypeOK
=============================================================================
