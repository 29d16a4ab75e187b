------------------------------ MODULE Proxies -------------------------------
(***************************************************************************)
(* lstk aws, az, terraform, cdk and sam: lstk's own flags are taken out of *)
(* the command line, an emulator is found, and the user's tool is run with *)
(* an environment that points it at that emulator; terraform also gets an  *)
(* override file in its directory for the time of the run.                 *)
(***************************************************************************)
EXTENDS Naturals, Sequences, FiniteSets, Endpoint

CONSTANTS
  ProxyProcs,     \* the proxy commands
  ProxyRequests,  \* what they may be asked
  MaxSignals      \* bound on the signals of each kind a command is sent

VARIABLES
  pxReq,       \* the request
  pxAt,        \* where the command is
  pxArgs,      \* what is left of the command line
  pxAccount,   \* the account it selects, and whether the user chose it
  pxUrl,       \* the emulator it found: "" or the tool's own type
  pxChild,     \* the environment and arguments of the tool it started
  pxEnd,       \* "busy", "ok" or why it stopped
  buckets,     \* the accounts that have the terraform state bucket
  override,    \* the override file of the terraform directory, or "none"
  stat,        \* what a run saw at the override's place: "unseen" before
  ctxDone,     \* whether the root context is cancelled
  notified,    \* whether signals are relayed
  sigCh,       \* signals to relay
  sent,        \* signals the command was sent
  got          \* signals the tool got

pxVars == <<pxReq, pxAt, pxArgs, pxAccount, pxUrl, pxChild, pxEnd, buckets, override, stat,
            ctxDone, notified, sigCh, sent, got>>

Tools == {"aws", "az", "terraform", "cdk", "sam"}
ChildSignals == {"INT", "TERM"}
NoToken == "none"
Flag(name, value) == [is |-> "flag", name |-> name, value |-> value]
Word(name) == [is |-> "word", name |-> name, value |-> NoToken]

\* What a command is asked, what may answer its endpoint URLs, and what there
\* is in its directory.
Tokens == [is : {"flag", "word"}, name : STRING, value : STRING]
EnvKeys == {"AWS_ENDPOINT_URL", "AWS_ACCESS_KEY_ID", "AWS_SECRET_ACCESS_KEY", "AWS_SESSION_TOKEN",
            "AWS_PROFILE", "AWS_REGION", "AWS_DEFAULT_REGION"}
Dirs == [backend : BOOLEAN, attrs : SUBSET STRING, legacy : BOOLEAN, bucket : BOOLEAN,
         aliases : SUBSET STRING, keys : SUBSET STRING]
RequestTyped(r) ==
  /\ r.tool \in Tools /\ r.before \in Seq(Tokens) /\ r.args \in Seq(Tokens)
  /\ r.env \in [EnvKeys -> STRING] /\ r.dir \in Dirs
  /\ \A x \in Sources : ValidUrl(r.given[x]) => r.given[x] \in DOMAIN r.world
  /\ \A u \in DOMAIN r.world : r.world[u] \in EndpointAnswers
ASSUME ProxyConstants ==
  /\ MaxSignals \in Nat /\ ProxyProcs \cap {"none", "user"} = {}
  /\ \A r \in ProxyRequests : RequestTyped(r)

Bare(t) == t.is = "word"
Attached(t) == t.is = "flag" /\ t.value # NoToken
-----------------------------------------------------------------------------
\* The command line. Each token of a run of flags has a role; a flag without
\* "=" takes the token after it: for one of lstk's flags always, for one of
\* the tool's when it is no flag. The first token left over is the action.
RoleAfter(args, own, i, prev) ==
  CASE prev = "action" -> "action"
    [] prev = "own" /\ ~Attached(args[i - 1]) -> "ownValue"
    [] prev # "action" /\ (prev = "own" => Attached(args[i - 1])) /\ ~Bare(args[i]) ->
         IF args[i].name \in own THEN "own" ELSE "flag"
    [] prev = "flag" /\ Bare(args[i]) ->
         IF Attached(args[i - 1]) THEN "action" ELSE "flagValue"
    [] OTHER -> "action"
Roles(args, own) ==
  LET role[i \in 1..Len(args)] ==
        RoleAfter(args, own, i, IF i = 1 THEN "start" ELSE role[i - 1])
  IN  role

Without(args, drop) ==
  LET kept[n \in 0..Len(args)] ==
        IF n = 0 THEN <<>>
        ELSE IF n \in drop THEN kept[n - 1] ELSE Append(kept[n - 1], args[n])
  IN  kept[Len(args)]

\* --non-interactive and --config are lstk's anywhere; --config takes a value.
GlobalFlagsAt(args) ==
  LET taken[i \in 0..Len(args)] ==
        IF i = 0 THEN "no"
        ELSE IF taken[i - 1] = "value" THEN "yes"
        ELSE IF Bare(args[i]) \/ args[i].name \notin {"--config", "--non-interactive"} THEN "no"
        ELSE IF args[i].name = "--config" /\ ~Attached(args[i]) THEN "value" ELSE "yes"
  IN  {i \in DOMAIN args : taken[i] # "no"}
StripGlobalFlags(args) == Without(args, GlobalFlagsAt(args))

LeadingFlags(tool) ==
  CASE tool = "az" -> {} [] tool = "aws" -> {"--account"}
    [] tool \notin {"az", "aws"} -> {"--account", "--region"}

\* Mutant: lstk's flags are taken in any position.
OwnAtAnywhere(args, own) ==
  {i \in DOMAIN args : args[i].name \in own
                         \/ (i > 1 /\ args[i - 1].name \in own /\ ~Attached(args[i - 1]))}
OwnAt(args, own) == {i \in DOMAIN args : Roles(args, own)[i] \in {"own", "ownValue"}}
StripLeadingProxyFlags(args, own) == Without(args, OwnAt(args, own))
MissingValue(args, own) ==
  \E i \in DOMAIN args :
    i = Len(args) /\ Roles(args, own)[i] = "own" /\ ~Attached(args[i])

\* The last --account wins.
FlagValue(args, own, name) ==
  LET at == {i \in DOMAIN args : Roles(args, own)[i] = "own" /\ args[i].name = name}
      i == CHOOSE i \in at : \A j \in at : j <= i
  IN  IF at = {} THEN "" ELSE IF Attached(args[i]) THEN args[i].value ELSE args[i + 1].name

RejectPreSubcommandFlags(before, own) ==
  \E i \in DOMAIN before : ~Bare(before[i]) /\ before[i].name \in own

\* An access key that looks real has its first letter changed; twelve digits
\* name an account.
\* DeactivateAccessKeyNever is a mutant.
DeactivateAccessKeyNever(key) == key
DeactivateAccessKey(key) == IF key = "AKIA" THEN "LKIA" ELSE key
IsAccountID(v) == v \in {"111111111111", "222222222222"}
ResolveAccountSelection(flag, env) ==
  CASE flag # "" -> [account |-> flag, selected |-> TRUE]
    [] flag = "" /\ env["AWS_ACCESS_KEY_ID"] # "" ->
         [account |-> DeactivateAccessKey(env["AWS_ACCESS_KEY_ID"]),
          selected |-> IsAccountID(env["AWS_ACCESS_KEY_ID"])]
    [] OTHER -> [account |-> "test", selected |-> FALSE]

ResolveRegionSelection(flag, env) ==
  IF flag # "" THEN flag ELSE IF env["AWS_REGION"] # "" THEN env["AWS_REGION"] ELSE "us-east-1"

\* The first word after flags; cdk knows which of its own flags take a value.
CdkValueFlags == {"--app", "-c", "--context", "--profile"}
Subcommand(tool, args) ==
  LET skipped == {i \in DOMAIN args :
                    i > 1 /\ tool = "cdk" /\ ~Bare(args[i - 1]) /\ ~Attached(args[i - 1])
                      /\ args[i - 1].name \in CdkValueFlags}
      words == {i \in DOMAIN args : Bare(args[i]) /\ i \notin skipped}
  IN  IF words = {} THEN "" ELSE args[CHOOSE i \in words : \A j \in words : i <= j].name

HelpWords(tool) ==
  {"-h", "--help"} \cup CASE tool = "terraform" -> {"-help"} [] tool \in {"aws", "cdk"} -> {"help"}
                          [] OTHER -> {}
IsHelp(tool, args) == tool # "az" /\ \E i \in DOMAIN args : args[i].name \in HelpWords(tool)

\* Commands that need no emulator.
IsUnproxied(args) ==
  IsHelp("terraform", args) \/ Subcommand("terraform", args) \in {"fmt", "validate", "version"}
IsInit(args) == Subcommand("terraform", args) = "init"
IsOffline(tool, args) ==
  CASE tool = "terraform" -> IsUnproxied(args)
    [] tool = "cdk" ->
         IsHelp(tool, args) \/ Subcommand(tool, args) \in {"init", "synth", "list", "version"}
    [] tool = "sam" ->
         IsHelp(tool, args) \/ Subcommand(tool, args) \in {"init", "build", "validate", "local"}
    [] OTHER -> IsHelp(tool, args)
RequiresEmulator(req, args) ==
  /\ ~IsOffline(req.tool, args)
  /\ req.tool = "terraform" /\ IsInit(args) => req.dir.backend
-----------------------------------------------------------------------------
\* The tool's environment: what lstk sets wins over what the user had.
StrippedKeys == {"AWS_PROFILE", "AWS_SESSION_TOKEN"}
SetAll(base, managed) ==
  [k \in EnvKeys |-> IF k \in DOMAIN managed /\ managed[k] # "" THEN managed[k] ELSE base[k]]
SetIfAbsent(base, defaults) ==
  [k \in EnvKeys |-> IF k \in DOMAIN defaults /\ base[k] = "" THEN defaults[k] ELSE base[k]]
RemoveKeys(base, keys) == [k \in EnvKeys |-> IF k \in keys THEN "" ELSE base[k]]

Managed(url, account, region) ==
  [AWS_ENDPOINT_URL |-> url, AWS_ACCESS_KEY_ID |-> account, AWS_SECRET_ACCESS_KEY |-> "test",
   AWS_REGION |-> region, AWS_DEFAULT_REGION |-> region]
CdkEnv(base, url, region) == SetAll(RemoveKeys(base, StrippedKeys), Managed(url, "test", region))
SamEnv(base, url, account, region) ==
  SetAll(RemoveKeys(base, StrippedKeys), Managed(url, account, region))

\* aws without lstk's profile: the user's secret and region stay.
AwsBuildEnv(base, account) ==
  RemoveKeys(SetIfAbsent([base EXCEPT !["AWS_ACCESS_KEY_ID"] =
                             IF account # "" THEN account ELSE IF @ = "" THEN "test" ELSE @],
                         [AWS_SECRET_ACCESS_KEY |-> "test", AWS_DEFAULT_REGION |-> "us-east-1"]),
             {"AWS_SESSION_TOKEN"})

\* With it, a selected account takes the place of the profile's credentials.
AwsProfileEnv(base, sel) ==
  LET profile == RemoveKeys([base EXCEPT !["AWS_PROFILE"] = "localstack"], {"AWS_SESSION_TOKEN"})
  IN  IF sel.selected
      THEN SetIfAbsent([profile EXCEPT !["AWS_ACCESS_KEY_ID"] = sel.account],
                       [AWS_SECRET_ACCESS_KEY |-> "test"])
      ELSE RemoveKeys(profile, {"AWS_ACCESS_KEY_ID", "AWS_SECRET_ACCESS_KEY"})
AwsExecEnv(base, sel, profileExists) ==
  IF profileExists THEN AwsProfileEnv(base, sel) ELSE AwsBuildEnv(base, sel.account)
-----------------------------------------------------------------------------
PxAt(p, step) == pxEnd[p] = "busy" /\ pxAt[p] = step
PxGo(p, step) == pxAt' = [pxAt EXCEPT ![p] = step] /\ UNCHANGED pxEnd
PxEnd(p, why) == pxEnd' = [pxEnd EXCEPT ![p] = why] /\ UNCHANGED pxAt
PxParsed == <<pxReq, pxArgs, pxAccount>>
Signals == <<ctxDone, notified, sigCh, sent, got>>
TerraformFile == <<buckets, override, stat>>

\* aws is looked for before anything else.
AwsInstalled(p) ==
  /\ PxAt(p, "installed")
  /\ PxGo(p, "flags") \/ PxEnd(p, "notInstalled")
  /\ UNCHANGED <<PxParsed, pxUrl, pxChild, TerraformFile, Signals>>

\* PreRunE and the flags: what is lstk's is taken, the rest is the tool's.
TakeFlags(p) ==
  LET req == pxReq[p]
      own == LeadingFlags(req.tool)
      args == StripGlobalFlags(req.args)
      account == FlagValue(args, own, "--account")
  IN  /\ PxAt(p, "flags")
      /\ \/ RejectPreSubcommandFlags(req.before, own) /\ PxEnd(p, "flagBeforeCommand")
         \/ ~RejectPreSubcommandFlags(req.before, own) /\ MissingValue(args, own)
              /\ PxEnd(p, "flagValue")
         \/ /\ ~RejectPreSubcommandFlags(req.before, own) /\ ~MissingValue(args, own)
            /\ IF req.tool = "cdk" /\ account # "" THEN PxEnd(p, "accountNotSupported")
               ELSE IF account # "" /\ ~IsAccountID(account) THEN PxEnd(p, "accountInvalid")
               ELSE PxGo(p, "route")
      /\ pxArgs' = [pxArgs EXCEPT ![p] = IF MissingValue(args, own) THEN args
                                         ELSE StripLeadingProxyFlags(args, own)]
      /\ pxAccount' = [pxAccount EXCEPT ![p] =
                          ResolveAccountSelection(IF MissingValue(args, own) THEN "" ELSE account,
                                                  req.env)]
      /\ UNCHANGED <<pxReq, pxUrl, pxChild, TerraformFile, Signals>>

\* The tool's own wrapper comes next: terraform's has an override to write.
Runner(p) == IF pxReq[p].tool = "terraform" THEN "terraform" ELSE "lookPath"
WantedType(p) == IF pxReq[p].tool = "az" THEN "azure" ELSE "aws"
GivenType(p) == ResolveEndpoint(pxReq[p].given, pxReq[p].world)
NeedsEmulator(p) == RequiresEmulator(pxReq[p], pxArgs[p])

\* az must be there, and set up.
AzNotReady(p) ==
  /\ PxAt(p, "route") /\ pxReq[p].tool = "az"
  /\ PxEnd(p, "notSetUp") \/ PxEnd(p, "notInstalled")
  /\ UNCHANGED <<PxParsed, pxUrl, pxChild, TerraformFile, Signals>>

\* terraform's and aws's offline commands get no endpoint at all.
SkipsEndpoint(p) == pxReq[p].tool \in {"terraform", "aws"} /\ ~NeedsEmulator(p)
RunsWithoutEndpoint(p) ==
  /\ PxAt(p, "route") /\ SkipsEndpoint(p)
  /\ PxGo(p, Runner(p))
  /\ UNCHANGED <<PxParsed, pxUrl, pxChild, TerraformFile, Signals>>

\* A given endpoint URL decides: an emulator of the tool's type, or the end.
TakesTarget(p) ==
  /\ PxAt(p, "route") /\ ~SkipsEndpoint(p) /\ GivenType(p) # "docker"
  /\ IF GivenType(p) = WantedType(p)
     THEN PxGo(p, Runner(p)) /\ pxUrl' = [pxUrl EXCEPT ![p] = "target"]
     ELSE /\ PxEnd(p, IF GivenType(p) \in TargetTypes THEN "otherEmulator" ELSE GivenType(p))
          /\ UNCHANGED pxUrl
  /\ UNCHANGED <<PxParsed, pxChild, TerraformFile, Signals>>

\* cdk's and sam's offline commands get the URL an emulator would have.
RunsOffline(p) ==
  /\ PxAt(p, "route") /\ ~SkipsEndpoint(p) /\ GivenType(p) = "docker" /\ ~NeedsEmulator(p)
  /\ PxGo(p, Runner(p)) /\ pxUrl' = [pxUrl EXCEPT ![p] = "docker"]
  /\ UNCHANGED <<PxParsed, pxChild, TerraformFile, Signals>>
LooksInDocker(p) ==
  /\ PxAt(p, "route") /\ GivenType(p) = "docker" /\ NeedsEmulator(p)
  /\ PxGo(p, "emulator")
  /\ UNCHANGED <<PxParsed, pxUrl, pxChild, TerraformFile, Signals>>

\* Docker healthy, the emulator running, and for az its name resolving.
RequireEmulator(p) ==
  /\ PxAt(p, "emulator")
  /\ \/ \E why \in {"unhealthy", "checkFailed", "notRunning", "otherEmulator"} :
          PxEnd(p, why) /\ UNCHANGED pxUrl
     \/ pxReq[p].tool = "az" /\ PxEnd(p, "dns") /\ UNCHANGED pxUrl
     \/ /\ PxGo(p, Runner(p))
        /\ pxUrl' = [pxUrl EXCEPT ![p] = "docker"]
  /\ UNCHANGED <<PxParsed, pxChild, TerraformFile, Signals>>

\* The tool exists, and a cdk or sam honors endpoint variables.
LookPath(p) ==
  /\ PxAt(p, "lookPath")
  /\ \/ PxGo(p, "notify") \/ PxEnd(p, "notInstalled")
     \/ pxReq[p].tool \in {"cdk", "sam"} /\ PxEnd(p, "tooOld")
  /\ UNCHANGED <<PxParsed, pxUrl, pxChild, TerraformFile, Signals>>
-----------------------------------------------------------------------------
\* terraform. Of the directory's files count whether they declare an S3
\* backend, its literal attributes, its bucket, the aliases of the aws
\* provider, and the endpoint keys of the installed provider.
ManagedBackendKeys ==
  {"access_key", "secret_key", "skip_flags", "use_path_style", "force_path_style", "endpoint",
   "endpoints", "dynamodb_endpoint", "iam_endpoint", "sts_endpoint"}
UserAttrs(attrs) == attrs \ ManagedBackendKeys

\* Before version 1.6 each endpoint has an attribute of its own.
BackendEndpoints(legacy) ==
  IF legacy THEN {"endpoint", "dynamodb_endpoint", "iam_endpoint", "sts_endpoint"} ELSE {"endpoints"}
ManagedBackendArgs(attrs, legacy) ==
  {"access_key", "secret_key", "skip_flags", IF legacy THEN "force_path_style" ELSE "use_path_style"}
    \cup BackendEndpoints(legacy) \cup (IF "region" \in attrs THEN {} ELSE {"region"})
BackendBlock(attrs, legacy) ==
  [k \in UserAttrs(attrs) \cup ManagedBackendArgs(attrs, legacy) |->
     IF k \in ManagedBackendArgs(attrs, legacy) THEN "lstk" ELSE "user"]

DiscoverAWSAliases(dir) == IF dir.aliases = {} THEN {"default"} ELSE dir.aliases

\* Of the endpoint keys that name one service the first is kept.
EndpointAliasGroups == {<<"s3", "s3api">>, <<"events", "eventbridge", "cloudwatchevents">>}
DedupeAliasKeys(keys) ==
  keys \ UNION {{g[i] : i \in {i \in DOMAIN g : \E j \in 1..(i - 1) : g[j] \in keys}} :
                  g \in EndpointAliasGroups}

\* The override file: a provider block per alias (not for init, whose schema
\* is not there yet) and the backend, with lstk's account.
Override(p, author, provider) ==
  LET dir == pxReq[p].dir
  IN  [author |-> author, account |-> pxAccount[p].account,
       providers |-> IF provider THEN DiscoverAWSAliases(dir) ELSE {},
       keys |-> IF provider THEN DedupeAliasKeys(dir.keys) ELSE {},
       backend |-> IF dir.backend THEN BackendBlock(dir.attrs, dir.legacy) ELSE [k \in {} |-> ""]]
NoOverride ==
  [author |-> "none", account |-> "", providers |-> {}, keys |-> {}, backend |-> [k \in {} |-> ""]]
UserOverride == [NoOverride EXCEPT !.author = "user"]
MayWrite(p) == stat[p] = "none"

TerraformSetup(p) ==
  LET args == pxArgs[p]
  IN  /\ PxAt(p, "terraform")
      /\ \/ PxEnd(p, "notInstalled")
         \/ ~IsUnproxied(args) /\ PxEnd(p, "chdirMissing")
         \/ IsUnproxied(args) /\ PxGo(p, "notify")
         \/ IsInit(args) /\ ~IsUnproxied(args)
              /\ PxGo(p, IF pxReq[p].dir.backend THEN "check" ELSE "notify")
         \/ ~IsInit(args) /\ ~IsUnproxied(args)
              /\ PxGo(p, IF pxReq[p].dir.backend THEN "probeCheck" ELSE "probe")
      /\ UNCHANGED <<PxParsed, pxUrl, pxChild, TerraformFile, Signals>>

\* The file is looked for, and written some time later.
\* EnsureSafeToWriteOwnOnly is a mutant: only a user's file is refused.
EnsureSafeToWriteOwnOnly(p) ==
  /\ PxAt(p, "check") \/ PxAt(p, "probeCheck")
  /\ stat' = [stat EXCEPT ![p] = override.author]
  /\ \/ override.author = "user" /\ PxEnd(p, "exists")
     \/ override.author # "user" /\ PxGo(p, IF pxAt[p] = "check" THEN "write" ELSE "probeWrite")
  /\ UNCHANGED <<PxParsed, pxUrl, pxChild, buckets, override, Signals>>
EnsureSafeToWrite(p) ==
  /\ PxAt(p, "check") \/ PxAt(p, "probeCheck")
  /\ stat' = [stat EXCEPT ![p] = override.author]
  /\ \/ PxEnd(p, "statFailed")
     \/ override.author # "none" /\ PxEnd(p, "exists")
     \/ override.author = "none" /\ PxGo(p, IF pxAt[p] = "check" THEN "write" ELSE "probeWrite")
  /\ UNCHANGED <<PxParsed, pxUrl, pxChild, buckets, override, Signals>>

GenerateOverride(p) ==
  /\ PxAt(p, "write") \/ PxAt(p, "probeWrite")
  /\ \/ PxEnd(p, "writeFailed") /\ UNCHANGED override
     \/ /\ override' = Override(p, p, pxAt[p] = "write" /\ ~IsInit(pxArgs[p]))
        /\ PxGo(p, CASE pxAt[p] = "probeWrite" -> "probe"
                     [] pxAt[p] = "write" /\ pxReq[p].dryRun -> "dryRun"
                     [] pxAt[p] = "write" /\ ~pxReq[p].dryRun /\ pxReq[p].dir.backend -> "provision"
                     [] OTHER -> "notify")
  /\ UNCHANGED <<PxParsed, pxUrl, pxChild, buckets, stat, Signals>>

RemoveOverride == override' = NoOverride

\* terraform providers schema, with the redirected backend in place; the
\* file is removed however it ends.
DiscoverEndpointKeys(p) ==
  /\ PxAt(p, "probe")
  /\ PxGo(p, "check") \/ PxEnd(p, "initRequired") \/ PxEnd(p, "noEndpointKeys")
  /\ IF pxReq[p].dir.backend THEN RemoveOverride ELSE UNCHANGED override
  /\ UNCHANGED <<PxParsed, pxUrl, pxChild, buckets, stat, Signals>>

\* A dry run leaves the file for the user to read.
TerraformDryRun(p) ==
  /\ PxAt(p, "dryRun")
  /\ PxEnd(p, "dryRun")
  /\ UNCHANGED <<PxParsed, pxUrl, pxChild, TerraformFile, Signals>>

\* The state bucket and the lock table, through the aws CLI and under the
\* account of the backend block; without a literal bucket terraform complains.
ProvisionBackend(p) ==
  /\ PxAt(p, "provision")
  /\ \/ /\ PxGo(p, "notify") /\ UNCHANGED override
        /\ buckets' = IF pxReq[p].dir.bucket THEN buckets \cup {pxAccount[p].account} ELSE buckets
     \/ pxReq[p].dir.bucket /\ PxEnd(p, "provision") /\ RemoveOverride /\ UNCHANGED buckets
  /\ UNCHANGED <<PxParsed, pxUrl, pxChild, stat, Signals>>
-----------------------------------------------------------------------------
\* The tool runs (proc.Run). HasOverride: the deferred removal is armed.
HasOverride(p) ==
  pxReq[p].tool = "terraform" /\ ~IsUnproxied(pxArgs[p])
    /\ (IsInit(pxArgs[p]) => pxReq[p].dir.backend)
ProxyEnds(p, why) ==
  PxEnd(p, why) /\ IF HasOverride(p) THEN RemoveOverride ELSE UNCHANGED override

ChildEnv(p, profileExists) ==
  LET req == pxReq[p]
      url == IF pxUrl[p] = "" THEN "" ELSE "localstack"
      region == ResolveRegionSelection(FlagValue(StripGlobalFlags(req.args), {"--account", "--region"},
                                                 "--region"), req.env)
  IN  CASE req.tool = "aws" -> IF pxUrl[p] = "" THEN AwsBuildEnv(req.env, "")
                               ELSE AwsExecEnv(req.env, pxAccount[p], profileExists)
        [] req.tool = "cdk" -> CdkEnv(req.env, url, region)
        [] req.tool = "sam" -> SamEnv(req.env, url, pxAccount[p].account, region)
        [] OTHER -> req.env

NoChild == [env |-> [k \in EnvKeys |-> ""], url |-> "none", file |-> NoOverride]

NotifySignals(p) ==
  /\ PxAt(p, "notify")
  /\ notified' = [notified EXCEPT ![p] = TRUE]
  /\ PxGo(p, "start")
  /\ UNCHANGED <<PxParsed, pxUrl, pxChild, TerraformFile, ctxDone, sigCh, sent, got>>

\* exec refuses to start under a cancelled context; aws and az get a
\* terminal of their own where one can be had.
StartTool(p) ==
  /\ PxAt(p, "start")
  /\ \/ ProxyEnds(p, "cancelled") /\ ctxDone[p] /\ UNCHANGED pxChild
     \/ ProxyEnds(p, "startFailed") /\ ~ctxDone[p] /\ UNCHANGED pxChild
     \/ /\ ~ctxDone[p]
        /\ PxGo(p, "running")
        /\ \E profileExists \in BOOLEAN :
             pxChild' = [pxChild EXCEPT ![p] = [env |-> ChildEnv(p, profileExists),
                                                url |-> pxUrl[p], file |-> override]]
        /\ UNCHANGED override
  /\ UNCHANGED <<PxParsed, pxUrl, buckets, stat, Signals>>

ToolExits(p) ==
  /\ PxAt(p, "running")
  /\ ProxyEnds(p, "ok") \/ ProxyEnds(p, "exitCode")
  /\ UNCHANGED <<PxParsed, pxUrl, pxChild, buckets, stat, Signals>>

\* A signal reaches lstk; on a terminal Ctrl-C reaches the tool as well. The
\* channel holds two signals, and what does not fit is dropped.
Forwarded == 2
Signalled(p, sig) ==
  /\ pxEnd[p] = "busy" /\ sent[p][sig] < MaxSignals
  /\ sent' = [sent EXCEPT ![p][sig] = @ + 1]
  /\ sigCh' = [sigCh EXCEPT ![p] = IF notified[p] /\ Len(@) < Forwarded THEN Append(@, sig) ELSE @]
  /\ got' = IF sig = "INT" /\ pxReq[p].terminal /\ PxAt(p, "running")
            THEN [got EXCEPT ![p][sig] = @ + 1] ELSE got
  /\ UNCHANGED <<PxParsed, pxAt, pxEnd, pxUrl, pxChild, TerraformFile, ctxDone, notified>>

CancelContext(p) ==
  /\ pxEnd[p] = "busy" /\ \E sig \in ChildSignals : sent[p][sig] > 0
  /\ ctxDone' = [ctxDone EXCEPT ![p] = TRUE]
  /\ UNCHANGED <<PxParsed, pxAt, pxEnd, pxUrl, pxChild, TerraformFile, notified, sigCh, sent, got>>

\* Mutant: Ctrl-C is relayed on a terminal as well.
ShouldForwardAlways(p, sig) == TRUE
ShouldForward(p, sig) == sig # "INT" \/ ~pxReq[p].terminal
RelaySignal(p) ==
  /\ PxAt(p, "running") /\ sigCh[p] # <<>>
  /\ sigCh' = [sigCh EXCEPT ![p] = Tail(@)]
  /\ got' = IF ShouldForward(p, Head(sigCh[p]))
            THEN [got EXCEPT ![p][Head(sigCh[p])] = @ + 1] ELSE got
  /\ UNCHANGED <<PxParsed, pxAt, pxEnd, pxUrl, pxChild, TerraformFile, ctxDone, notified, sent>>

\* SIGKILL, or a power cut: no deferred removal.
ProxyKilled(p) ==
  /\ pxEnd[p] = "busy"
  /\ PxEnd(p, "killed")
  /\ UNCHANGED <<PxParsed, pxUrl, pxChild, TerraformFile, Signals>>

UserWritesOverride ==
  /\ override.author = "none"
  /\ override' = UserOverride
  /\ UNCHANGED <<PxParsed, pxAt, pxEnd, pxUrl, pxChild, buckets, stat, Signals>>
-----------------------------------------------------------------------------
ProxyStep(p) ==
  \/ AwsInstalled(p) \/ TakeFlags(p) \/ AzNotReady(p) \/ RunsWithoutEndpoint(p) \/ TakesTarget(p)
  \/ RunsOffline(p) \/ LooksInDocker(p) \/ RequireEmulator(p) \/ LookPath(p)
  \/ TerraformSetup(p) \/ EnsureSafeToWrite(p) \/ GenerateOverride(p)
  \/ DiscoverEndpointKeys(p) \/ TerraformDryRun(p) \/ ProvisionBackend(p)
  \/ NotifySignals(p) \/ StartTool(p) \/ ToolExits(p) \/ CancelContext(p) \/ RelaySignal(p)
  \/ ProxyKilled(p) \/ \E sig \in ChildSignals : Signalled(p, sig)

ProxyInit ==
  /\ pxReq \in [ProxyProcs -> ProxyRequests]
  /\ pxAt = [p \in ProxyProcs |-> IF pxReq[p].tool = "aws" THEN "installed" ELSE "flags"]
  /\ pxArgs = [p \in ProxyProcs |-> <<>>]
  /\ pxAccount = [p \in ProxyProcs |-> [account |-> "", selected |-> FALSE]]
  /\ pxUrl = [p \in ProxyProcs |-> ""]
  /\ pxChild = [p \in ProxyProcs |-> NoChild]
  /\ pxEnd = [p \in ProxyProcs |-> "busy"]
  /\ buckets = {}
  /\ override = NoOverride
  /\ stat = [p \in ProxyProcs |-> "unseen"]
  /\ ctxDone = [p \in ProxyProcs |-> FALSE]
  /\ notified = [p \in ProxyProcs |-> FALSE]
  /\ sigCh = [p \in ProxyProcs |-> <<>>]
  /\ sent = [p \in ProxyProcs |-> [sig \in ChildSignals |-> 0]]
  /\ got = sent

ProxyNext == UserWritesOverride \/ \E p \in ProxyProcs : ProxyStep(p)
ProxySpec == ProxyInit /\ [][ProxyNext]_pxVars

Authors == ProxyProcs \cup {"none", "user"}
ProxyTypeOK ==
  /\ pxReq \in [ProxyProcs -> ProxyRequests]
  /\ pxUrl \in [ProxyProcs -> {"", "docker", "target"}]
  /\ override.author \in Authors
  /\ stat \in [ProxyProcs -> Authors \cup {"unseen"}]
  /\ ctxDone \in [ProxyProcs -> BOOLEAN] /\ notified \in [ProxyProcs -> BOOLEAN]
  /\ sigCh \in [ProxyProcs -> Seq(ChildSignals)]
  /\ sent \in [ProxyProcs -> [ChildSignals -> 0..MaxSignals]]
  /\ got \in [ProxyProcs -> [ChildSignals -> 0..MaxSignals]]
-----------------------------------------------------------------------------
Alone(p) == \A q \in ProxyProcs \ {p} : pxReq[q].tool # "terraform"

\* No tool lstk points at an emulator can reach the cloud: it has the
\* emulator's URL, no live key, token or profile of the user, and terraform's
\* files, if no other run shares them, redirect every provider block and the
\* backend, whatever else the user's backend says, to an account whose bucket
\* is there.
Targets(p, child) ==
  LET tool == pxReq[p].tool
  IN  /\ NeedsEmulator(p) => child.url # ""
      /\ child.url = "docker" => IsSet(pxReq[p].given) = {}
      /\ tool \in {"aws", "cdk", "sam"} /\ child.url # "" =>
           child.env["AWS_ACCESS_KEY_ID"] # "AKIA" /\ child.env["AWS_SESSION_TOKEN"] = ""
      /\ tool \in {"cdk", "sam"} =>
           child.env["AWS_PROFILE"] = "" /\ child.env["AWS_ENDPOINT_URL"] = "localstack"
Redirects(p, file) ==
  LET dir == pxReq[p].dir
  IN  /\ file.author = p /\ file.account # "AKIA"
      /\ IF IsInit(pxArgs[p]) THEN file.providers = {}
         ELSE file.providers # {} /\ dir.aliases \subseteq file.providers
      /\ \A g \in EndpointAliasGroups : Cardinality({i \in DOMAIN g : g[i] \in file.keys}) <= 1
      /\ dir.backend =>
           /\ BackendEndpoints(dir.legacy) \subseteq DOMAIN file.backend
           /\ \A k \in ManagedBackendKeys \cap DOMAIN file.backend : file.backend[k] = "lstk"
           /\ dir.bucket => file.account \in buckets
ToolTargetsEmulator ==
  \A p \in ProxyProcs : pxChild[p].url # "none" =>
    /\ Targets(p, pxChild[p])
    /\ HasOverride(p) /\ Alone(p) => Redirects(p, pxChild[p].file)

\* An override file that was there when a run looked, a user's or the orphan
\* of a killed run, is never overwritten or removed by that run.
ForeignOverrideKept ==
  [][override.author # "none" /\ override' # override =>
       \E p \in ProxyProcs : pxEnd[p] = "busy" /\ MayWrite(p)]_pxVars

\* A flag of lstk's before the tool's action never reaches the tool, and what
\* follows two words in a row (an operation of the AWS CLI may have its own
\* --account) reaches it unchanged.
FlagsReachTheirOwner ==
  \A p \in ProxyProcs :
    LET args == StripGlobalFlags(pxReq[p].args)
        own == LeadingFlags(pxReq[p].tool)
        left == pxArgs[p]
    IN  pxAt[p] \notin {"installed", "flags"} =>
          /\ \A j \in DOMAIN left : left[j].is = "flag" /\ left[j].name \in own =>
               \E i \in 1..(j - 1) : Bare(left[i])
          /\ \A i, k \in DOMAIN args : i + 1 < k /\ Bare(args[i]) /\ Bare(args[i + 1]) =>
               SubSeq(args, k, Len(args)) = SubSeq(left, k + Len(left) - Len(args), Len(left))

\* Each signal reaches the tool at most once, through the terminal or lstk.
SignalsAtMostOnce ==
  \A p \in ProxyProcs, sig \in ChildSignals : got[p][sig] <= sent[p][sig]
=============================================================================
