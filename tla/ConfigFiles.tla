----------------------------- MODULE ConfigFiles ----------------------------
(***************************************************************************)
(* config.toml: where lstk looks for it, how a first run creates it, and   *)
(* the edits lstk makes in place (the emulator type, a skipped version),   *)
(* each a read, a truncation and a write; then the container a start plans *)
(* from it. A file is a sequence of tables [table, keys].                  *)
(***************************************************************************)
EXTENDS ContainerPlan

CONSTANTS
  ConfigProcs,     \* the lstk processes
  ConfigRequests,  \* what they may be asked
  ConfigWorlds,    \* the files there may be, and whether ~/.config exists
  UserConfigs      \* the files a user may save meanwhile

VARIABLES
  cfReq, cfAt, cfEnd,
  cfWorld,    \* [dotConfig, running]: ~/.config exists; a running emulator's type
  cfFile,     \* what each place holds
  cfMeddled,  \* whether another process wrote a file after a process had loaded its own
  cfUser,     \* what the user had put there
  cfUsed,     \* the file a process resolved, or ""
  cfFirst,    \* whether it found none
  cfMem,      \* what it last loaded
  cfBuf,      \* what it read in order to edit it
  cfPlan,     \* the container it starts
  cfOverlap   \* whether two edits overlapped, or one was cut short

cfVars == <<cfReq, cfAt, cfEnd, cfWorld, cfFile, cfMeddled, cfUser, cfUsed, cfFirst, cfMem,
            cfBuf, cfPlan, cfOverlap>>

NoFile == <<[table |-> "no file"]>>
OldYaml == <<[table |-> "old yaml"]>>
Empty == <<>>
SearchDirs == <<"local", "xdg", "os">>
Places == {"local", "xdg", "os", "flag"}
Nothing == [rejected |-> TRUE, type |-> ""]

\* What go-toml reads: tables of keys, in the order of the file; some keys hold
\* lists.
Table(name, keys) == [table |-> name, keys |-> keys]
IsList(s) == s \in Seq({s[i] : i \in DOMAIN s})
ReadTable(t) ==
  /\ t = Table(t.table, t.keys)
  /\ \A k \in DOMAIN t.keys \cap {"expose", "env", "GATEWAY_LISTEN"} : IsList(t.keys[k])
Toml(f) == IsList(f) /\ \A i \in DOMAIN f : ReadTable(f[i])
ASSUME ConfigConstants ==
  /\ \A w \in ConfigWorlds : /\ DOMAIN w.files = Places
                            /\ \A d \in Places : w.files[d] \in {NoFile, OldYaml} \/ Toml(w.files[d])
  /\ \A f \in UserConfigs : Toml(f)
-----------------------------------------------------------------------------
\* Reading. A file without containers means the default one.
ContainerBlocks(f) == {i \in DOMAIN f : f[i].table = "containers"}
FirstBlock(f) == {i \in ContainerBlocks(f) : \A j \in ContainerBlocks(f) : i <= j}
ContainerOf(t) == Over(DefaultContainer, t.keys)
FirstContainer(f) ==
  IF FirstBlock(f) = {} THEN DefaultContainer ELSE ContainerOf(f[CHOOSE i \in FirstBlock(f) : TRUE])
SeveralContainers(f) == Cardinality(ContainerBlocks(f)) > 1
NamedEnvs(f) ==
  LET named == {i \in DOMAIN f : f[i].table \notin {"containers", "cli"}}
  IN  [n \in {f[i].table : i \in named} |-> (CHOOSE i \in named : f[i].table = n)]
EnvTables(f) == [n \in DOMAIN NamedEnvs(f) |-> f[NamedEnvs(f)[n]].keys]
Skipped(f) ==
  LET cli == {i \in DOMAIN f : f[i].table = "cli" /\ "update_skipped_version" \in DOMAIN f[i].keys}
  IN  IF cli = {} THEN "" ELSE f[CHOOSE i \in cli : TRUE].keys["update_skipped_version"]
ValidConfig(f, dir) == \A i \in ContainerBlocks(f) : Valid(ContainerOf(f[i]), dir)
DefaultTemplate == <<Table("containers", [type |-> "aws", tag |-> "latest", port |-> DefaultPort])>>

Found == {i \in DOMAIN SearchDirs : cfFile[SearchDirs[i]] # NoFile}
FirstFound == SearchDirs[CHOOSE i \in Found : \A j \in Found : i <= j]
ConfigCreationDir == IF cfWorld.dotConfig THEN "xdg" ELSE "os"
-----------------------------------------------------------------------------
\* Editing. The type of the first containers block; a "section.field" where
\* the field is, else in its section, else in a section of its own.
\* Mutant: the first type of any table.
TypeAtAnywhere(f) ==
  {i \in DOMAIN f : "type" \in DOMAIN f[i].keys /\ \A j \in 1..(i - 1) : "type" \notin DOMAIN f[j].keys}
TypeAt(f) ==
  {i \in DOMAIN f : f[i].table = "containers" /\ \A j \in 1..(i - 1) : f[j].table # "containers"}
WithType(f, to) ==
  [i \in DOMAIN f |-> IF i \in TypeAt(f) THEN [f[i] EXCEPT !.keys = Over(@, [type |-> to])] ELSE f[i]]
HasField(t) == "update_skipped_version" \in DOMAIN t.keys
WithSkipped(f, v) ==
  LET put(t) == [t EXCEPT !.keys = Over(@, [update_skipped_version |-> v])]
  IN  IF \E i \in DOMAIN f : HasField(f[i]) THEN [i \in DOMAIN f |-> IF HasField(f[i]) THEN put(f[i]) ELSE f[i]]
      ELSE IF \E i \in DOMAIN f : f[i].table = "cli"
      THEN [i \in DOMAIN f |-> IF f[i].table = "cli" THEN put(f[i]) ELSE f[i]]
      ELSE Append(f, Table("cli", [update_skipped_version |-> v]))
-----------------------------------------------------------------------------
ConfigInit ==
  /\ cfReq \in [ConfigProcs -> ConfigRequests]
  /\ cfAt = [p \in ConfigProcs |-> "load"]
  /\ cfEnd = [p \in ConfigProcs |-> "busy"]
  /\ \E w \in ConfigWorlds :
       /\ cfWorld = [dotConfig |-> w.dotConfig, running |-> w.running]
       /\ cfFile = w.files
       /\ cfUser = w.files
  /\ cfMeddled = [p \in ConfigProcs |-> FALSE]
  /\ cfUsed = [p \in ConfigProcs |-> ""]
  /\ cfFirst = [p \in ConfigProcs |-> FALSE]
  /\ cfMem = [p \in ConfigProcs |-> Empty]
  /\ cfBuf = [p \in ConfigProcs |-> NoFile]
  /\ cfPlan = [p \in ConfigProcs |-> Nothing]
  /\ cfOverlap = FALSE

CfGo(p, at) == cfAt' = [cfAt EXCEPT ![p] = at] /\ UNCHANGED cfEnd
CfStop(p, why) == cfEnd' = [cfEnd EXCEPT ![p] = why] /\ UNCHANGED cfAt
CfAt(p, at) == cfAt[p] = at /\ cfEnd[p] = "busy"
CfFiles == <<cfFile, cfMeddled, cfUser>>
CfLocals == <<cfUsed, cfFirst, cfMem, cfBuf, cfPlan>>
CfFrame == UNCHANGED <<cfReq, cfWorld>>
Editing(p) == cfBuf[p] # NoFile
WriteFile(p, d, f) ==
  /\ cfFile' = [cfFile EXCEPT ![d] = f]
  /\ cfMeddled' = [q \in ConfigProcs |-> cfMeddled[q] \/ (q # p /\ ~CfAt(q, "load"))]
  /\ UNCHANGED cfUser

\* What comes after the config is loaded and valid.
AfterLoad(p) ==
  CASE cfReq[p].type # "" -> "apply"
    [] cfReq[p].type = "" /\ cfReq[p].interactive -> "notify"
    [] OTHER -> "start"
Loaded(p, d, at) ==
  /\ cfUsed' = [cfUsed EXCEPT ![p] = d]
  /\ cfMem' = [cfMem EXCEPT ![p] = cfFile[d]]
  /\ UNCHANGED <<cfBuf, cfPlan>>
  /\ IF cfFile[d] # OldYaml /\ ValidConfig(cfFile[d], d) THEN CfGo(p, at) ELSE CfStop(p, "invalid config")

InitFromPath(p) ==
  /\ CfAt(p, "load") /\ cfReq[p].configFlag
  /\ UNCHANGED <<cfFirst, cfOverlap, CfFiles>> /\ CfFrame
  /\ IF cfFile["flag"] = NoFile THEN CfStop(p, "no file") /\ UNCHANGED <<cfUsed, cfMem, cfBuf, cfPlan>>
     ELSE Loaded(p, "flag", AfterLoad(p))
LoadFound(p) ==
  /\ CfAt(p, "load") /\ ~cfReq[p].configFlag /\ Found # {}
  /\ Loaded(p, FirstFound, AfterLoad(p))
  /\ UNCHANGED <<cfFirst, cfOverlap, CfFiles>> /\ CfFrame
LoadNone(p) ==
  /\ CfAt(p, "load") /\ ~cfReq[p].configFlag /\ Found = {}
  /\ cfFirst' = [cfFirst EXCEPT ![p] = TRUE]
  /\ CfGo(p, AfterLoad(p))
  /\ UNCHANGED <<cfUsed, cfMem, cfBuf, cfPlan, cfOverlap, CfFiles>> /\ CfFrame

\* --type: refused while another type runs, for several blocks or for a
\* custom image; nothing is written for the type the file has.
ConflictingEmulatorRunning(t) == cfWorld.running \notin {"", t}
ApplyEmulatorType(p) ==
  LET c == FirstContainer(cfMem[p])
      t == cfReq[p].type
  IN  /\ CfAt(p, "apply")
      /\ UNCHANGED <<CfLocals, cfOverlap, CfFiles>> /\ CfFrame
      /\ IF cfFirst[p]
         THEN IF ConflictingEmulatorRunning(t) THEN CfStop(p, "conflict") ELSE CfGo(p, "create")
         ELSE IF SeveralContainers(cfMem[p]) THEN CfStop(p, "several blocks")
         ELSE IF c.type = t THEN CfGo(p, IF cfReq[p].interactive THEN "notify" ELSE "start")
         ELSE IF ConflictingEmulatorRunning(t) THEN CfStop(p, "conflict")
         ELSE IF c.image # NoImage THEN CfStop(p, "custom image")
         ELSE CfGo(p, "read type")

\* The update prompt of an interactive start, with a version there is to skip.
NotifyUpdate(p) ==
  /\ CfAt(p, "notify")
  /\ UNCHANGED <<cfUsed, cfFirst, cfBuf, cfPlan, cfOverlap, CfFiles>> /\ CfFrame
  /\ \/ /\ CfGo(p, IF cfFirst[p] /\ cfReq[p].type = "" THEN "select" ELSE "start")
        /\ UNCHANGED cfMem
     \/ /\ cfReq[p].skips /\ Skipped(cfMem[p]) # "v2"
        /\ cfMem' = [cfMem EXCEPT ![p] = WithSkipped(@, "v2")]
        /\ CfGo(p, IF cfUsed[p] # "" THEN "read skip" ELSE IF cfReq[p].type = "" THEN "select" ELSE "start")

\* The picker of a first run: a choice, or Ctrl+C.
SelectEmulator(p) ==
  /\ CfAt(p, "select")
  /\ UNCHANGED <<CfLocals, cfOverlap, CfFiles>> /\ CfFrame
  /\ CfGo(p, "create") \/ CfStop(p, "cancelled")
Asked(p) == IF cfReq[p].type # "" THEN cfReq[p].type ELSE cfReq[p].pick
Chooses(p) == cfReq[p].type # "" \/ (cfFirst[p] /\ cfReq[p].interactive)

\* EnsureCreated: with O_EXCL, then the template; a file that appeared in
\* between is loaded as it is.
\* Mutant: the template goes over whatever is there.
CreateFileOver(d) == TRUE
MayCreateFile(d) == cfFile[d] = NoFile
EnsureCreated(p) ==
  LET d == ConfigCreationDir
      next == IF Chooses(p) THEN "read type" ELSE "done"
  IN  /\ CfAt(p, "create")
      /\ UNCHANGED <<cfFirst, cfOverlap>> /\ CfFrame
      /\ IF cfUsed[p] # "" THEN CfGo(p, next) /\ UNCHANGED <<cfUsed, cfMem, cfBuf, cfPlan, CfFiles>>
         ELSE IF MayCreateFile(d)
         THEN /\ WriteFile(p, d, Empty)
              /\ CfGo(p, "template")
              /\ UNCHANGED <<cfUsed, cfMem, cfBuf, cfPlan>>
         ELSE Loaded(p, d, next) /\ UNCHANGED CfFiles
WriteTemplate(p) ==
  LET d == ConfigCreationDir
  IN  /\ CfAt(p, "template")
      /\ UNCHANGED <<CfLocals, cfOverlap>> /\ CfFrame
      /\ \/ WriteFile(p, d, DefaultTemplate) /\ CfGo(p, "load new")
         \/ WriteFile(p, d, NoFile) /\ CfStop(p, "cannot create")
LoadNew(p) ==
  /\ CfAt(p, "load new")
  /\ UNCHANGED <<cfFirst, cfOverlap, CfFiles>> /\ CfFrame
  /\ IF cfFile[ConfigCreationDir] = NoFile
     THEN CfStop(p, "no file") /\ UNCHANGED <<cfUsed, cfMem, cfBuf, cfPlan>>
     ELSE Loaded(p, ConfigCreationDir, IF Chooses(p) THEN "read type" ELSE "done")

\* setInFile and SetEmulatorType: read, truncate, write; SetEmulatorType
\* loads the file again.
Edited(p) ==
  IF cfAt[p] \in {"truncate type", "write type"} THEN WithType(cfBuf[p], Asked(p))
  ELSE WithSkipped(cfBuf[p], "v2")
ReadToEdit(p) ==
  LET f == cfFile[cfUsed[p]]
      type == cfAt[p] = "read type"
      done == IF cfReq[p].interactive /\ cfReq[p].type # "" THEN "notify" ELSE "start"
  IN  /\ CfAt(p, "read type") \/ CfAt(p, "read skip")
      /\ UNCHANGED <<cfUsed, cfFirst, cfMem, cfPlan, CfFiles>> /\ CfFrame
      /\ IF f = NoFile \/ (type /\ (\A i \in TypeAt(f) : "type" \notin DOMAIN f[i].keys))
         THEN /\ IF type THEN CfStop(p, "no type field") ELSE CfGo(p, "start")
              /\ UNCHANGED <<cfBuf, cfOverlap>>
         ELSE IF type /\ WithType(f, Asked(p)) = f THEN CfGo(p, done) /\ UNCHANGED <<cfBuf, cfOverlap>>
         ELSE /\ cfBuf' = [cfBuf EXCEPT ![p] = f]
              /\ CfGo(p, IF type THEN "truncate type" ELSE "truncate skip")
              /\ cfOverlap' = (cfOverlap \/ \E q \in ConfigProcs \ {p} : Editing(q) \/ CfAt(q, "template"))
Truncate(p) ==
  /\ CfAt(p, "truncate type") \/ CfAt(p, "truncate skip")
  /\ WriteFile(p, cfUsed[p], Empty)
  /\ CfGo(p, IF cfAt[p] = "truncate type" THEN "write type" ELSE "write skip")
  /\ UNCHANGED <<CfLocals, cfOverlap>> /\ CfFrame
WriteEdit(p) ==
  /\ CfAt(p, "write type") \/ CfAt(p, "write skip")
  /\ WriteFile(p, cfUsed[p], Edited(p))
  /\ cfBuf' = [cfBuf EXCEPT ![p] = NoFile]
  /\ CfGo(p, IF cfAt[p] = "write type" THEN "reload" ELSE "start")
  /\ UNCHANGED <<cfUsed, cfFirst, cfMem, cfPlan, cfOverlap>> /\ CfFrame
Reload(p) ==
  /\ CfAt(p, "reload")
  /\ UNCHANGED <<cfFirst, cfOverlap, CfFiles>> /\ CfFrame
  /\ IF cfFile[cfUsed[p]] = NoFile
     THEN CfStop(p, "no file") /\ UNCHANGED <<cfUsed, cfMem, cfBuf, cfPlan>>
     ELSE Loaded(p, cfUsed[p], IF cfReq[p].interactive /\ cfReq[p].type # "" THEN "notify" ELSE "start")

\* The start itself: one container is planned; a scripted first run that
\* worked creates the file.
StartPlanned(p) ==
  LET dir == IF cfUsed[p] = "" THEN ConfigCreationDir ELSE cfUsed[p]
      plan == PlanContainer(FirstContainer(cfMem[p]), EnvTables(cfMem[p]), dir, "token", cfReq[p].persist)
  IN  /\ CfAt(p, "start")
      /\ UNCHANGED <<cfUsed, cfFirst, cfMem, cfBuf, cfOverlap, CfFiles>> /\ CfFrame
      /\ IF SeveralContainers(cfMem[p]) \/ plan.rejected THEN CfStop(p, "unsupported") /\ UNCHANGED cfPlan
         ELSE CfGo(p, "ports") /\ cfPlan' = [cfPlan EXCEPT ![p] = plan]

\* The ports of the plan against the ports in use on the host.
PublishPorts(p, busy) ==
  LET plan == cfPlan[p]
  IN  /\ CfAt(p, "ports")
      /\ UNCHANGED <<cfUsed, cfFirst, cfMem, cfBuf, cfOverlap, CfFiles>> /\ CfFrame
      /\ IF ({plan.edge.host} \cup RequiredHostPorts(plan.ports)) \cap busy # {}
         THEN CfStop(p, "port in use") /\ UNCHANGED cfPlan
         ELSE /\ cfPlan' = [cfPlan EXCEPT ![p].ports = DropBusyOptionalPorts(@, busy)]
              /\ CfGo(p, IF cfFirst[p] /\ ~cfReq[p].interactive /\ cfReq[p].type = "" THEN "create" ELSE "done")
ConfigDone(p) ==
  /\ CfAt(p, "done")
  /\ CfStop(p, "ok")
  /\ UNCHANGED <<CfLocals, cfOverlap, CfFiles>> /\ CfFrame

\* A process is killed in the middle; the user saves a file of their own.
ConfigKilled(p) ==
  /\ cfEnd[p] = "busy" /\ (Editing(p) \/ cfAt[p] = "template")
  /\ CfStop(p, "killed")
  /\ cfOverlap' = TRUE
  /\ UNCHANGED <<CfLocals, CfFiles>> /\ CfFrame
UserSaves(d, f) ==
  /\ cfFile[d] = NoFile
  /\ cfFile' = [cfFile EXCEPT ![d] = f]
  /\ cfUser' = [cfUser EXCEPT ![d] = f]
  /\ UNCHANGED <<cfAt, cfEnd, cfMeddled, CfLocals, cfOverlap>> /\ CfFrame

ConfigStep(p) ==
  \/ InitFromPath(p) \/ LoadFound(p) \/ LoadNone(p) \/ ApplyEmulatorType(p) \/ NotifyUpdate(p)
  \/ SelectEmulator(p) \/ EnsureCreated(p) \/ WriteTemplate(p) \/ LoadNew(p)
  \/ ReadToEdit(p) \/ Truncate(p) \/ WriteEdit(p) \/ Reload(p)
  \/ StartPlanned(p) \/ ConfigDone(p)
  \/ \E busy \in SUBSET {443, 53} : PublishPorts(p, busy)
ConfigNext ==
  \/ \E p \in ConfigProcs : ConfigStep(p) \/ ConfigKilled(p)
  \/ \E d \in {"local", "xdg"}, f \in UserConfigs : UserSaves(d, f)
ConfigSpec == ConfigInit /\ [][ConfigNext]_cfVars
-----------------------------------------------------------------------------
ConfigTypeOK ==
  /\ cfReq \in [ConfigProcs -> ConfigRequests]
  /\ DOMAIN cfAt = ConfigProcs /\ DOMAIN cfEnd = ConfigProcs
  /\ cfMeddled \in [ConfigProcs -> BOOLEAN]
  /\ cfUsed \in [ConfigProcs -> Places \cup {""}]
  /\ cfFirst \in [ConfigProcs -> BOOLEAN]
  /\ cfOverlap \in BOOLEAN

\* A user's config file survives: as long as no two edits overlap and none is
\* cut short, every settled file still has all the tables and keys the user
\* wrote, but for the emulator type and the skipped version lstk records.
Settled(d) == \A p \in ConfigProcs : ~(Editing(p) /\ cfUsed[p] = d)
Kept(t, u) ==
  /\ t.table = u.table
  /\ DOMAIN u.keys \subseteq DOMAIN t.keys
  /\ \A k \in DOMAIN u.keys :
       t.keys[k] = u.keys[k] \/ (k = "type" /\ u.table = "containers") \/ k = "update_skipped_version"
KeptFile(f, u) ==
  u \notin {NoFile, OldYaml} =>
    f # NoFile /\ \A i \in DOMAIN u : i \in DOMAIN f /\ Kept(f[i], u[i])
UserConfigKept ==
  \A d \in Places : Settled(d) /\ ~cfOverlap => KeptFile(cfFile[d], cfUser[d])

\* The emulator that starts is the one that was asked for with --type or
\* picked, and the file it was read from says so, unless another process
\* wrote a config file meanwhile.
StartsWhatWasChosen ==
  \A p \in ConfigProcs :
    ~cfPlan[p].rejected /\ Chooses(p) /\ ~cfMeddled[p]
      => cfPlan[p].type = Asked(p) /\ FirstContainer(cfFile[cfUsed[p]]).type = Asked(p)

OwnMappings(c, named) ==
  LET own == ExtraGatewayPorts(ParseGatewayListen(Gateway(c, named)), Gateway(c, named) = <<>>)
               \o ServicePortRange
  IN  {own[i] : i \in DOMAIN own} \cup {EdgeMapping(c)}
PortsFit(plan, c, named) ==
  LET own == OwnMappings(c, named)
      published == {plan.ports[i] : i \in DOMAIN plan.ports}
      asked == {ExposeSpecs(c)[k] : k \in DOMAIN ExposeSpecs(c)}
  IN  /\ \A m \in published \ own, n \in published \cup {plan.edge} : m # n => ~Clash(m, n)
      /\ asked \subseteq published \cup plan.warned \cup {[m EXCEPT !.optional = FALSE] : m \in own}
PortsAsAsked(p) ==
  (cfFirst[p] => Chooses(p)) => PortsFit(cfPlan[p], FirstContainer(cfMem[p]), EnvTables(cfMem[p]))

OwnEnvironmentWins(p) ==
  /\ cfPlan[p].env["LOCALSTACK_AUTH_TOKEN"] = "token"
  /\ cfPlan[p].env["MAIN_CONTAINER_NAME"] = cfPlan[p].name
  /\ \A k \in DOMAIN FilterHostEnv(HostEnv) : ~CriticalContainerVar(Stripped(k))

\* The container that starts is what was configured. No two publications share
\* a container port or a host port because of expose_ports, and what the user
\* asked for is published or warned about, whatever is busy: only lstk's own
\* 443 is given up. Whatever the profiles and the host's environment hold, it
\* gets the token lstk resolved and the name it really has. (expose.go,
\* start.go)
PlannedAsAsked ==
  \A p \in ConfigProcs : ~cfPlan[p].rejected => PortsAsAsked(p) /\ OwnEnvironmentWins(p)
=============================================================================
