---------------------------- MODULE ContainerPlan ---------------------------
(***************************************************************************)
(* From one [[containers]] block of config.toml to the container lstk asks *)
(* for: its image and name, its mounts, its environment and the ports it   *)
(* publishes. Ports are numbers; texts are atoms of small sets.            *)
(***************************************************************************)
EXTENDS Naturals, Sequences, FiniteSets

CONSTANTS
  ServicePorts,    \* the service ports, 4510-4559 in the code
  LocalStackVars,  \* the names that begin with LOCALSTACK_
  HostEnv          \* the environment lstk runs in

ASSUME PlanConstants ==
  IsFiniteSet(ServicePorts) /\ LocalStackVars \cap {"MAIN_CONTAINER_NAME", "GATEWAY_LISTEN"} = {}

EmulatorTypes == {"aws", "snowflake", "azure"}
DefaultPort == 4566
PersistenceTarget == "/var/lib/localstack"
NoImage == [repo |-> "", tag |-> ""]
DefaultContainer ==
  [type |-> "aws", tag |-> "latest", port |-> DefaultPort, image |-> NoImage, name |-> "",
   volume |-> "", volumes |-> <<>>, expose |-> <<>>, env |-> <<>>]
Rejected == [rejected |-> TRUE]

Distinct(s) ==
  LET kept[n \in 0..Len(s)] ==
        IF n = 0 THEN <<>>
        ELSE IF \E k \in 1..(n - 1) : s[k] = s[n] THEN kept[n - 1] ELSE Append(kept[n - 1], s[n])
  IN  kept[Len(s)]
Omitting(s, gone) ==
  LET kept[n \in 0..Len(s)] ==
        IF n = 0 THEN <<>> ELSE IF s[n] \in gone THEN kept[n - 1] ELSE Append(kept[n - 1], s[n])
  IN  kept[Len(s)]
Over(f, g) == [k \in DOMAIN f \cup DOMAIN g |-> IF k \in DOMAIN g THEN g[k] ELSE f[k]]
-----------------------------------------------------------------------------
\* Names. A tag on the image wins over "tag"; "container_name" wins over the
\* derived name, which the persistence directory keeps using.
ProductName(t) ==
  CASE t = "aws" -> "localstack-pro" [] t = "snowflake" -> "snowflake" [] t = "azure" -> "localstack-azure"
TagOf(c) == IF c.tag = "" THEN "latest" ELSE c.tag
ImageOf(c) ==
  CASE c.image.tag # "" -> c.image
    [] c.image.repo # "" /\ c.image.tag = "" -> [c.image EXCEPT !.tag = TagOf(c)]
    [] OTHER -> [repo |-> ProductName(c.type), tag |-> TagOf(c)]
DerivedName(c) == <<"localstack", c.type, TagOf(c)>>
NameOf(c) == IF c.name # "" THEN <<c.name>> ELSE DerivedName(c)
NormalizeTag(tag) == IF tag = "2026.04" THEN "2026.4" ELSE tag
ValidTag(tag) == tag # "-bad"
-----------------------------------------------------------------------------
\* Volumes: [base, path, target, ro]. A relative source is one of the
\* directory of the config file, "~/" one of the home directory.
ResolveHostPath(base, path, dir) == <<IF base = "rel" THEN dir ELSE base, path>>
SplitVolumeSpec(v) == v.base # "bad"
ParseVolume(v, dir) ==
  [source |-> ResolveHostPath(v.base, v.path, dir), target |-> v.target, ro |-> v.ro]
ParsedVolumes(c, dir) == [i \in DOMAIN c.volumes |-> ParseVolume(c.volumes[i], dir)]
Persistent(m) == m.target = PersistenceTarget
ExtraVolumes(c, dir) == SelectSeq(ParsedVolumes(c, dir), LAMBDA m : ~Persistent(m))
VolumeDir(c, dir) ==
  LET own == SelectSeq(ParsedVolumes(c, dir), Persistent)
  IN  CASE own # <<>> -> own[1].source
        [] own = <<>> /\ c.volume # "" -> <<"volume", c.volume>>
        [] OTHER -> <<"cache", DerivedName(c)>>
ValidVolumes(c, dir) ==
  LET own == SelectSeq(ParsedVolumes(c, dir), Persistent)
  IN  /\ \A i \in DOMAIN c.volumes : SplitVolumeSpec(c.volumes[i])
      /\ \A i \in DOMAIN own : ~own[i].ro
      /\ c.volume # "" /\ own # <<>> => own[Len(own)].source = <<"volume", c.volume>>
-----------------------------------------------------------------------------
\* Ports. An expose_ports entry is [host, container, proto]: host 0 means
\* the container's port, no protocol means both.
ValidPort(n) == n \in 1..65535
ParseExposePort(e) ==
  LET protos == IF e.proto = "" THEN <<"tcp", "udp">> ELSE <<e.proto>>
  IN  [i \in DOMAIN protos |->
         [host |-> IF e.host = 0 THEN e.container ELSE e.host, container |-> e.container,
          proto |-> protos[i], optional |-> FALSE]]
ParseExposePorts(entries) ==
  LET all[i \in 0..Len(entries)] ==
        IF i = 0 THEN <<>> ELSE all[i - 1] \o ParseExposePort(entries[i])
  IN  all[Len(entries)]
ExposeSpecs(c) == Distinct(ParseExposePorts(c.expose))
\* Two publications of one protocol on one container port, or on one host port.
Clash(a, b) == a.proto = b.proto /\ (a.container = b.container \/ a.host = b.host)
ValidExpose(c) ==
  /\ \A i \in DOMAIN c.expose : c.expose[i].proto \in {"", "tcp", "udp"}
  /\ \A i \in DOMAIN ExposeSpecs(c) :
       ValidPort(ExposeSpecs(c)[i].host) /\ ValidPort(ExposeSpecs(c)[i].container)
  /\ \A i, j \in DOMAIN ExposeSpecs(c) : i # j => ~Clash(ExposeSpecs(c)[i], ExposeSpecs(c)[j])

Valid(c, dir) == ValidTag(c.tag) /\ ValidPort(c.port) /\ ValidExpose(c) /\ ValidVolumes(c, dir)

\* GATEWAY_LISTEN is a sequence of [host, port], empty when it is not set.
ParseGatewayListen(value) ==
  IF value = <<>> THEN <<[host |-> "", port |-> 4566], [host |-> "", port |-> 443]>> ELSE value
ValidGateway(value) == \A i \in DOMAIN value : value[i].host # "name"
BindHost(g) == IF g[1].host = "" THEN "127.0.0.1" ELSE g[1].host
ContainerEnvValue(g) ==
  [i \in DOMAIN g |-> [g[i] EXCEPT !.host = IF @ = "127.0.0.1" THEN "" ELSE @]]
Mapping(host, container, proto, optional) ==
  [host |-> host, container |-> container, proto |-> proto, optional |-> optional]
ExtraGatewayPorts(g, defaulted) ==
  Distinct(Omitting([i \in DOMAIN g |-> Mapping(g[i].port, g[i].port, "tcp", defaulted)],
                    {Mapping(n, n, "tcp", defaulted) : n \in ServicePorts \cup {DefaultPort}}))
ServicePortRange ==
  LET first == CHOOSE n \in ServicePorts : \A k \in ServicePorts : n <= k
  IN  [i \in 1..Cardinality(ServicePorts) |-> Mapping(first + i - 1, first + i - 1, "tcp", FALSE)]
EdgeMapping(c) == Mapping(c.port, DefaultPort, "tcp", FALSE)

\* An entry that collides with what is published already is left out, with a
\* warning unless it asks for just that.
\* Mutant: only the container's side of the clash is looked at.
MergeExposePortsByContainer(edge, mappings, exposed) ==
  LET merged[i \in 0..Len(exposed)] ==
        IF i = 0 THEN mappings
        ELSE IF \E k \in DOMAIN merged[i - 1] \cup {0} :
                  LET m == IF k = 0 THEN edge ELSE merged[i - 1][k]
                  IN  m.proto = exposed[i].proto /\ m.container = exposed[i].container
             THEN merged[i - 1] ELSE Append(merged[i - 1], exposed[i])
  IN  merged[Len(exposed)]
MergeExposePorts(edge, mappings, exposed) ==
  LET merged[i \in 0..Len(exposed)] ==
        IF i = 0 THEN mappings
        ELSE IF Clash(edge, exposed[i]) \/ \E k \in DOMAIN merged[i - 1] : Clash(merged[i - 1][k], exposed[i])
             THEN merged[i - 1] ELSE Append(merged[i - 1], exposed[i])
  IN  merged[Len(exposed)]
ExposeWarned(edge, mappings, exposed) ==
  LET own == {mappings[k] : k \in DOMAIN mappings} \cup {edge}
      already == {[m EXCEPT !.optional = FALSE] : m \in own}
  IN  {exposed[i] : i \in {i \in DOMAIN exposed :
         exposed[i] \notin already /\ \E m \in own : Clash(m, exposed[i])}}

\* The ports that are dialled before the start, and what is left of the
\* optional ones: those in use are dropped, then those the daemon may not bind.
RequiredHostPorts(mappings) ==
  {mappings[i].host : i \in {i \in DOMAIN mappings : ~mappings[i].optional /\ mappings[i].proto # "udp"}}
DropBusyOptionalPorts(mappings, busy) ==
  Omitting(mappings, {mappings[i] : i \in {i \in DOMAIN mappings : mappings[i].optional /\ mappings[i].host \in busy}})
-----------------------------------------------------------------------------
\* The environment: the profiles, then lstk's own, then the host's, then the
\* caller's; the container sees the last value of a name.
ResolvedEnv(c, named) ==
  LET all[i \in 0..Len(c.env)] ==
        IF i = 0 THEN [x \in {} |-> ""] ELSE Over(all[i - 1], named[c.env[i]])
  IN  all[Len(c.env)]
EnvKnown(c, named) == \A i \in DOMAIN c.env : c.env[i] \in DOMAIN named

\* The image takes the prefix off a name: what that makes of those that matter.
StrippedVars ==
  [LOCALSTACK_PATH |-> "PATH", LOCALSTACK_HOME |-> "HOME", LOCALSTACK_IFS |-> "IFS",
   LOCALSTACK_BASH_ENV |-> "BASH_ENV", LOCALSTACK_LD_PRELOAD |-> "LD_PRELOAD",
   LOCALSTACK_LD_LIBRARY_PATH |-> "LD_LIBRARY_PATH", LOCALSTACK_PYTHONPATH |-> "PYTHONPATH",
   LOCALSTACK_PYTHONHOME |-> "PYTHONHOME"]
Stripped(name) == IF name \in DOMAIN StrippedVars THEN StrippedVars[name] ELSE name
CriticalContainerVar(name) ==
  name \in {"PATH", "HOME", "IFS", "BASH_ENV", "LD_PRELOAD", "LD_LIBRARY_PATH", "PYTHONPATH", "PYTHONHOME"}
FilterHostEnv(env) ==
  [k \in {k \in DOMAIN env \cap (LocalStackVars \cup {"CI"}) :
            /\ k # "LOCALSTACK_AUTH_TOKEN" /\ env[k] # "two\nlines"
            /\ ~(k \in LocalStackVars /\ CriticalContainerVar(Stripped(k)))} |-> env[k]]

Gateway(c, named) ==
  LET env == ResolvedEnv(c, named)
  IN  IF "GATEWAY_LISTEN" \in DOMAIN env THEN env["GATEWAY_LISTEN"] ELSE <<>>
OwnEnv(c, named, token) ==
  [k \in {"LOCALSTACK_AUTH_TOKEN", "GATEWAY_LISTEN", "MAIN_CONTAINER_NAME", "LOCALSTACK_HOST"}
           \cup IF c.type = "snowflake" /\ "SF_S3_ENDPOINT" \notin DOMAIN ResolvedEnv(c, named)
                THEN {"SF_S3_ENDPOINT"} ELSE {} |->
     CASE k = "LOCALSTACK_AUTH_TOKEN" -> token
       [] k = "GATEWAY_LISTEN" -> ContainerEnvValue(ParseGatewayListen(Gateway(c, named)))
       [] k = "MAIN_CONTAINER_NAME" -> NameOf(c)
       [] k \in {"LOCALSTACK_HOST", "SF_S3_ENDPOINT"} -> c.port]
AgentEnv == [k \in {"LOCALSTACK_CLIENT_NAME"} |-> "lstk"]
EnvOf(c, named, token, persist) ==
  LET own == Over(Over(Over(ResolvedEnv(c, named), OwnEnv(c, named, token)), FilterHostEnv(HostEnv)), AgentEnv)
  IN  IF persist THEN Over(own, [k \in {"PERSISTENCE"} |-> "1"]) ELSE own
-----------------------------------------------------------------------------
\* startOnce's loop body: Rejected when any part of it fails.
PlanContainer(c, named, dir, token, persist) ==
  IF ~EnvKnown(c, named) \/ ~ValidGateway(Gateway(c, named)) THEN Rejected
  ELSE LET g == ParseGatewayListen(Gateway(c, named))
           own == ExtraGatewayPorts(g, Gateway(c, named) = <<>>) \o ServicePortRange
       IN  [rejected |-> FALSE, type |-> c.type, image |-> ImageOf(c), name |-> NameOf(c),
            bindHost |-> BindHost(g), env |-> EnvOf(c, named, token, persist),
            binds |-> <<[source |-> VolumeDir(c, dir), target |-> PersistenceTarget, ro |-> FALSE]>>
                        \o ExtraVolumes(c, dir),
            edge |-> EdgeMapping(c),
            ports |-> MergeExposePorts(EdgeMapping(c), own, ExposeSpecs(c)),
            warned |-> ExposeWarned(EdgeMapping(c), own, ExposeSpecs(c))]
=============================================================================
