----------------------------- MODULE Lifecycle ------------------------------
(***************************************************************************)
(* The commands on an emulator that is there: stop, restart, reset, volume *)
(* clear, status and the call of an extension. Each resolves the configured*)
(* containers on the daemon, call by call, and acts on what it found; then *)
(* the layers around every command turn its error into the JSON envelope,  *)
(* the telemetry event and the exit code. The daemon, other users and the  *)
(* emulators themselves act between any two calls.                         *)
(***************************************************************************)
EXTENDS Naturals, Sequences

CONSTANTS
  LifeProcs,     \* the commands
  LifeRequests,  \* what they may be asked
  LifeWorlds     \* the containers there may be at first

VARIABLES
  lcReq, lcAt, lcPhases, lcIdx,
  lcName,     \* the container found for the entry at hand
  lcFound,    \* the entries found running
  lcPersist,  \* whether the start that follows persists
  lcYes,      \* whether the user confirmed
  lcSink,     \* the JSON sink: the last error's code, the emulators stopped
  lcResult,   \* what the layers have made of the error it ended with
  lcHad,      \* whether what it would stop was persistent when it began
  lcExcuse,   \* whether a call failed or others changed the containers since
  boxes,      \* the containers of the daemon, by name
  volumes     \* the emulators whose volume holds data

lcVars == <<lcReq, lcAt, lcPhases, lcIdx, lcName, lcFound, lcPersist, lcYes, lcSink, lcResult,
            lcHad, lcExcuse, boxes, volumes>>

LifeCommands == {"stop", "restart", "reset", "volume clear", "status", "extension"}
Kinds == {"aws", "snowflake"}
OwnNameOf == [t \in Kinds |-> IF t = "aws" THEN "localstack-aws" ELSE "localstack-snowflake"]
BoxNames == {"localstack-aws", "localstack-snowflake", "mine"}
Boxes == [up : {"gone", "running", "removing"}, type : Kinds, port : Nat, persist : BOOLEAN, items : BOOLEAN]
Entries == [type : Kinds, port : Nat]
LifeAsks ==
  [cmd : LifeCommands, containers : Seq(Entries), json : BOOLEAN, terminal : BOOLEAN, force : BOOLEAN,
   persist : BOOLEAN, config : {"ok", "invalid", "unreadable"}, target : {"none", "aws", "snowflake", "down"},
   only : STRING, installed : BOOLEAN]
ASSUME LifeConstants == LifeRequests \subseteq LifeAsks /\ LifeWorlds \subseteq [BoxNames -> Boxes]
NoBox == [up |-> "gone", type |-> "aws", port |-> 0, persist |-> FALSE, items |-> FALSE]
-----------------------------------------------------------------------------
\* Errors and what the layers make of them.
NoError == [kind |-> "none", code |-> 0]
Plain == [kind |-> "plain", code |-> 0]
Silenced == [kind |-> "silent", code |-> 0]
ToolExit(n) == [kind |-> "tool", code |-> n]
Coded(n) == [kind |-> "coded", code |-> n]
CodeOfExit(err) ==
  CASE err.kind = "none" -> 0
    [] err.kind \in {"tool", "coded"} -> err.code
    [] OTHER -> 1
JsonCommands == {"stop", "reset", "update"}

ResultEnvelope(sink, err) ==
  IF err.kind = "none" THEN [status |-> "ok", code |-> "", stopped |-> sink.stopped]
  ELSE [status |-> "error", code |-> IF sink.code = "" THEN "INTERNAL_ERROR" ELSE sink.code,
        stopped |-> <<>>]
ErrorEnvelope(code) == [status |-> "error", code |-> code, stopped |-> <<>>]
ExitCodeFor(envelope) ==
  IF envelope.status = "ok" THEN 0
  ELSE IF envelope.code = "CONFIRMATION_REQUIRED" THEN 3
  ELSE IF envelope.code = "AUTH_REQUIRED" THEN 4 ELSE 1

IsExtensionDispatch(req) == req.cmd = "extension"
Layer(r, name, req, sink) ==
  IF name = "envelope" /\ req.json /\ req.cmd \in JsonCommands /\ ~IsExtensionDispatch(req)
  THEN LET e == ResultEnvelope(sink, r.err)
       IN  [r EXCEPT !.out = Append(@, e), !.err = IF r.err.kind = "none" THEN @ ELSE Coded(ExitCodeFor(e))]
  ELSE IF name = "telemetry" /\ ~IsExtensionDispatch(req) THEN [r EXCEPT !.reported = Append(@, CodeOfExit(r.err))]
  ELSE r
\* Mutant: the telemetry layer is installed before the envelope's.
MiddlewareTelemetryFirst == <<"telemetry", "envelope">>
Middleware == <<"envelope", "telemetry">>
Unwrapped(err) == [err |-> err, out |-> <<>>, reported |-> <<>>]
Wrapped(r, req, sink) == Layer(Layer(r, Middleware[1], req, sink), Middleware[2], req, sink)

\* Why a command ends before its handler does anything, in the order of the
\* checks; "" if it goes on.
PreRunRefusal(req) == IF req.config = "unreadable" THEN "CONFIG_NOT_FOUND" ELSE ""
Confirmable(req) == req.terminal /\ ~req.json
ResetRefusal(req) ==
  IF req.target = "down" THEN "EMULATOR_NOT_RUNNING"
  ELSE IF req.target \notin {"none", "aws"} THEN "EMULATOR_WRONG_TYPE"
  ELSE IF req.target = "none" /\ req.config = "invalid" THEN "CONFIG_INVALID"
  ELSE IF req.target = "none" /\ \A i \in DOMAIN req.containers : req.containers[i].type # "aws"
       THEN "EMULATOR_NOT_CONFIGURED"
  ELSE IF ~Confirmable(req) /\ ~req.force THEN "CONFIRMATION_REQUIRED" ELSE ""
HandlerRefusal(req) ==
  IF req.cmd = "reset" THEN ResetRefusal(req)
  ELSE IF req.cmd \in {"stop", "restart", "volume clear"} /\ req.target # "none" THEN "INTERNAL_ERROR"
  ELSE IF req.cmd = "status" /\ req.target = "down" THEN "INTERNAL_ERROR"
  ELSE IF req.cmd # "extension" /\ req.target = "none" /\ req.config = "invalid" THEN "CONFIG_INVALID"
  ELSE IF req.cmd = "volume clear" /\ req.only \notin {""} \cup {req.containers[i].type : i \in DOMAIN req.containers}
       THEN "INTERNAL_ERROR"
  ELSE IF req.cmd = "volume clear" /\ ~(req.terminal \/ req.force) THEN "INTERNAL_ERROR"
  ELSE IF req.cmd = "extension" /\ ~req.installed THEN "INTERNAL_ERROR" ELSE ""

\* Mutant: the restart asks whether the instance persists once it is stopped.
RestartPhasesStopFirst(req) == IF req.persist THEN <<"stop", "start">> ELSE <<"stop", "persist", "start">>
RestartPhases(req) == IF req.persist THEN <<"stop", "start">> ELSE <<"persist", "stop", "start">>
Phases(req) ==
  CASE req.cmd = "stop" -> <<"stop">>
    [] req.cmd = "restart" -> RestartPhases(req)
    [] req.cmd = "reset" -> <<"look", "confirm", "reset">>
    [] req.cmd = "volume clear" -> <<"confirm", "clear">>
    [] req.cmd = "status" -> IF req.target = "none" THEN <<"status">> ELSE <<"fetch">>
    [] OTHER -> <<"discover", "invoke">>

\* The entries a command works on: reset takes the first AWS one, and a
\* stand-in for an external target; an extension learns of every type.
EntryFor(req, type) ==
  req.containers[CHOOSE i \in DOMAIN req.containers :
    /\ req.containers[i].type = type
    /\ \A j \in 1..(i - 1) : req.containers[j].type # type]
StandIn(type) == [type |-> type, port |-> 4566]
IfLacking(req, type) ==
  IF \E i \in DOMAIN req.containers : req.containers[i].type = type THEN <<>>
  ELSE <<StandIn(type)>>
Subjects(req) ==
  CASE req.cmd = "reset" ->
         IF req.target # "none" THEN <<StandIn("aws")>>
         ELSE <<EntryFor(req, "aws")>>
    [] req.cmd = "volume clear" /\ req.only # "" -> <<EntryFor(req, req.only)>>
    [] req.cmd = "extension" ->
         req.containers \o IfLacking(req, "aws") \o IfLacking(req, "snowflake")
    [] OTHER -> req.containers
-----------------------------------------------------------------------------
Underway(p) == lcResult[p].err.kind = "busy"
LcAt(p, at) == lcAt[p] = at /\ Underway(p)
LcGo(p, at) == lcAt' = [lcAt EXCEPT ![p] = at]
Busy(p) == UNCHANGED <<lcSink, lcResult>>
Subject(p) == Subjects(lcReq[p])[lcIdx[p]]

\* The handler returns: the layers turn its error into what remains.
Returns(p, err, code) ==
  LET sink == IF code = "" THEN lcSink[p] ELSE [lcSink[p] EXCEPT !.code = code]
  IN  /\ lcSink' = [lcSink EXCEPT ![p] = sink]
      /\ lcResult' = [lcResult EXCEPT ![p] = Wrapped(Unwrapped(err), lcReq[p], sink)]
      /\ UNCHANGED <<lcAt, lcPhases, lcIdx>>

\* The first phase, or the next one.
Work == <<lcName, lcFound, lcPersist, lcYes, lcHad, lcExcuse>>
EntryOf(phase) ==
  CASE phase = "stop" -> "healthy"
    [] phase = "look" -> "healthy"
    [] phase = "status" -> "healthy"
    [] phase = "discover" -> "healthy"
    [] phase = "persist" -> "running"
    [] OTHER -> phase
Enters(p, phases) ==
  /\ lcPhases' = [lcPhases EXCEPT ![p] = phases]
  /\ lcIdx' = [lcIdx EXCEPT ![p] = 1]
  /\ LcGo(p, EntryOf(Head(phases)))
  /\ Busy(p)
PhaseOver(p) ==
  IF Tail(lcPhases[p]) = <<>> THEN Returns(p, NoError, "") ELSE Enters(p, Tail(lcPhases[p]))
NextSubject(p) ==
  IF lcIdx[p] < Len(Subjects(lcReq[p]))
  THEN /\ lcIdx' = [lcIdx EXCEPT ![p] = @ + 1]
       /\ LcGo(p, "running")
       /\ Busy(p) /\ UNCHANGED lcPhases
  ELSE PhaseOver(p)
-----------------------------------------------------------------------------
LifeInit ==
  /\ lcReq \in [LifeProcs -> LifeRequests]
  /\ boxes \in LifeWorlds
  /\ volumes = Kinds
  /\ lcAt = [p \in LifeProcs |-> "begin"]
  /\ lcPhases = [p \in LifeProcs |-> <<>>]
  /\ lcIdx = [p \in LifeProcs |-> 1]
  /\ lcName = [p \in LifeProcs |-> ""]
  /\ lcFound = [p \in LifeProcs |-> <<>>]
  /\ lcPersist = [p \in LifeProcs |-> "unknown"]
  /\ lcYes = [p \in LifeProcs |-> lcReq[p].force]
  /\ lcSink = [p \in LifeProcs |-> [code |-> "", stopped |-> <<>>]]
  /\ lcResult = [p \in LifeProcs |-> Unwrapped([kind |-> "busy", code |-> 0])]
  /\ lcHad = [p \in LifeProcs |-> "none"]
  /\ lcExcuse = [p \in LifeProcs |-> FALSE]

\* By the own name, and by the image if nothing runs under it.
Runs(name) == boxes[name].up = "running"
ByImage(c) == {n \in BoxNames : Runs(n) /\ boxes[n].type = c.type}
Resolved(c) == IF Runs(OwnNameOf[c.type]) THEN {OwnNameOf[c.type]} ELSE ByImage(c)

\* What a restart would replace: nothing of it persists, all that may be
\* taken for one of its entries does, or it depends on what is taken.
SurelyPersists(c) == Resolved(c) # {} /\ \A n \in Resolved(c) : boxes[n].persist
MayPersist(c) == \E n \in Resolved(c) : boxes[n].persist
Standing(containers) ==
  IF \E i \in DOMAIN containers : SurelyPersists(containers[i]) THEN "all"
  ELSE IF \E i \in DOMAIN containers : MayPersist(containers[i]) THEN "some" ELSE "none"

Begins(p) ==
  LET req == lcReq[p]
  IN  /\ LcAt(p, "begin")
      /\ lcHad' = [lcHad EXCEPT ![p] = Standing(req.containers)]
      /\ UNCHANGED <<lcReq, lcName, lcFound, lcPersist, lcYes, lcExcuse, boxes, volumes>>
      /\ \/ /\ PreRunRefusal(req) # ""
            /\ lcResult' = [lcResult EXCEPT ![p] =
                 IF req.json /\ req.cmd \in JsonCommands
                 THEN [Unwrapped(Coded(1)) EXCEPT !.out = <<ErrorEnvelope(PreRunRefusal(req))>>]
                 ELSE Unwrapped(Plain)]
            /\ UNCHANGED <<lcAt, lcPhases, lcIdx, lcSink>>
         \/ /\ PreRunRefusal(req) = "" /\ req.json /\ req.cmd \notin JsonCommands \cup {"extension"}
            /\ lcResult' = [lcResult EXCEPT ![p] =
                 Wrapped([Unwrapped(Silenced) EXCEPT !.out = <<ErrorEnvelope("NOT_JSON_CAPABLE")>>], req, lcSink[p])]
            /\ UNCHANGED <<lcAt, lcPhases, lcIdx, lcSink>>
         \/ /\ PreRunRefusal(req) = "" /\ (req.json => req.cmd \in JsonCommands \cup {"extension"})
            /\ IF HandlerRefusal(req) # "" THEN Returns(p, Silenced, HandlerRefusal(req))
               ELSE Enters(p, Phases(req))

\* The runtime answers, or everything that needs it ends; an extension is
\* called all the same.
ChecksHealth(p) ==
  /\ LcAt(p, "healthy")
  /\ UNCHANGED <<lcReq, Work, boxes, volumes>>
  /\ \/ LcGo(p, "running") /\ Busy(p) /\ UNCHANGED <<lcPhases, lcIdx>>
     \/ IF Head(lcPhases[p]) = "discover" THEN PhaseOver(p)
        ELSE Returns(p, Silenced, "RUNTIME_UNAVAILABLE")

\* What follows when the entry was found under a name, was not found, or
\* could not be looked up.
Finds(p, name) ==
  LET phase == Head(lcPhases[p])
  IN  /\ lcName' = [lcName EXCEPT ![p] = name]
      /\ lcFound' = IF phase = "look" THEN [lcFound EXCEPT ![p] = Append(@, name)] ELSE lcFound
      /\ UNCHANGED <<lcReq, lcPersist, lcYes, lcHad, lcExcuse, boxes, volumes>>
      /\ IF phase = "look" THEN NextSubject(p)
         ELSE LcGo(p, "found") /\ Busy(p) /\ UNCHANGED <<lcPhases, lcIdx>>
FindsNothing(p) ==
  LET phase == Head(lcPhases[p])
  IN  /\ UNCHANGED <<lcReq, Work, boxes, volumes>>
      /\ CASE phase \in {"persist", "discover"} -> NextSubject(p)
           [] phase = "look" ->
                IF lcIdx[p] < Len(Subjects(lcReq[p])) \/ lcFound[p] # <<>> THEN NextSubject(p)
                ELSE Returns(p, Silenced, "EMULATOR_NOT_RUNNING")
           [] phase = "stop" -> Returns(p, Silenced, "EMULATOR_NOT_RUNNING")
           [] OTHER -> Returns(p, Silenced, "INTERNAL_ERROR")
LookupFails(p) ==
  /\ UNCHANGED <<lcReq, lcName, lcFound, lcPersist, lcYes, lcHad, boxes, volumes>>
  /\ lcExcuse' = [lcExcuse EXCEPT ![p] = TRUE]
  /\ IF Head(lcPhases[p]) \in {"persist", "discover"} THEN NextSubject(p) ELSE Returns(p, Plain, "")

\* An external target stands for its own container and is never asked.
External(p) == lcReq[p].target # "none"
Configured(p) == lcIdx[p] \in DOMAIN Subjects(lcReq[p])
\* With no entry to go through a phase is over.
SkipsPhase(p) ==
  /\ LcAt(p, "running") \/ LcAt(p, "clear")
  /\ ~Configured(p)
  /\ UNCHANGED <<lcReq, Work, boxes, volumes>>
  /\ PhaseOver(p)
AsksByName(p) ==
  /\ LcAt(p, "running") /\ Configured(p)
  /\ \/ (Runs(OwnNameOf[Subject(p).type]) \/ External(p)) /\ Finds(p, OwnNameOf[Subject(p).type])
     \/ /\ ~(Runs(OwnNameOf[Subject(p).type]) \/ External(p))
        /\ LcGo(p, "by image") /\ Busy(p)
        /\ UNCHANGED <<lcReq, lcPhases, lcIdx, Work, boxes, volumes>>
     \/ ~External(p) /\ LookupFails(p)
AsksByImage(p) ==
  /\ LcAt(p, "by image")
  /\ \/ \E n \in ByImage(Subject(p)) : Finds(p, n)
     \/ ByImage(Subject(p)) = {} /\ FindsNothing(p)
     \/ LookupFails(p)

\* The name may by now belong to nothing: the call then fails, or answers
\* nothing.
ReadsEnv(p) ==
  LET n == lcName[p]
      seen == boxes[n].up # "gone" /\ boxes[n].persist
  IN  /\ LcAt(p, "found") /\ Head(lcPhases[p]) = "persist"
      /\ UNCHANGED <<lcReq, lcName, lcFound, lcYes, lcHad, boxes, volumes>>
      /\ \/ /\ seen
            /\ lcPersist' = [lcPersist EXCEPT ![p] = "with"]
            /\ PhaseOver(p) /\ UNCHANGED lcExcuse
         \/ ~seen /\ NextSubject(p) /\ UNCHANGED <<lcPersist, lcExcuse>>
         \/ NextSubject(p) /\ lcExcuse' = [lcExcuse EXCEPT ![p] = TRUE] /\ UNCHANGED lcPersist

\* The other commands underway find the containers changed.
OthersNotice(p) == lcExcuse' = [q \in LifeProcs |-> lcExcuse[q] \/ (q # p /\ Underway(q))]

\* ContainerStop; a container of lstk's is then removed by the daemon, and
\* Stop removes it too and ignores that it is gone or going.
StopsBox(p) ==
  LET n == lcName[p]
  IN  /\ LcAt(p, "found") /\ Head(lcPhases[p]) = "stop"
      /\ UNCHANGED <<lcReq, lcName, lcFound, lcPersist, lcYes, lcHad, volumes>>
      /\ \/ /\ boxes[n].up # "gone" /\ OthersNotice(p)
            /\ boxes' = [boxes EXCEPT ![n].up = "removing", ![n].items = FALSE]
            /\ lcSink' = [lcSink EXCEPT ![p].stopped = Append(@, n)]
            /\ IF lcIdx[p] < Len(Subjects(lcReq[p]))
               THEN /\ lcIdx' = [lcIdx EXCEPT ![p] = @ + 1]
                    /\ LcGo(p, "running") /\ UNCHANGED <<lcPhases, lcResult>>
               ELSE LcGo(p, "stopped") /\ UNCHANGED <<lcPhases, lcIdx, lcResult>>
         \/ Returns(p, Silenced, "RUNTIME_UNAVAILABLE") /\ UNCHANGED <<boxes, lcExcuse>>
StopsLast(p) ==
  /\ LcAt(p, "stopped")
  /\ UNCHANGED <<lcReq, Work, boxes, volumes>>
  /\ PhaseOver(p)

\* Start, as StartFlow models it: a container per entry under its own name,
\* or an error.
StartsBoxes(p) ==
  LET req == lcReq[p]
      with == req.persist \/ lcPersist[p] = "with"
      mine == {OwnNameOf[req.containers[i].type] : i \in DOMAIN req.containers}
      of(n) == CHOOSE i \in DOMAIN req.containers : OwnNameOf[req.containers[i].type] = n
  IN  /\ LcAt(p, "start")
      /\ UNCHANGED <<lcReq, lcName, lcFound, lcYes, lcHad, volumes>>
      /\ \/ /\ OthersNotice(p)
            /\ boxes' = [n \in BoxNames |->
                 IF n \in mine /\ ~Runs(n)
                 THEN [up |-> "running", type |-> req.containers[of(n)].type,
                       port |-> req.containers[of(n)].port, persist |-> with, items |-> FALSE]
                 ELSE boxes[n]]
            /\ lcPersist' = [lcPersist EXCEPT ![p] = IF with THEN "started with" ELSE "started without"]
            /\ Returns(p, NoError, "")
         \/ Returns(p, Plain, "") /\ UNCHANGED <<boxes, lcPersist, lcExcuse>>

\* reset and volume clear ask unless forced; anything but yes ends them.
AsksUser(p) ==
  /\ LcAt(p, "confirm")
  /\ UNCHANGED <<lcReq, lcName, lcFound, lcPersist, lcHad, lcExcuse, boxes, volumes>>
  /\ \/ lcYes[p] /\ PhaseOver(p) /\ UNCHANGED lcYes
     \/ ~lcYes[p] /\ lcYes' = [lcYes EXCEPT ![p] = TRUE] /\ PhaseOver(p)
     \/ ~lcYes[p] /\ Returns(p, NoError, "") /\ UNCHANGED lcYes
     \/ ~lcYes[p] /\ Returns(p, Plain, "") /\ UNCHANGED lcYes

\* ResetState goes to the configured port, whoever listens there by now.
Listens(c) == {n \in BoxNames : Runs(n) /\ boxes[n].port = c.port}
Resets(p) ==
  /\ LcAt(p, "reset")
  /\ UNCHANGED <<lcReq, Work, volumes>>
  /\ \/ /\ External(p) \/ Listens(Subject(p)) # {}
        /\ boxes' = [n \in BoxNames |->
                       IF ~External(p) /\ n \in Listens(Subject(p)) THEN [boxes[n] EXCEPT !.items = FALSE] ELSE boxes[n]]
        /\ Returns(p, NoError, "")
     \/ Returns(p, Plain, "") /\ UNCHANGED boxes

\* clearDir of one entry's volume; it may fail, the earlier ones stay cleared.
ClearsVolume(p) ==
  /\ LcAt(p, "clear") /\ Configured(p)
  /\ UNCHANGED <<lcReq, Work, boxes>>
  /\ \/ /\ volumes' = volumes \ {Subject(p).type}
        /\ IF lcIdx[p] < Len(Subjects(lcReq[p]))
           THEN lcIdx' = [lcIdx EXCEPT ![p] = @ + 1] /\ Busy(p) /\ UNCHANGED <<lcAt, lcPhases>>
           ELSE Returns(p, NoError, "")
     \/ Returns(p, Plain, "") /\ UNCHANGED volumes

\* status reads the bound port and asks the emulator there; a version that
\* cannot be had is a warning, resources that cannot are an error.
ShowsStatus(p) ==
  /\ LcAt(p, "found") /\ Head(lcPhases[p]) = "status"
  /\ UNCHANGED <<lcReq, Work, boxes, volumes>>
  /\ \/ Runs(lcName[p]) /\ NextSubject(p)
     \/ Returns(p, Plain, "")
FetchesStatus(p) ==
  /\ LcAt(p, "fetch")
  /\ UNCHANGED <<lcReq, Work, boxes, volumes>>
  /\ \/ Returns(p, NoError, "")
     \/ Returns(p, Plain, "")

\* An extension is handed what was found, runs, and its exit code is lstk's;
\* the dispatch reports it itself.
Discovers(p) ==
  /\ LcAt(p, "found") /\ Head(lcPhases[p]) = "discover"
  /\ lcFound' = [lcFound EXCEPT ![p] = Append(@, lcName[p])]
  /\ UNCHANGED <<lcReq, lcName, lcPersist, lcYes, lcHad, lcExcuse, boxes, volumes>>
  /\ NextSubject(p)
InvokesExtension(p) ==
  /\ LcAt(p, "invoke")
  /\ UNCHANGED <<lcReq, Work, boxes, volumes, lcAt, lcPhases, lcIdx, lcSink>>
  /\ \E n \in {0, 2} :
       lcResult' = [lcResult EXCEPT ![p] =
         [Unwrapped(IF n = 0 THEN NoError ELSE ToolExit(n)) EXCEPT !.reported = <<n>>]]

\* Emulators are used, exit, and are started by others.
Noticed == lcExcuse' = [p \in LifeProcs |-> lcExcuse[p] \/ Underway(p)]
Unhurt == UNCHANGED <<lcReq, lcAt, lcPhases, lcIdx, lcName, lcFound, lcPersist, lcYes, lcSink, lcResult,
                      lcHad, volumes>>
BoxUsed(n) == Runs(n) /\ boxes' = [boxes EXCEPT ![n].items = TRUE] /\ Unhurt /\ UNCHANGED lcExcuse
BoxGoes(n) ==
  /\ boxes[n].up # "gone"
  /\ boxes' = [boxes EXCEPT ![n] = NoBox]
  /\ IF boxes[n].up = "removing" THEN UNCHANGED lcExcuse ELSE Noticed
  /\ Unhurt
BoxComes(n, box) ==
  /\ boxes[n].up = "gone"
  /\ boxes' = [boxes EXCEPT ![n] = box]
  /\ Noticed /\ Unhurt

LifeStep(p) ==
  \/ Begins(p) \/ ChecksHealth(p) \/ SkipsPhase(p) \/ AsksByName(p) \/ AsksByImage(p) \/ ReadsEnv(p) \/ StopsBox(p)
  \/ StopsLast(p) \/ StartsBoxes(p) \/ AsksUser(p) \/ Resets(p) \/ ClearsVolume(p)
  \/ ShowsStatus(p) \/ FetchesStatus(p) \/ Discovers(p) \/ InvokesExtension(p)
LifeNext ==
  \/ \E p \in LifeProcs : LifeStep(p)
  \/ \E n \in BoxNames :
       BoxUsed(n) \/ BoxGoes(n) \/ BoxComes(n, [NoBox EXCEPT !.up = "running", !.port = 4566])
LifeSpec == LifeInit /\ [][LifeNext]_lcVars

LifeTypeOK ==
  /\ \A p \in LifeProcs :
       /\ lcIdx[p] \in Nat \ {0}
       /\ lcPersist[p] \in {"unknown", "with", "started with", "started without"}
       /\ lcName[p] \in BoxNames \cup {""}
       /\ lcYes[p] \in BOOLEAN /\ lcHad[p] \in {"none", "some", "all"} /\ lcExcuse[p] \in BOOLEAN
  /\ \A n \in BoxNames : boxes[n].up \in {"gone", "running", "removing"}
  /\ volumes \subseteq Kinds
-----------------------------------------------------------------------------
\* Whatever a restart stops on its way, the instances it starts persist
\* exactly if that was asked for or one of those it replaced did, unless a
\* daemon call failed or others changed the containers meanwhile. (Where
\* several containers can be taken for an entry, one of them decides.)
\* (restart.go)
RestartKeepsPersistence ==
  \A p \in LifeProcs : ~lcExcuse[p] =>
    /\ lcPersist[p] = "started without" => ~lcReq[p].persist /\ lcHad[p] # "all"
    /\ lcPersist[p] = "started with" => lcReq[p].persist \/ lcHad[p] # "none"

\* However a command ends, under --json a command that supports it has
\* printed one envelope that agrees with the exit code, and every telemetry
\* event sent carries the code the process exits with. (root.go,
\* json_envelope.go, extension.go)
Honest(req, sink, r) ==
  LET code == CodeOfExit(r.err)
  IN  /\ Len(r.reported) <= 1
      /\ \A i \in DOMAIN r.reported : r.reported[i] = code
      /\ req.json /\ req.cmd # "extension" =>
           /\ PreRunRefusal(req) = "" \/ req.cmd \in JsonCommands => Len(r.out) = 1
           /\ \A i \in DOMAIN r.out : /\ r.out[i].status = "ok" <=> code = 0
                                      /\ r.out[i].code = "CONFIRMATION_REQUIRED" <=> code = 3
                                      /\ r.out[i].status = "ok" => r.out[i].stopped = sink.stopped
OutcomeReportedOnce ==
  \A p \in LifeProcs : ~Underway(p) => Honest(lcReq[p], lcSink[p], lcResult[p])
=============================================================================
