--------------------------- MODULE EmulatorProofs ---------------------------
(***************************************************************************)
(* Proofs about the commands that work on an emulator: those that stop,    *)
(* restart, reset and show one, its logs, and the tools pointed at it.     *)
(*                                                                         *)
(* RestartKeepsPersistence and OutcomeReportedOnce, for any number of      *)
(* commands at once, any lists of configured containers and any            *)
(* containers on the daemon. Neither is inductive. What a restart carries  *)
(* over follows from how far its search has come: the entries passed so    *)
(* far had nothing that surely persists, and the containers are those it   *)
(* began with unless it is excused. What the layers make of an error is a  *)
(* lemma about the layers, which the steps that end a command share.       *)
(*                                                                         *)
(* TailExact of lstk logs: what the ring holds, line by line, and that a   *)
(* pass that is enough has seen all that could have been kept.             *)
(*                                                                         *)
(* ForeignOverrideKept, SignalsAtMostOnce, ToolTargetsEmulator and         *)
(* FlagsReachTheirOwner, for any number of proxy commands, of any kind,    *)
(* under any command lines and signals. A run that is past its look at the *)
(* override's place, and so may write or remove what is there, saw         *)
(* nothing; a signal is counted once, at the tool or in the channel; what  *)
(* a stage knows of the emulator, the account and the file is kept until   *)
(* the tool is started with it. What is taken out of a command line is     *)
(* followed token by token, by induction on its length.                    *)
(*                                                                         *)
(* And that each of these components' variables keeps its type.            *)
(***************************************************************************)
EXTENDS Lifecycle, LogTail, Proxies, SequenceTheorems, FiniteSetTheorems, WellFoundedInduction, TLAPS

Searches == {"running", "by image", "found"}
PlacesOf(phase) ==
  CASE phase = "persist" -> Searches
    [] phase = "stop" -> Searches \cup {"healthy", "stopped"}
    [] phase \in {"look", "status", "discover"} -> Searches \cup {"healthy"}
    [] OTHER -> {phase}
Plans ==
  { <<"stop">>, <<"persist", "stop", "start">>, <<"stop", "start">>, <<"start">>,
    <<"look", "confirm", "reset">>, <<"confirm", "reset">>, <<"reset">>, <<"confirm", "clear">>,
    <<"clear">>, <<"status">>, <<"fetch">>, <<"discover", "invoke">>, <<"invoke">> }
RestartPlans == {<<"persist", "stop", "start">>, <<"stop", "start">>, <<"start">>}
LifeStages ==
  Searches \cup {"begin", "healthy", "stopped", "start", "confirm", "reset", "clear", "fetch", "invoke"}
Starting == [err |-> [kind |-> "busy", code |-> 0], out |-> <<>>, reported |-> <<>>]

ControlTypes ==
  /\ lcAt \in [LifeProcs -> LifeStages]
  /\ DOMAIN lcPhases = LifeProcs
  /\ lcIdx \in [LifeProcs -> Nat \ {0}]
  /\ DOMAIN lcSink = LifeProcs
  /\ DOMAIN lcResult = LifeProcs
DataTypes ==
  /\ lcName \in [LifeProcs -> BoxNames \cup {""}]
  /\ lcPersist \in [LifeProcs -> {"unknown", "with", "started with", "started without"}]
  /\ lcYes \in [LifeProcs -> BOOLEAN]
  /\ lcHad \in [LifeProcs -> {"none", "some", "all"}]
  /\ lcExcuse \in [LifeProcs -> BOOLEAN]
  /\ boxes \in [BoxNames -> Boxes]
  /\ volumes \subseteq Kinds
LifeTypes == ControlTypes /\ DataTypes /\ lcReq \in [LifeProcs -> LifeAsks]

\* Where a command is, given what it still has to do.
PlaceInv(p) ==
  /\ lcPersist[p] \in {"unknown", "with"}
  /\ lcAt[p] = "begin" => lcPersist[p] = "unknown"
  /\ lcAt[p] # "begin" =>
       /\ lcPhases[p] \in Plans /\ lcAt[p] \in PlacesOf(Head(lcPhases[p]))
       /\ HandlerRefusal(lcReq[p]) = ""
       /\ lcReq[p].json => lcReq[p].cmd \in JsonCommands \cup {"extension"}
       /\ lcPhases[p] \in RestartPlans => lcReq[p].cmd = "restart"
       /\ Head(lcPhases[p]) \in {"discover", "invoke"} => lcReq[p].cmd = "extension"
       /\ lcAt[p] = "found" => lcName[p] \in BoxNames
       /\ lcAt[p] = "by image" => Configured(p)
\* How far the search for persistence has come.
SearchInv(p) ==
  lcAt[p] # "begin" /\ lcPhases[p] = <<"persist", "stop", "start">> =>
    LET cs == lcReq[p].containers
    IN  /\ lcHad[p] = Standing(cs)
        /\ lcPersist[p] = "unknown"
        /\ \A i \in DOMAIN cs : i < lcIdx[p] => ~SurelyPersists(cs[i])
        /\ lcAt[p] \in {"by image", "found"} => lcIdx[p] \in DOMAIN cs
        /\ lcAt[p] = "by image" => ~Runs(OwnNameOf[cs[lcIdx[p]].type])
        /\ lcAt[p] = "found" => lcName[p] \in Resolved(cs[lcIdx[p]])
\* What it has found out.
Carries(p) ==
  \/ lcReq[p].persist
  \/ lcPersist[p] = "unknown" /\ lcHad[p] # "all"
  \/ lcPersist[p] = "with" /\ lcHad[p] # "none"
CarriedInv(p) ==
  lcAt[p] # "begin" /\ lcPhases[p] \in {<<"stop", "start">>, <<"start">>} => Carries(p)
CarriedOver(p) ==
  /\ lcPersist[p] = "started without" => ~lcReq[p].persist /\ lcHad[p] # "all"
  /\ lcPersist[p] = "started with" => lcReq[p].persist \/ lcHad[p] # "none"
PersistInv(p) ==
  ~lcExcuse[p] => IF Underway(p) THEN SearchInv(p) /\ CarriedInv(p) ELSE CarriedOver(p)
OutcomeInv(p) == IF Underway(p) THEN lcResult[p] = Starting ELSE Honest(lcReq[p], lcSink[p], lcResult[p])
ProcInv(p) == (Underway(p) => PlaceInv(p)) /\ PersistInv(p) /\ OutcomeInv(p)
LifeInv == LifeTypes /\ \A p \in LifeProcs : ProcInv(p)
-----------------------------------------------------------------------------
\* Every set of numbers that is not empty has a least one.
LEMMA LeastNumber ==
  ASSUME NEW T \in SUBSET Nat, T # {}
  PROVE  \E m \in T : \A k \in T : m <= k
<1>1. PICK m \in T : \A k \in T : ~(<<k, m>> \in OpToRel(<, Nat))
  <2> DEFINE R == OpToRel(<, Nat)
  <2>1. IsWellFoundedOn(R, Nat)
    BY NatLessThanWellFounded
  <2> HIDE DEF R
  <2>2. \E m \in T : \A k \in T : ~(<<k, m>> \in R)
    BY <2>1, WFMin
  <2> QED BY <2>2 DEF R
<1>2. \A k \in T : ~(k < m)
  BY <1>1 DEF OpToRel
<1> QED BY <1>2

\* The first entry of a type is one, where there is one at all.
LEMMA EntryForTyped ==
  ASSUME NEW req \in LifeAsks, NEW type, NEW i \in DOMAIN req.containers, req.containers[i].type = type
  PROVE  EntryFor(req, type) \in Entries
<1> DEFINE T == {j \in Nat : j \in DOMAIN req.containers /\ req.containers[j].type = type}
<1>1. req.containers \in Seq(Entries)
  BY DEF LifeAsks
<1>2. i \in T
  BY <1>1
<1>3. PICK m \in T : \A k \in T : m <= k
  <2> HIDE DEF T
  <2>1. T \subseteq Nat
    BY DEF T
  <2> QED BY <1>2, <2>1, LeastNumber
<1>4. m \in DOMAIN req.containers /\ \A j \in 1..(m - 1) : req.containers[j].type # type
  <2> SUFFICES ASSUME NEW j \in 1..(m - 1) PROVE req.containers[j].type # type
    OBVIOUS
  <2>1. m \in 1..Len(req.containers)
    BY <1>1
  <2>2. j \in Nat /\ j \in DOMAIN req.containers /\ j < m
    BY <1>1, <2>1
  <2> QED BY <1>3, <2>2
<1> DEFINE First(k) == /\ req.containers[k].type = type
                       /\ \A j \in 1..(k - 1) : req.containers[j].type # type
           c == CHOOSE k \in DOMAIN req.containers : First(k)
<1>5. First(m)
  BY <1>3, <1>4
<1>6. c \in DOMAIN req.containers
  <2> HIDE DEF First
  <2> QED BY <1>4, <1>5
<1>7. EntryFor(req, type) = req.containers[c]
  BY DEF EntryFor
<1> HIDE DEF c
<1> QED BY <1>1, <1>6, <1>7

\* A list of one.
LEMMA Single ==
  ASSUME NEW S, NEW x \in S
  PROVE  <<x>> \in Seq(S)
OBVIOUS

LEMMA StandInTyped == \A t \in Kinds : StandIn(t) \in Entries
BY DEF Entries, StandIn

\* What a command works on are entries, unless it was refused.
LEMMA SubjectsTyped ==
  ASSUME NEW req \in LifeAsks, HandlerRefusal(req) = ""
  PROVE  Subjects(req) \in Seq(Entries)
<1>1. req.containers \in Seq(Entries) /\ req.cmd \in LifeCommands
  BY DEF LifeAsks
<1>2. CASE req.cmd = "reset" /\ req.target # "none"
  <2>1. StandIn("aws") \in Entries
    BY StandInTyped DEF Kinds
  <2> QED BY <1>2, <2>1, Single DEF Subjects
<1>3. CASE req.cmd = "reset" /\ req.target = "none"
  <2>1. ResetRefusal(req) = ""
    BY <1>3 DEF HandlerRefusal
  <2>2. PICK i \in DOMAIN req.containers : req.containers[i].type = "aws"
    BY <2>1, <1>3 DEF ResetRefusal
  <2>3. EntryFor(req, "aws") \in Entries
    BY <2>2, EntryForTyped
  <2> QED BY <1>3, <2>3, Single DEF Subjects
<1>4. CASE req.cmd = "volume clear" /\ req.only # ""
  <2>1. req.only \in {""} \cup {req.containers[i].type : i \in DOMAIN req.containers}
    BY <1>4 DEF HandlerRefusal
  <2>2. PICK i \in DOMAIN req.containers : req.containers[i].type = req.only
    BY <2>1, <1>4
  <2>3. EntryFor(req, req.only) \in Entries
    BY <2>2, EntryForTyped
  <2> QED BY <1>4, <2>3, Single DEF Subjects
<1>5. CASE req.cmd = "extension"
  <2>1. IfLacking(req, "aws") \in Seq(Entries) /\ IfLacking(req, "snowflake") \in Seq(Entries)
    <3>1. StandIn("aws") \in Entries /\ StandIn("snowflake") \in Entries
      BY StandInTyped DEF Kinds
    <3> QED BY <3>1, Single, EmptySeq DEF IfLacking
  <2>2. (req.containers \o IfLacking(req, "aws")) \o IfLacking(req, "snowflake") \in Seq(Entries)
    BY <1>1, <2>1, ConcatProperties
  <2> QED BY <1>5, <2>2 DEF Subjects
<1>6. CASE req.cmd \in {"stop", "restart", "status"} \/ (req.cmd = "volume clear" /\ req.only = "")
  BY <1>1, <1>6 DEF Subjects
<1> QED BY <1>1, <1>2, <1>3, <1>4, <1>5, <1>6 DEF LifeCommands
-----------------------------------------------------------------------------
\* What is left of a plan is a plan; only a restart's leaves one of a
\* restart's, and only an extension call's one of an extension call's.
PlanGoesOn(ph) ==
  Tail(ph) # <<>> =>
    /\ Tail(ph) \in Plans /\ Tail(ph) # <<"persist", "stop", "start">>
    /\ Tail(ph) \in RestartPlans => ph \in RestartPlans
    /\ Head(Tail(ph)) \in {"discover", "invoke"} => Head(ph) \in {"discover", "invoke"}
    /\ EntryOf(Head(Tail(ph))) \in PlacesOf(Head(Tail(ph))) \ {"begin", "found", "by image"}
LEMMA PlanTails == \A ph \in Plans : PlanGoesOn(ph)
<1> SUFFICES ASSUME NEW ph \in Plans PROVE PlanGoesOn(ph)
  OBVIOUS
<1> USE DEF PlanGoesOn, Plans, RestartPlans, EntryOf, PlacesOf, Searches
<1>1. CASE ph = <<"stop">>
  BY <1>1
<1>2. CASE ph = <<"start">>
  BY <1>2
<1>3. CASE ph = <<"persist", "stop", "start">>
  BY <1>3
<1>4. CASE ph = <<"stop", "start">>
  BY <1>4
<1>5. CASE ph = <<"look", "confirm", "reset">>
  BY <1>5
<1>6. CASE ph = <<"confirm", "reset">>
  BY <1>6
<1>7. CASE ph = <<"confirm", "clear">>
  BY <1>7
<1>8. CASE ph = <<"reset">>
  BY <1>8
<1>9. CASE ph = <<"clear">>
  BY <1>9
<1>10. CASE ph = <<"status">>
  BY <1>10
<1>11. CASE ph = <<"fetch">>
  BY <1>11
<1>12. CASE ph = <<"invoke">>
  BY <1>12
<1>13. CASE ph = <<"discover", "invoke">>
  BY <1>13
<1> QED BY <1>1, <1>2, <1>3, <1>4, <1>5, <1>6, <1>7, <1>8, <1>9, <1>10, <1>11, <1>12, <1>13

LEMMA SearchesFirst == Head(<<"persist", "stop", "start">>) = "persist"
OBVIOUS

LEMMA ClearsAfterConfirming == Head(<<"confirm", "clear">>) = "confirm"
OBVIOUS

LEMMA HeadsOfPlans ==
  \A ph \in Plans : Head(ph) \in {"persist", "stop", "start", "look", "confirm", "reset", "clear", "status",
                               "fetch", "discover", "invoke"}
<1> SUFFICES ASSUME NEW ph \in Plans
             PROVE  Head(ph) \in {"persist", "stop", "start", "look", "confirm", "reset", "clear", "status",
                                "fetch", "discover", "invoke"}
  OBVIOUS
<1> USE DEF Plans
<1>1. CASE ph = <<"stop">>
  BY <1>1
<1>2. CASE ph = <<"start">>
  BY <1>2
<1>3. CASE ph = <<"persist", "stop", "start">>
  BY <1>3
<1>4. CASE ph = <<"stop", "start">>
  BY <1>4
<1>5. CASE ph = <<"look", "confirm", "reset">>
  BY <1>5
<1>6. CASE ph = <<"confirm", "reset">>
  BY <1>6
<1>7. CASE ph = <<"confirm", "clear">>
  BY <1>7
<1>8. CASE ph = <<"reset">>
  BY <1>8
<1>9. CASE ph = <<"clear">>
  BY <1>9
<1>10. CASE ph = <<"status">>
  BY <1>10
<1>11. CASE ph = <<"fetch">>
  BY <1>11
<1>12. CASE ph = <<"invoke">>
  BY <1>12
<1>13. CASE ph = <<"discover", "invoke">>
  BY <1>13
<1> QED BY <1>1, <1>2, <1>3, <1>4, <1>5, <1>6, <1>7, <1>8, <1>9, <1>10, <1>11, <1>12, <1>13

\* The first phases of a command that was not refused.
LEMMA FirstPlan ==
  ASSUME NEW req \in LifeAsks
  PROVE  LET ph == Phases(req)
         IN  /\ ph \in Plans
             /\ ph \in RestartPlans => req.cmd = "restart"
             /\ ph = <<"persist", "stop", "start">> => ~req.persist
             /\ ph \in {<<"stop", "start">>, <<"start">>} => req.persist
             /\ Head(ph) \in {"discover", "invoke"} => req.cmd = "extension"
             /\ EntryOf(Head(ph)) \in PlacesOf(Head(ph)) \ {"begin", "found", "by image"}
<1> req.cmd \in LifeCommands
  BY DEF LifeAsks
<1> USE DEF Phases, RestartPhases, Plans, RestartPlans, EntryOf, PlacesOf, Searches, LifeCommands
<1>1. CASE req.cmd = "stop"
  BY <1>1
<1>2. CASE req.cmd = "restart" /\ req.persist
  BY <1>2
<1>3. CASE req.cmd = "restart" /\ ~req.persist
  BY <1>3
<1>4. CASE req.cmd = "reset"
  BY <1>4
<1>5. CASE req.cmd = "volume clear"
  <2>1. Phases(req) = <<"confirm", "clear">>
    BY <1>5
  <2>5. <<"confirm", "clear">> \in Plans
    OBVIOUS
  <2>4. <<"confirm", "clear">> \notin RestartPlans
    OBVIOUS
  <2>3. EntryOf("confirm") = "confirm" /\ PlacesOf("confirm") = {"confirm"}
    OBVIOUS
  <2> HIDE DEF EntryOf, PlacesOf, Plans, Phases
  <2> QED BY <1>5, <2>1, <2>3, <2>4, <2>5, ClearsAfterConfirming
<1>6. CASE req.cmd = "status" /\ req.target = "none"
  BY <1>6
<1>7. CASE req.cmd = "status" /\ req.target # "none"
  BY <1>7
<1>8. CASE req.cmd = "extension"
  BY <1>8
<1> QED BY <1>1, <1>2, <1>3, <1>4, <1>5, <1>6, <1>7, <1>8

LEMMA OneItem ==
  ASSUME NEW x
  PROVE  Append(<<>>, x) = <<x>> /\ Len(<<x>>) = 1 /\ DOMAIN <<x>> = {1} /\ <<x>>[1] = x
OBVIOUS

LEMMA NoItem == Len(<<>>) = 0 /\ Len(<<>>) <= 1 /\ DOMAIN <<>> = {}
OBVIOUS

\* A result is honest if what it reports and what it printed agree with the
\* exit code.
LEMMA ReportsOne ==
  ASSUME NEW s, NEW code, s = <<>> \/ s = <<code>>
  PROVE  Len(s) <= 1 /\ \A i \in DOMAIN s : s[i] = code
<1>1. CASE s = <<>>
  BY <1>1, NoItem
<1>2. CASE s = <<code>>
  <2>1. Len(s) = 1
    BY <1>2, OneItem
  <2>2. Len(s) <= 1
    BY <2>1
  <2> QED BY <1>2, <2>2, OneItem
<1> QED BY <1>1, <1>2

Agrees(e, code, sink) ==
  /\ e.status = "ok" <=> code = 0
  /\ e.code = "CONFIRMATION_REQUIRED" <=> code = 3
  /\ e.status = "ok" => e.stopped = sink.stopped
LEMMA ErrorAgrees ==
  ASSUME NEW e, NEW sink, e.status # "ok", e.code # "CONFIRMATION_REQUIRED"
  PROVE  Agrees(e, 1, sink)
BY Z3 DEF Agrees
LEMMA HonestEnvelope ==
  ASSUME NEW req, NEW sink, NEW r, NEW e, r.out = <<e>>, Agrees(e, CodeOfExit(r.err), sink),
         r.reported = <<>> \/ r.reported = <<CodeOfExit(r.err)>>
  PROVE  Honest(req, sink, r)
<1>1. Len(r.out) = 1 /\ \A i \in DOMAIN r.out : r.out[i] = e
  BY OneItem
<1>2. Len(r.reported) <= 1 /\ \A i \in DOMAIN r.reported : r.reported[i] = CodeOfExit(r.err)
  <2>1. PICK s, code : s = r.reported /\ code = CodeOfExit(r.err)
    OBVIOUS
  <2> QED BY <2>1, ReportsOne
<1>3. \A i \in DOMAIN r.out : Agrees(r.out[i], CodeOfExit(r.err), sink)
  BY <1>1
<1> QED BY <1>1, <1>2, <1>3 DEF Honest, Agrees

LEMMA HonestSilence ==
  ASSUME NEW req, NEW sink, NEW r, r.out = <<>>, r.reported = <<>> \/ r.reported = <<CodeOfExit(r.err)>>,
         ~(req.json /\ req.cmd # "extension" /\ (PreRunRefusal(req) = "" \/ req.cmd \in JsonCommands))
  PROVE  Honest(req, sink, r)
<1>1. DOMAIN r.out = {}
  BY NoItem
<1>2. Len(r.reported) <= 1 /\ \A i \in DOMAIN r.reported : r.reported[i] = CodeOfExit(r.err)
  <2>1. PICK s, code : s = r.reported /\ code = CodeOfExit(r.err)
    OBVIOUS
  <2> QED BY <2>1, ReportsOne
<1> QED BY <1>1, <1>2 DEF Honest

\* What the layers make of the error of a handler tells one story: the
\* envelope agrees with the exit code, and so does the event.
LEMMA LayersHonest ==
  ASSUME NEW req, req.json => req.cmd \in JsonCommands \cup {"extension"},
         NEW err \in {NoError, Plain, Silenced}, NEW sink
  PROVE  LET r == Wrapped(Unwrapped(err), req, sink) IN Honest(req, sink, r) /\ r.err.kind # "busy"
<1> DEFINE e == ResultEnvelope(sink, err)
           last == IF err.kind = "none" THEN err ELSE Coded(ExitCodeFor(e))
<1>1. /\ err.kind \in {"none", "plain", "silent"}
      /\ err.kind = "none" => err = NoError /\ CodeOfExit(err) = 0
      /\ err.kind # "none" => CodeOfExit(err) = 1
  BY DEF NoError, Plain, Silenced, CodeOfExit
<1>2. /\ e.status \in {"ok", "error"}
      /\ e.status = "ok" <=> err.kind = "none"
      /\ e.status = "ok" => e.stopped = sink.stopped /\ e.code = ""
  BY DEF ResultEnvelope
<1> HIDE DEF e
<1>3. /\ ExitCodeFor(e) \in {0, 1, 3, 4}
      /\ e.status = "ok" <=> ExitCodeFor(e) = 0
      /\ e.code = "CONFIRMATION_REQUIRED" <=> ExitCodeFor(e) = 3
  <2>1. CASE e.status = "ok"
    <3>1. ExitCodeFor(e) = 0 /\ e.code # "CONFIRMATION_REQUIRED"
      BY <2>1, <1>2 DEF ExitCodeFor
    <3> QED BY <2>1, <3>1
  <2>2. CASE e.status # "ok" /\ e.code = "CONFIRMATION_REQUIRED"
    <3>1. ExitCodeFor(e) = 3
      BY <2>2 DEF ExitCodeFor
    <3> QED BY <2>2, <3>1
  <2>3. CASE e.status # "ok" /\ e.code # "CONFIRMATION_REQUIRED"
    <3>1. ExitCodeFor(e) \in {1, 4}
      BY <2>3 DEF ExitCodeFor
    <3> QED BY <2>3, <3>1
  <2> QED BY <2>1, <2>2, <2>3
<1>4. CodeOfExit(last) = ExitCodeFor(e) /\ last.kind # "busy"
  <2>1. CASE err.kind = "none"
    BY <2>1, <1>1, <1>2, <1>3
  <2>2. CASE err.kind # "none"
    BY <2>2, <1>3 DEF CodeOfExit, Coded
  <2> QED BY <2>1, <2>2
<1>5. CASE IsExtensionDispatch(req)
  <2> DEFINE end == Wrapped(Unwrapped(err), req, sink)
  <2>1. end = Unwrapped(err)
    BY <1>5 DEF Wrapped, Layer, Middleware
  <2>2. end.err = err /\ end.out = <<>> /\ end.reported = <<>>
    BY <2>1 DEF Unwrapped
  <2> HIDE DEF end
  <2>3. Honest(req, sink, end)
    BY <1>5, <2>2, HonestSilence DEF IsExtensionDispatch
  <2> QED BY <1>1, <2>2, <2>3 DEF end
<1>6. CASE ~IsExtensionDispatch(req) /\ req.json /\ req.cmd \in JsonCommands
  <2>1. Layer(Unwrapped(err), "envelope", req, sink) = [err |-> last, out |-> <<e>>, reported |-> <<>>]
    BY <1>6, OneItem DEF Layer, Unwrapped, e
  <2> HIDE DEF last
  <2> DEFINE r == [err |-> last, out |-> <<e>>, reported |-> <<>>]
  <2>2. Layer(r, "telemetry", req, sink) = [err |-> last, out |-> <<e>>, reported |-> <<ExitCodeFor(e)>>]
    BY <1>4, <1>6, OneItem DEF Layer
  <2>3. Wrapped(Unwrapped(err), req, sink) = Layer(r, "telemetry", req, sink)
    BY <2>1 DEF Wrapped, Middleware
  <2> DEFINE end == Wrapped(Unwrapped(err), req, sink)
  <2>4. end.err = last /\ end.out = <<e>> /\ end.reported = <<ExitCodeFor(e)>>
    BY <2>2, <2>3
  <2> HIDE DEF end
  <2>5. CodeOfExit(end.err) = ExitCodeFor(e)
    BY <1>4, <2>4
  <2>6. Agrees(e, CodeOfExit(end.err), sink)
    BY <1>2, <1>3, <2>5 DEF Agrees
  <2>7. Honest(req, sink, end)
    BY <2>4, <2>5, <2>6, HonestEnvelope
  <2> QED BY <1>4, <2>4, <2>7 DEF end
<1>7. CASE ~IsExtensionDispatch(req) /\ ~(req.json /\ req.cmd \in JsonCommands)
  <2>1. Wrapped(Unwrapped(err), req, sink) = [err |-> err, out |-> <<>>, reported |-> <<CodeOfExit(err)>>]
    BY <1>7 DEF Wrapped, Layer, Middleware, Unwrapped
  <2> DEFINE end == Wrapped(Unwrapped(err), req, sink)
  <2>2. end.err = err /\ end.out = <<>> /\ end.reported = <<CodeOfExit(end.err)>>
    BY <2>1
  <2> HIDE DEF end
  <2>3. ~(req.json /\ req.cmd # "extension" /\ (PreRunRefusal(req) = "" \/ req.cmd \in JsonCommands))
    BY <1>7
  <2>4. Honest(req, sink, end)
    BY <2>2, <2>3, HonestSilence
  <2> QED BY <1>1, <2>2, <2>4 DEF end
<1> QED BY <1>5, <1>6, <1>7
-----------------------------------------------------------------------------
\* A step of p moves p's control alone.
ControlSame(q) ==
  /\ lcAt'[q] = lcAt[q] /\ lcPhases'[q] = lcPhases[q] /\ lcIdx'[q] = lcIdx[q]
  /\ lcSink'[q] = lcSink[q] /\ lcResult'[q] = lcResult[q]
Moves(p) == ControlTypes' /\ \A q \in LifeProcs \ {p} : ControlSame(q)

LEMMA ReturnsMoves ==
  ASSUME ControlTypes, NEW p \in LifeProcs, NEW err, NEW code, Returns(p, err, code)
  PROVE  Moves(p)
BY DEF Moves, ControlTypes, ControlSame, Returns

LEMMA EntersMoves ==
  ASSUME ControlTypes, NEW p \in LifeProcs, NEW ph, EntryOf(Head(ph)) \in LifeStages, Enters(p, ph)
  PROVE  Moves(p)
BY DEF Moves, ControlTypes, ControlSame, Enters, LcGo, Busy

LEMMA StagesAreStages ==
  \A ph \in Plans : Tail(ph) # <<>> => EntryOf(Head(Tail(ph))) \in LifeStages
<1> SUFFICES ASSUME NEW ph \in Plans, Tail(ph) # <<>> PROVE EntryOf(Head(Tail(ph))) \in LifeStages
  OBVIOUS
<1> DEFINE phase == Head(Tail(ph))
<1>1. phase \in {"persist", "stop", "start", "look", "confirm", "reset", "clear", "status", "fetch", "discover", "invoke"}
  BY PlanTails, HeadsOfPlans DEF PlanGoesOn
<1> HIDE DEF phase
<1>2. EntryOf(phase) \in LifeStages
  BY <1>1 DEF EntryOf, LifeStages, Searches
<1> QED BY <1>2 DEF phase

LEMMA PhaseOverMoves ==
  ASSUME ControlTypes, NEW p \in LifeProcs, lcPhases[p] \in Plans, PhaseOver(p)
  PROVE  Moves(p)
<1>1. CASE Tail(lcPhases[p]) = <<>>
  BY <1>1, ReturnsMoves DEF PhaseOver
<1>2. CASE Tail(lcPhases[p]) # <<>>
  BY <1>2, EntersMoves, StagesAreStages DEF PhaseOver
<1> QED BY <1>1, <1>2

LEMMA NextSubjectMoves ==
  ASSUME ControlTypes, NEW p \in LifeProcs, lcPhases[p] \in Plans, NextSubject(p)
  PROVE  Moves(p)
<1>1. CASE lcIdx[p] < Len(Subjects(lcReq[p]))
  <2>1. /\ lcIdx' = [lcIdx EXCEPT ![p] = lcIdx[p] + 1] /\ lcAt' = [lcAt EXCEPT ![p] = "running"]
        /\ UNCHANGED <<lcPhases, lcSink, lcResult>>
    BY <1>1 DEF NextSubject, LcGo, Busy
  <2>2. "running" \in LifeStages
    BY DEF LifeStages, Searches
  <2>3. lcIdx[p] \in Nat \ {0}
    BY DEF ControlTypes
  <2>4. lcIdx[p] + 1 \in Nat \ {0}
    BY <2>3
  <2> QED BY <2>1, <2>2, <2>4 DEF Moves, ControlTypes, ControlSame
<1>2. CASE ~(lcIdx[p] < Len(Subjects(lcReq[p])))
  BY <1>2, PhaseOverMoves DEF NextSubject
<1> QED BY <1>1, <1>2
-----------------------------------------------------------------------------
LEMMA EntriesTyped ==
  ASSUME NEW cs \in Seq(Entries)
  PROVE  DOMAIN cs = 1..Len(cs) /\ Len(cs) \in Nat /\ \A i \in DOMAIN cs : cs[i] \in Entries /\ cs[i].type \in Kinds
<1>1. DOMAIN cs = 1..Len(cs) /\ Len(cs) \in Nat
  OBVIOUS
<1>2. \A i \in DOMAIN cs : cs[i] \in Entries
  OBVIOUS
<1> QED BY <1>1, <1>2 DEF Entries

\* What a step of p leaves to the others: their locals, and either the
\* containers that run as they were, or an excuse.
SameRunning ==
  \A n \in BoxNames : /\ (boxes'[n].up = "running") = (boxes[n].up = "running")
                      /\ boxes[n].up = "running" => /\ boxes'[n].type = boxes[n].type
                                                    /\ boxes'[n].persist = boxes[n].persist
DataSame(q) ==
  lcReq'[q] = lcReq[q] /\ lcName'[q] = lcName[q] /\ lcPersist'[q] = lcPersist[q] /\ lcHad'[q] = lcHad[q]
Undisturbed(q) ==
  /\ ControlSame(q) /\ DataSame(q)
  /\ lcExcuse[q] => lcExcuse'[q]
  /\ SameRunning \/ ~Underway(q) \/ lcExcuse'[q]

LEMMA ResolvedSame ==
  ASSUME SameRunning, NEW c, c.type \in Kinds
  PROVE  /\ Resolved(c)' = Resolved(c) /\ SurelyPersists(c)' = SurelyPersists(c)
         /\ MayPersist(c)' = MayPersist(c) /\ Runs(OwnNameOf[c.type])' = Runs(OwnNameOf[c.type])
<1>1. OwnNameOf[c.type] \in BoxNames
  BY DEF OwnNameOf, Kinds, BoxNames
<1>2. Runs(OwnNameOf[c.type])' = Runs(OwnNameOf[c.type])
  BY <1>1 DEF Runs, SameRunning
<1>3. ByImage(c)' = ByImage(c)
  BY DEF ByImage, Runs, SameRunning
<1>4. Resolved(c)' = Resolved(c)
  BY <1>2, <1>3 DEF Resolved
<1>5. \A n \in Resolved(c) : n \in BoxNames /\ boxes[n].up = "running"
  BY <1>1 DEF Resolved, ByImage, Runs
<1>6. \A n \in Resolved(c) : boxes'[n].persist = boxes[n].persist
  BY <1>5 DEF SameRunning
<1>7. SurelyPersists(c)' = SurelyPersists(c)
  BY <1>4, <1>6 DEF SurelyPersists
<1>8. MayPersist(c)' = MayPersist(c)
  BY <1>4, <1>6 DEF MayPersist
<1> QED BY <1>2, <1>4, <1>7, <1>8

LEMMA StandingSame ==
  ASSUME SameRunning, NEW cs \in Seq(Entries)
  PROVE  Standing(cs)' = Standing(cs)
<1>1. \A i \in DOMAIN cs : cs[i].type \in Kinds
  BY EntriesTyped
<1>2. \A i \in DOMAIN cs : SurelyPersists(cs[i])' = SurelyPersists(cs[i]) /\ MayPersist(cs[i])' = MayPersist(cs[i])
  BY <1>1, ResolvedSame
<1> QED BY <1>2 DEF Standing

LEMMA UndisturbedKept ==
  ASSUME LifeInv, NEW q \in LifeProcs, Undisturbed(q), lcExcuse' \in [LifeProcs -> BOOLEAN]
  PROVE  ProcInv(q)'
<1>1. Underway(q)' = Underway(q)
  BY DEF Undisturbed, ControlSame, Underway
<1>2. (Underway(q) => PlaceInv(q))'
  <2>1. Configured(q)' = Configured(q)
    BY DEF Undisturbed, ControlSame, DataSame, Configured
  <2> QED BY <1>1, <2>1 DEF Undisturbed, ControlSame, DataSame, LifeInv, ProcInv, PlaceInv
<1>3. OutcomeInv(q)'
  BY <1>1 DEF Undisturbed, ControlSame, DataSame, LifeInv, ProcInv, OutcomeInv
<1>4. PersistInv(q)'
  <2> SUFFICES ASSUME ~lcExcuse'[q] PROVE PersistInv(q)'
    BY DEF PersistInv
  <2>1. ~lcExcuse[q]
    BY DEF Undisturbed
  <2>2. CASE ~Underway(q)
    BY <1>1, <2>1, <2>2 DEF Undisturbed, ControlSame, DataSame, LifeInv, ProcInv, PersistInv, CarriedOver
  <2>3. CASE Underway(q)
    <3>1. SameRunning /\ SearchInv(q) /\ CarriedInv(q)
      BY <2>1, <2>3 DEF Undisturbed, LifeInv, ProcInv, PersistInv
    <3>2. CarriedInv(q)'
      BY <3>1 DEF Undisturbed, ControlSame, DataSame, CarriedInv, Carries
    <3>7. PICK cs : cs = lcReq[q].containers
      OBVIOUS
    <3>3. cs \in Seq(Entries)
      BY <3>7 DEF LifeInv, LifeTypes, LifeAsks
    <3>4. Standing(cs)' = Standing(cs)
      BY <3>1, <3>3, StandingSame
    <3>5. \A i \in DOMAIN cs : /\ Resolved(cs[i])' = Resolved(cs[i]) /\ SurelyPersists(cs[i])' = SurelyPersists(cs[i])
                               /\ Runs(OwnNameOf[cs[i].type])' = Runs(OwnNameOf[cs[i].type])
      BY <3>1, <3>3, ResolvedSame, EntriesTyped
    <3>6. SearchInv(q)'
      <4> SUFFICES ASSUME lcAt'[q] # "begin", lcPhases'[q] = <<"persist", "stop", "start">> PROVE SearchInv(q)'
        BY DEF SearchInv
      <4>1. lcReq'[q].containers = cs
        BY <3>7 DEF Undisturbed, DataSame
      <4> QED BY <3>1, <3>7, <3>4, <3>5, <4>1 DEF SearchInv, Undisturbed, ControlSame, DataSame
    <3> QED BY <1>1, <2>3, <3>2, <3>6 DEF PersistInv
  <2> QED BY <2>2, <2>3
<1> QED BY <1>2, <1>3, <1>4 DEF ProcInv
-----------------------------------------------------------------------------
\* The three ways in which a step goes on: the command ends, its next phase
\* begins, or the next entry's turn comes.
MayAnswerJson(req) == req.json => req.cmd \in JsonCommands \cup {"extension"}

LEMMA EndsWell ==
  ASSUME LifeInv, NEW p \in LifeProcs, lcReq' = lcReq, MayAnswerJson(lcReq[p]),
         NEW err \in {NoError, Plain, Silenced}, NEW code, Returns(p, err, code),
         ~lcExcuse'[p] => CarriedOver(p)'
  PROVE  ProcInv(p)'
<1> DEFINE sink == IF code = "" THEN lcSink[p] ELSE [lcSink[p] EXCEPT !.code = code]
<1>1. lcSink'[p] = sink /\ lcResult'[p] = Wrapped(Unwrapped(err), lcReq[p], sink)
  BY DEF Returns, LifeInv, LifeTypes, ControlTypes
<1> HIDE DEF sink
<1>2. Honest(lcReq[p], sink, lcResult'[p]) /\ lcResult'[p].err.kind # "busy"
  BY <1>1, LayersHonest DEF MayAnswerJson
<1>3. ~Underway(p)'
  BY <1>2 DEF Underway
<1> QED BY <1>1, <1>2, <1>3 DEF ProcInv, PersistInv, OutcomeInv

LEMMA OverWell ==
  ASSUME LifeInv, NEW p \in LifeProcs, Underway(p), lcAt[p] # "begin", lcReq' = lcReq,
         lcPersist'[p] \in {"unknown", "with"},
         ~lcExcuse'[p] /\ lcPhases[p] \in RestartPlans => Carries(p)',
         PhaseOver(p)
  PROVE  ProcInv(p)'
<1> DEFINE rest == Tail(lcPhases[p])
<1>1. PlaceInv(p) /\ lcPhases[p] \in Plans /\ lcResult[p] = Starting
  BY DEF LifeInv, ProcInv, OutcomeInv, PlaceInv
<1>2. CASE rest = <<>>
  <2>1. Returns(p, NoError, "")
    BY <1>2 DEF PhaseOver
  <2>2. MayAnswerJson(lcReq[p]) /\ CarriedOver(p)'
    BY <1>1 DEF PlaceInv, MayAnswerJson, CarriedOver
  <2> QED BY <2>1, <2>2, EndsWell
<1>3. CASE rest # <<>>
  <2>1. Enters(p, rest)
    BY <1>3 DEF PhaseOver
  <2> HIDE DEF rest
  <2>2. /\ lcPhases'[p] = rest /\ lcAt'[p] = EntryOf(Head(rest)) /\ lcResult' = lcResult
    BY <2>1 DEF Enters, LcGo, Busy, LifeInv, LifeTypes, ControlTypes
  <2>3. /\ rest \in Plans /\ rest # <<"persist", "stop", "start">>
        /\ rest \in RestartPlans => lcPhases[p] \in RestartPlans
        /\ Head(rest) \in {"discover", "invoke"} => Head(lcPhases[p]) \in {"discover", "invoke"}
        /\ EntryOf(Head(rest)) \in PlacesOf(Head(rest)) \ {"begin", "found", "by image"}
    BY <1>1, <1>3, PlanTails DEF PlanGoesOn, rest
  <2>4. Underway(p)' /\ OutcomeInv(p)'
    BY <1>1, <2>2 DEF Underway, OutcomeInv
  <2>5. PlaceInv(p)'
    BY <1>1, <2>2, <2>3 DEF PlaceInv
  <2>6. ~lcExcuse'[p] => SearchInv(p)' /\ CarriedInv(p)'
    BY <2>2, <2>3 DEF SearchInv, CarriedInv, RestartPlans
  <2> QED BY <2>4, <2>5, <2>6 DEF ProcInv, PersistInv
<1> QED BY <1>2, <1>3

\* A search that has come to its end has passed every entry.
SearchFailed(p) == \A i \in DOMAIN lcReq[p].containers : ~SurelyPersists(lcReq[p].containers[i])
LEMMA SearchFailedCarries ==
  ASSUME LifeInv, NEW p \in LifeProcs, Underway(p), ~lcExcuse[p], lcAt[p] # "begin",
         lcPhases[p] \in RestartPlans,
         lcPhases[p] = <<"persist", "stop", "start">> => SearchFailed(p)
  PROVE  Carries(p)
<1>1. SearchInv(p) /\ CarriedInv(p)
  BY DEF LifeInv, ProcInv, PersistInv
<1>2. CASE lcPhases[p] = <<"persist", "stop", "start">>
  <2>1. lcHad[p] = Standing(lcReq[p].containers) /\ lcPersist[p] = "unknown"
    BY <1>1, <1>2 DEF SearchInv
  <2>2. Standing(lcReq[p].containers) # "all"
    BY <1>2 DEF SearchFailed, Standing
  <2> QED BY <2>1, <2>2 DEF Carries
<1>3. CASE lcPhases[p] \in {<<"stop", "start">>, <<"start">>}
  BY <1>1, <1>3 DEF CarriedInv
<1> QED BY <1>2, <1>3 DEF RestartPlans

LEMMA NextWell ==
  ASSUME LifeInv, NEW p \in LifeProcs, Underway(p), lcAt[p] # "begin",
         UNCHANGED <<lcReq, lcHad, lcPersist, boxes>>, lcExcuse[p] => lcExcuse'[p],
         Head(lcPhases[p]) \in {"persist", "stop", "look", "status", "discover"},
         ~lcExcuse'[p] /\ lcPhases[p] = <<"persist", "stop", "start">> /\ lcIdx[p] \in DOMAIN lcReq[p].containers
           => ~SurelyPersists(lcReq[p].containers[lcIdx[p]]),
         NextSubject(p)
  PROVE  ProcInv(p)'
<1>1. PlaceInv(p) /\ lcResult[p] = Starting /\ lcIdx[p] \in Nat \ {0}
  BY DEF LifeInv, LifeTypes, ControlTypes, ProcInv, OutcomeInv
<1> DEFINE cs == lcReq[p].containers
<1>2. cs \in Seq(Entries)
  BY DEF LifeInv, LifeTypes, LifeAsks
<1>3. lcPhases[p] \in RestartPlans => Subjects(lcReq[p]) = cs
  BY <1>1 DEF PlaceInv, Subjects
<1>4. ASSUME ~lcExcuse'[p], lcPhases[p] = <<"persist", "stop", "start">>
      PROVE  \A i \in DOMAIN cs : i < lcIdx[p] + 1 => ~SurelyPersists(cs[i])
  <2>1. \A i \in DOMAIN cs : i < lcIdx[p] => ~SurelyPersists(cs[i])
    BY <1>4 DEF LifeInv, ProcInv, PersistInv, SearchInv
  <2>2. lcIdx[p] \in DOMAIN cs => ~SurelyPersists(cs[lcIdx[p]])
    BY <1>4
  <2>3. \A i \in DOMAIN cs : i < lcIdx[p] + 1 => i < lcIdx[p] \/ i = lcIdx[p]
    BY <1>1, <1>2, EntriesTyped
  <2> QED BY <2>1, <2>2, <2>3
<1>5. CASE lcIdx[p] < Len(Subjects(lcReq[p]))
  <2>1. /\ lcIdx'[p] = lcIdx[p] + 1 /\ lcAt'[p] = "running" /\ lcPhases' = lcPhases /\ lcResult' = lcResult
    BY <1>5 DEF NextSubject, LcGo, Busy, LifeInv, LifeTypes, ControlTypes
  <2>2. Underway(p)' /\ OutcomeInv(p)'
    BY <1>1, <2>1 DEF Underway, OutcomeInv
  <2>3. PlaceInv(p)'
    BY <1>1, <2>1 DEF PlaceInv, PlacesOf, Searches
  <2>4. ASSUME ~lcExcuse'[p] PROVE SearchInv(p)' /\ CarriedInv(p)'
    <3>1. SearchInv(p) /\ CarriedInv(p)
      BY <2>4 DEF LifeInv, ProcInv, PersistInv
    <3>2. CarriedInv(p)'
      BY <2>1, <3>1 DEF CarriedInv, Carries
    <3>3. \A c : SurelyPersists(c)' = SurelyPersists(c)
      BY DEF SurelyPersists, Resolved, ByImage, Runs
    <3>4. Standing(cs)' = Standing(cs)
      BY DEF Standing, SurelyPersists, MayPersist, Resolved, ByImage, Runs
    <3>5. SearchInv(p)'
      BY <1>4, <2>1, <2>4, <3>1, <3>3, <3>4 DEF SearchInv
    <3> QED BY <3>2, <3>5
  <2> QED BY <2>2, <2>3, <2>4 DEF ProcInv, PersistInv
<1>6. CASE ~(lcIdx[p] < Len(Subjects(lcReq[p])))
  <2>1. PhaseOver(p)
    BY <1>6 DEF NextSubject
  <2>2. ASSUME ~lcExcuse'[p], lcPhases[p] \in RestartPlans PROVE Carries(p)'
    <3>1. lcPhases[p] = <<"persist", "stop", "start">> => SearchFailed(p)
      <4> SUFFICES ASSUME lcPhases[p] = <<"persist", "stop", "start">> PROVE SearchFailed(p)
        OBVIOUS
      <4>1. \A i \in DOMAIN cs : i < lcIdx[p] + 1
        BY <1>1, <1>2, <1>3, <1>6, <2>2, EntriesTyped
      <4> QED BY <1>4, <2>2, <4>1 DEF SearchFailed
    <3>2. Carries(p)
      BY <2>2, <3>1, SearchFailedCarries
    <3> QED BY <3>2 DEF Carries
  <2> QED BY <1>1, <2>1, <2>2, OverWell DEF PlaceInv
<1> QED BY <1>5, <1>6
-----------------------------------------------------------------------------
\* A step keeps the invariant if it keeps it for the one that takes it, and
\* disturbs no other.
LEMMA LifeKept ==
  ASSUME LifeInv, NEW p \in LifeProcs, lcReq' = lcReq, Moves(p), DataTypes', ProcInv(p)',
         \A q \in LifeProcs \ {p} : /\ DataSame(q) /\ (lcExcuse[q] => lcExcuse'[q])
                                    /\ SameRunning \/ ~Underway(q) \/ lcExcuse'[q]
  PROVE  LifeInv'
<1>1. LifeTypes'
  BY DEF LifeInv, LifeTypes, Moves
<1>2. ASSUME NEW q \in LifeProcs \ {p} PROVE ProcInv(q)'
  <2>1. Undisturbed(q)
    BY DEF Undisturbed, Moves
  <2>2. lcExcuse' \in [LifeProcs -> BOOLEAN]
    BY DEF DataTypes
  <2> QED BY <2>1, <2>2, UndisturbedKept
<1> QED BY <1>1, <1>2 DEF LifeInv

LEMMA QuietKept ==
  ASSUME LifeInv, NEW p \in LifeProcs, UNCHANGED <<lcReq, Work, boxes, volumes>>, Moves(p), ProcInv(p)'
  PROVE  LifeInv'
<1>1. DataTypes'
  BY DEF LifeInv, LifeTypes, DataTypes, Work
<1>2. SameRunning
  BY DEF SameRunning
<1>3. \A q \in LifeProcs : DataSame(q) /\ (lcExcuse[q] => lcExcuse'[q])
  BY DEF DataSame, Work
<1> QED BY <1>1, <1>2, <1>3, LifeKept

\* What is known of a command that has begun and goes on.
LEMMA Going ==
  ASSUME LifeInv, NEW p \in LifeProcs, NEW at, at # "begin", LcAt(p, at)
  PROVE  /\ Underway(p) /\ lcAt[p] = at /\ lcResult[p] = Starting /\ PlaceInv(p)
         /\ lcPhases[p] \in Plans /\ at \in PlacesOf(Head(lcPhases[p]))
         /\ HandlerRefusal(lcReq[p]) = "" /\ MayAnswerJson(lcReq[p])
         /\ lcPersist[p] \in {"unknown", "with"} /\ ControlTypes /\ lcReq[p] \in LifeAsks
         /\ lcPhases[p] = <<"persist", "stop", "start">> \/ Head(lcPhases[p]) # "persist"
<1>1. Underway(p) /\ lcAt[p] = at /\ lcResult[p] = Starting /\ PlaceInv(p)
  BY DEF LcAt, LifeInv, ProcInv, OutcomeInv
<1>2. lcPhases[p] = <<"persist", "stop", "start">> \/ Head(lcPhases[p]) # "persist"
  <2> SUFFICES ASSUME Head(lcPhases[p]) = "persist" PROVE lcPhases[p] = <<"persist", "stop", "start">>
    OBVIOUS
  <2>1. lcPhases[p] \in Plans
    BY <1>1 DEF PlaceInv
  <2> QED BY <2>1 DEF Plans
<1> QED BY <1>1, <1>2 DEF PlaceInv, MayAnswerJson, LifeInv, LifeTypes

LEMMA QuietEnd ==
  ASSUME LifeInv, NEW p \in LifeProcs, Underway(p), lcAt[p] # "begin", lcReq' = lcReq,
         lcPersist'[p] \in {"unknown", "with"},
         NEW err \in {NoError, Plain, Silenced}, NEW code, Returns(p, err, code)
  PROVE  ProcInv(p)' /\ Moves(p)
<1>1. MayAnswerJson(lcReq[p])
  BY DEF LifeInv, ProcInv, PlaceInv, MayAnswerJson
<1>2. CarriedOver(p)'
  BY DEF CarriedOver
<1>3. Moves(p)
  BY ReturnsMoves DEF LifeInv, LifeTypes
<1> QED BY <1>1, <1>2, <1>3, EndsWell

LEMMA QuietOver ==
  ASSUME LifeInv, NEW p \in LifeProcs, Underway(p), lcAt[p] # "begin", Head(lcPhases[p]) # "persist",
         UNCHANGED <<lcReq, lcPersist, lcHad>>, lcExcuse[p] => lcExcuse'[p], PhaseOver(p)
  PROVE  ProcInv(p)' /\ Moves(p)
<1>1. lcPhases[p] \in Plans /\ lcPersist[p] \in {"unknown", "with"} /\ ControlTypes
  BY DEF LifeInv, LifeTypes, ProcInv, PlaceInv
<1>2. ASSUME ~lcExcuse'[p], lcPhases[p] \in RestartPlans PROVE Carries(p)'
  <2>1. Carries(p)
    BY <1>2, SearchFailedCarries
  <2> QED BY <2>1 DEF Carries
<1> QED BY <1>1, <1>2, OverWell, PhaseOverMoves

\* Within a phase a command goes from place to place.
LEMMA StaysWell ==
  ASSUME LifeInv, NEW p \in LifeProcs, Underway(p), lcAt[p] # "begin",
         UNCHANGED <<lcReq, lcPersist, lcHad, lcPhases, lcResult>>, lcExcuse[p] => lcExcuse'[p],
         lcAt'[p] \in PlacesOf(Head(lcPhases[p])), lcAt'[p] # "begin",
         lcAt'[p] = "found" => lcName'[p] \in BoxNames, lcAt'[p] = "by image" => Configured(p)',
         ~lcExcuse'[p] /\ lcPhases[p] = <<"persist", "stop", "start">> => SearchInv(p)'
  PROVE  ProcInv(p)'
<1>1. PlaceInv(p) /\ lcResult[p] = Starting
  BY DEF LifeInv, ProcInv, OutcomeInv
<1>2. Underway(p)' /\ OutcomeInv(p)'
  BY <1>1 DEF Underway, OutcomeInv
<1>3. PlaceInv(p)'
  BY <1>1 DEF PlaceInv
<1>4. ASSUME ~lcExcuse'[p] PROVE SearchInv(p)' /\ CarriedInv(p)'
  <2>1. CarriedInv(p)
    BY <1>4 DEF LifeInv, ProcInv, PersistInv
  <2>2. CarriedInv(p)'
    BY <2>1 DEF CarriedInv, Carries
  <2> QED BY <1>4, <2>2 DEF SearchInv
<1> QED BY <1>2, <1>3, <1>4 DEF ProcInv, PersistInv
-----------------------------------------------------------------------------
\* The steps, one by one.
LEMMA StandingTyped == \A cs : Standing(cs) \in {"none", "some", "all"}
BY DEF Standing

LEMMA RefusedHonest ==
  ASSUME NEW req, NEW sink, PreRunRefusal(req) # ""
  PROVE  LET e == ErrorEnvelope(PreRunRefusal(req))
             r == IF req.json /\ req.cmd \in JsonCommands THEN [Unwrapped(Coded(1)) EXCEPT !.out = <<e>>]
                  ELSE Unwrapped(Plain)
         IN  Honest(req, sink, r) /\ r.err.kind # "busy"
<1> DEFINE e == ErrorEnvelope(PreRunRefusal(req))
<1>1. e.status # "ok" /\ e.code # "CONFIRMATION_REQUIRED"
  BY DEF ErrorEnvelope, PreRunRefusal
<1>2. Coded(1).kind # "busy" /\ CodeOfExit(Coded(1)) = 1 /\ Plain.kind # "busy"
  BY DEF Coded, CodeOfExit, Plain
<1> HIDE DEF e
<1>3. CASE req.json /\ req.cmd \in JsonCommands
  <2> DEFINE r == [Unwrapped(Coded(1)) EXCEPT !.out = <<e>>]
  <2>1. r.err = Coded(1) /\ r.out = <<e>> /\ r.reported = <<>>
    BY DEF Unwrapped
  <2> HIDE DEF r
  <2>2. Agrees(e, CodeOfExit(r.err), sink)
    <3>1. Agrees(e, 1, sink)
      BY <1>1, ErrorAgrees
    <3> QED BY <1>2, <2>1, <3>1
  <2>3. Honest(req, sink, r) /\ r.err.kind # "busy"
    BY <1>2, <2>1, <2>2, HonestEnvelope
  <2> QED BY <1>3, <2>3 DEF e, r
<1>4. CASE ~(req.json /\ req.cmd \in JsonCommands)
  <2> DEFINE r == Unwrapped(Plain)
  <2>1. r.err = Plain /\ r.out = <<>> /\ r.reported = <<>>
    BY DEF Unwrapped
  <2> HIDE DEF r
  <2>3. Honest(req, sink, r) /\ r.err.kind # "busy"
    BY <1>2, <1>4, <2>1, HonestSilence
  <2> QED BY <1>4, <2>3 DEF r
<1> QED BY <1>3, <1>4

LEMMA NotCapableHonest ==
  ASSUME NEW req, NEW sink, PreRunRefusal(req) = "", req.cmd \notin JsonCommands \cup {"extension"}
  PROVE  LET r == Wrapped([Unwrapped(Silenced) EXCEPT !.out = <<ErrorEnvelope("NOT_JSON_CAPABLE")>>], req, sink)
         IN  Honest(req, sink, r) /\ r.err.kind # "busy"
<1> DEFINE e == ErrorEnvelope("NOT_JSON_CAPABLE")
           r == Wrapped([Unwrapped(Silenced) EXCEPT !.out = <<e>>], req, sink)
<1>1. e.status # "ok" /\ e.code # "CONFIRMATION_REQUIRED"
  BY DEF ErrorEnvelope
<1>2. Silenced.kind # "busy" /\ CodeOfExit(Silenced) = 1
  BY DEF Silenced, CodeOfExit
<1> HIDE DEF e
<1>3. r = [err |-> Silenced, out |-> <<e>>, reported |-> <<CodeOfExit(Silenced)>>]
  BY OneItem DEF Wrapped, Layer, Middleware, Unwrapped, IsExtensionDispatch
<1> HIDE DEF r
<1>4. r.err = Silenced /\ r.out = <<e>> /\ r.reported = <<CodeOfExit(r.err)>>
  BY <1>3
<1>5. Agrees(e, CodeOfExit(r.err), sink)
  <2>1. Agrees(e, 1, sink)
    BY <1>1, ErrorAgrees
  <2> QED BY <1>2, <1>4, <2>1
<1>7. Honest(req, sink, r) /\ r.err.kind # "busy"
  BY <1>2, <1>4, <1>5, HonestEnvelope
<1> QED BY <1>7 DEF e, r

LEMMA BeginsKeeps ==
  ASSUME LifeInv, NEW p \in LifeProcs, Begins(p)
  PROVE  LifeInv'
<1> DEFINE req == lcReq[p]
<1>1. /\ Underway(p) /\ lcAt[p] = "begin" /\ lcPersist[p] = "unknown" /\ lcResult[p] = Starting
      /\ ControlTypes /\ req \in LifeAsks
  BY DEF Begins, LcAt, LifeInv, LifeTypes, ProcInv, PlaceInv, OutcomeInv
<1>2. /\ lcHad' = [lcHad EXCEPT ![p] = Standing(req.containers)]
      /\ UNCHANGED <<lcReq, lcName, lcFound, lcPersist, lcYes, lcExcuse, boxes, volumes>>
  BY DEF Begins
<1>3. DataTypes'
  BY <1>2, StandingTyped DEF LifeInv, LifeTypes, DataTypes
<1>4. \A q \in LifeProcs \ {p} : /\ DataSame(q) /\ (lcExcuse[q] => lcExcuse'[q])
                                 /\ SameRunning \/ ~Underway(q) \/ lcExcuse'[q]
  BY <1>2 DEF DataSame, SameRunning, LifeInv, LifeTypes, DataTypes
<1>5. CarriedOver(p)'
  BY <1>1, <1>2 DEF CarriedOver
<1>6. Moves(p) /\ ProcInv(p)'
  <2>1. ASSUME Honest(req, lcSink[p], lcResult'[p]), lcResult'[p].err.kind # "busy",
               UNCHANGED <<lcAt, lcPhases, lcIdx, lcSink>>,
               NEW r, lcResult' = [lcResult EXCEPT ![p] = r]
        PROVE  Moves(p) /\ ProcInv(p)'
    <3>1. Moves(p)
      BY <1>1, <2>1 DEF Moves, ControlTypes, ControlSame
    <3>2. ~Underway(p)'
      BY <2>1 DEF Underway
    <3> QED BY <1>2, <1>5, <2>1, <3>1, <3>2 DEF ProcInv, PersistInv, OutcomeInv
  <2>2. CASE /\ PreRunRefusal(req) # ""
             /\ lcResult' = [lcResult EXCEPT ![p] =
                  IF req.json /\ req.cmd \in JsonCommands
                  THEN [Unwrapped(Coded(1)) EXCEPT !.out = <<ErrorEnvelope(PreRunRefusal(req))>>]
                  ELSE Unwrapped(Plain)]
             /\ UNCHANGED <<lcAt, lcPhases, lcIdx, lcSink>>
    <3> DEFINE r == IF req.json /\ req.cmd \in JsonCommands
                    THEN [Unwrapped(Coded(1)) EXCEPT !.out = <<ErrorEnvelope(PreRunRefusal(req))>>]
                    ELSE Unwrapped(Plain)
    <3>1. Honest(req, lcSink[p], r) /\ r.err.kind # "busy"
      BY <2>2, RefusedHonest
    <3>2. lcResult' = [lcResult EXCEPT ![p] = r]
      BY <2>2
    <3> HIDE DEF r
    <3>3. lcResult'[p] = r
      BY <1>1, <3>2 DEF ControlTypes
    <3> QED BY <2>1, <2>2, <3>1, <3>2, <3>3
  <2>3. CASE /\ PreRunRefusal(req) = "" /\ req.json /\ req.cmd \notin JsonCommands \cup {"extension"}
             /\ lcResult' = [lcResult EXCEPT ![p] =
                  Wrapped([Unwrapped(Silenced) EXCEPT !.out = <<ErrorEnvelope("NOT_JSON_CAPABLE")>>], req, lcSink[p])]
             /\ UNCHANGED <<lcAt, lcPhases, lcIdx, lcSink>>
    <3> DEFINE r == Wrapped([Unwrapped(Silenced) EXCEPT !.out = <<ErrorEnvelope("NOT_JSON_CAPABLE")>>], req, lcSink[p])
    <3>1. Honest(req, lcSink[p], r) /\ r.err.kind # "busy"
      BY <2>3, NotCapableHonest
    <3>2. lcResult' = [lcResult EXCEPT ![p] = r]
      BY <2>3
    <3> HIDE DEF r
    <3>3. lcResult'[p] = r
      BY <1>1, <3>2 DEF ControlTypes
    <3> QED BY <2>1, <2>3, <3>1, <3>2, <3>3
  <2>4. CASE /\ req.json => req.cmd \in JsonCommands \cup {"extension"}
             /\ HandlerRefusal(req) # "" /\ Returns(p, Silenced, HandlerRefusal(req))
    <3>1. Moves(p)
      BY <1>1, <2>4, ReturnsMoves
    <3>2. MayAnswerJson(req)
      BY <2>4 DEF MayAnswerJson
    <3>3. ProcInv(p)'
      BY <1>2, <1>5, <2>4, <3>2, EndsWell
    <3> QED BY <3>1, <3>3
  <2>5. CASE /\ req.json => req.cmd \in JsonCommands \cup {"extension"}
             /\ HandlerRefusal(req) = "" /\ Enters(p, Phases(req))
    <3> DEFINE ph == Phases(req)
    <3>1. /\ ph \in Plans
          /\ ph \in RestartPlans => req.cmd = "restart"
          /\ ph = <<"persist", "stop", "start">> => ~req.persist
          /\ ph \in {<<"stop", "start">>, <<"start">>} => req.persist
          /\ Head(ph) \in {"discover", "invoke"} => req.cmd = "extension"
          /\ EntryOf(Head(ph)) \in PlacesOf(Head(ph)) \ {"begin", "found", "by image"}
      BY <1>1, FirstPlan
    <3> HIDE DEF ph
    <3>2. EntryOf(Head(ph)) \in LifeStages
      <4>1. Head(ph) \in {"persist", "stop", "start", "look", "confirm", "reset", "clear", "status", "fetch",
                          "discover", "invoke"}
        BY <3>1, HeadsOfPlans
      <4> QED BY <4>1 DEF EntryOf, LifeStages, Searches
    <3>3. Moves(p)
      BY <1>1, <2>5, <3>2, EntersMoves DEF ph
    <3>4. lcPhases'[p] = ph /\ lcIdx'[p] = 1 /\ lcAt'[p] = EntryOf(Head(ph)) /\ lcResult' = lcResult
      BY <1>1, <2>5 DEF Enters, LcGo, Busy, ControlTypes, ph
    <3>5. Underway(p)' /\ OutcomeInv(p)'
      BY <1>1, <3>4 DEF Underway, OutcomeInv
    <3>6. PlaceInv(p)'
      BY <1>1, <1>2, <2>5, <3>1, <3>4 DEF PlaceInv
    <3>7. CarriedInv(p)'
      BY <1>2, <3>1, <3>4 DEF CarriedInv, Carries
    <3>8. SearchInv(p)'
      <4>1. lcHad'[p] = Standing(req.containers)
        BY <1>2 DEF LifeInv, LifeTypes, DataTypes
      <4>2. Standing(req.containers)' = Standing(req.containers)
        <5>1. PICK cs : cs = req.containers
          OBVIOUS
        <5>2. Standing(cs)' = Standing(cs)
          BY <1>2 DEF Standing, SurelyPersists, MayPersist, Resolved, ByImage, Runs
        <5> QED BY <1>2, <5>1, <5>2
      <4>3. \A i \in DOMAIN req.containers : ~(i < 1)
        <5>1. req.containers \in Seq(Entries)
          BY <1>1 DEF LifeAsks
        <5> QED BY <5>1, EntriesTyped
      <4> QED BY <1>1, <1>2, <3>1, <3>4, <4>1, <4>2, <4>3 DEF SearchInv
    <3> QED BY <3>3, <3>5, <3>6, <3>7, <3>8 DEF ProcInv, PersistInv
  <2> QED BY <2>2, <2>3, <2>4, <2>5 DEF Begins
<1> QED BY <1>2, <1>3, <1>4, <1>6, LifeKept

LEMMA ChecksHealthKeeps ==
  ASSUME LifeInv, NEW p \in LifeProcs, ChecksHealth(p)
  PROVE  LifeInv'
<1>1. LcAt(p, "healthy") /\ UNCHANGED <<lcReq, Work, boxes, volumes>>
  BY DEF ChecksHealth
<1>2. /\ Underway(p) /\ lcAt[p] = "healthy" /\ lcPhases[p] \in Plans /\ ControlTypes
      /\ "healthy" \in PlacesOf(Head(lcPhases[p])) /\ lcPersist[p] \in {"unknown", "with"}
  BY <1>1, Going
<1>3. Head(lcPhases[p]) \in {"stop", "look", "status", "discover"}
  BY <1>2, HeadsOfPlans DEF PlacesOf, Searches
<1>4. UNCHANGED <<lcReq, lcName, lcFound, lcPersist, lcYes, lcHad, lcExcuse, boxes, volumes>>
  BY <1>1 DEF Work
<1>5. CASE LcGo(p, "running") /\ Busy(p) /\ UNCHANGED <<lcPhases, lcIdx>>
  <2>1. lcAt' = [lcAt EXCEPT ![p] = "running"] /\ UNCHANGED <<lcPhases, lcIdx, lcSink, lcResult>>
    BY <1>5 DEF LcGo, Busy
  <2>2. lcAt'[p] = "running" /\ Moves(p)
    BY <1>2, <2>1 DEF ControlTypes, Moves, ControlSame, LifeStages, Searches
  <2>3. "running" \in PlacesOf(Head(lcPhases[p]))
    BY <1>3 DEF PlacesOf, Searches
  <2>4. lcPhases[p] # <<"persist", "stop", "start">>
    BY <1>3
  <2>5. ProcInv(p)'
    BY <1>2, <1>4, <2>1, <2>2, <2>3, <2>4, StaysWell
  <2> QED BY <1>1, <2>2, <2>5, QuietKept
<1>6. CASE PhaseOver(p)
  <2>1. ProcInv(p)' /\ Moves(p)
    BY <1>2, <1>3, <1>4, <1>6, QuietOver
  <2> QED BY <1>1, <2>1, QuietKept
<1>7. CASE Returns(p, Silenced, "RUNTIME_UNAVAILABLE")
  <2>1. ProcInv(p)' /\ Moves(p)
    BY <1>2, <1>4, <1>7, QuietEnd
  <2> QED BY <1>1, <2>1, QuietKept
<1> QED BY <1>5, <1>6, <1>7 DEF ChecksHealth

\* A phase ends with no entry left; a search among them has passed all.
LEMMA SkipsPhaseKeeps ==
  ASSUME LifeInv, NEW p \in LifeProcs, SkipsPhase(p)
  PROVE  LifeInv'
<1>1. PICK at \in {"running", "clear"} : LcAt(p, at)
  BY DEF SkipsPhase
<1>2. ~Configured(p) /\ UNCHANGED <<lcReq, Work, boxes, volumes>> /\ PhaseOver(p)
  BY DEF SkipsPhase
<1>3. at # "begin"
  OBVIOUS
<1>4. /\ Underway(p) /\ lcAt[p] # "begin" /\ PlaceInv(p) /\ lcPhases[p] \in Plans /\ ControlTypes
      /\ lcReq[p] \in LifeAsks
      /\ lcPersist[p] \in {"unknown", "with"}
  BY <1>1, <1>3, Going
<1>5. UNCHANGED <<lcReq, lcName, lcFound, lcPersist, lcYes, lcHad, lcExcuse, boxes, volumes>>
  BY <1>2 DEF Work
<1>6. ASSUME ~lcExcuse'[p], lcPhases[p] \in RestartPlans PROVE Carries(p)'
  <2>1. lcPhases[p] = <<"persist", "stop", "start">> => SearchFailed(p)
    <3> SUFFICES ASSUME lcPhases[p] = <<"persist", "stop", "start">> PROVE SearchFailed(p)
      OBVIOUS
    <3> DEFINE cs == lcReq[p].containers
    <3>1. Subjects(lcReq[p]) = cs
      BY <1>4, <1>6 DEF PlaceInv, Subjects
    <3>2. cs \in Seq(Entries)
      BY <1>4 DEF LifeAsks
    <3>3. lcIdx[p] \in Nat \ {0} /\ lcIdx[p] \notin DOMAIN cs
      BY <1>2, <1>4, <3>1 DEF ControlTypes, Configured
    <3>4. \A i \in DOMAIN cs : i < lcIdx[p]
      BY <3>2, <3>3, EntriesTyped
    <3>5. SearchInv(p)
      BY <1>4, <1>5, <1>6 DEF LifeInv, ProcInv, PersistInv
    <3> QED BY <1>4, <3>4, <3>5 DEF SearchInv, SearchFailed
  <2>2. Carries(p)
    BY <1>4, <1>5, <1>6, <2>1, SearchFailedCarries
  <2> QED BY <1>5, <2>2 DEF Carries
<1>7. ProcInv(p)'
  BY <1>2, <1>4, <1>5, <1>6, OverWell
<1>8. Moves(p)
  BY <1>2, <1>4, PhaseOverMoves
<1> QED BY <1>2, <1>7, <1>8, QuietKept

\* What a search finds for the entry at hand is what it may be taken for.
Match(p, name) ==
  /\ name \in BoxNames
  /\ ~lcExcuse[p] /\ lcPhases[p] = <<"persist", "stop", "start">> =>
       lcIdx[p] \in DOMAIN lcReq[p].containers /\ name \in Resolved(lcReq[p].containers[lcIdx[p]])
LEMMA FindsKeeps ==
  ASSUME LifeInv, NEW p \in LifeProcs, NEW at \in {"running", "by image"}, LcAt(p, at), NEW name, Match(p, name),
         Finds(p, name)
  PROVE  LifeInv'
<1>1. at # "begin"
  OBVIOUS
<1>2. /\ Underway(p) /\ lcAt[p] # "begin" /\ lcPhases[p] \in Plans /\ ControlTypes
      /\ lcAt[p] \in PlacesOf(Head(lcPhases[p])) /\ lcPersist[p] \in {"unknown", "with"} /\ lcAt[p] = at
  BY <1>1, Going
<1>3. Head(lcPhases[p]) \in {"persist", "stop", "look", "status", "discover"}
  BY <1>2, HeadsOfPlans DEF PlacesOf, Searches
<1>4. /\ lcName' = [lcName EXCEPT ![p] = name]
      /\ UNCHANGED <<lcReq, lcPersist, lcYes, lcHad, lcExcuse, boxes, volumes>>
      /\ IF Head(lcPhases[p]) = "look" THEN NextSubject(p)
         ELSE LcGo(p, "found") /\ Busy(p) /\ UNCHANGED <<lcPhases, lcIdx>>
  BY DEF Finds
<1>5. lcName'[p] = name /\ DataTypes'
  BY <1>4 DEF Match, LifeInv, LifeTypes, DataTypes
<1>6. \A q \in LifeProcs \ {p} : /\ DataSame(q) /\ (lcExcuse[q] => lcExcuse'[q])
                                 /\ SameRunning \/ ~Underway(q) \/ lcExcuse'[q]
  BY <1>4 DEF DataSame, SameRunning, LifeInv, LifeTypes, DataTypes
<1>7. Moves(p) /\ ProcInv(p)'
  <2>1. CASE Head(lcPhases[p]) = "look"
    <3>1. Moves(p)
      BY <1>2, <1>4, <2>1, NextSubjectMoves
    <3>3. lcPhases[p] # <<"persist", "stop", "start">>
      BY <2>1, SearchesFirst
    <3>2. ProcInv(p)'
      BY <1>2, <1>3, <1>4, <2>1, <3>3, NextWell
    <3> QED BY <3>1, <3>2
  <2>2. CASE Head(lcPhases[p]) # "look"
    <3>1. lcAt' = [lcAt EXCEPT ![p] = "found"] /\ UNCHANGED <<lcPhases, lcIdx, lcSink, lcResult>>
      BY <1>4, <2>2 DEF LcGo, Busy
    <3>2. lcAt'[p] = "found" /\ Moves(p)
      BY <1>2, <3>1 DEF ControlTypes, Moves, ControlSame, LifeStages, Searches
    <3>3. "found" \in PlacesOf(Head(lcPhases[p]))
      BY <1>3 DEF PlacesOf, Searches
    <3>4. ASSUME ~lcExcuse'[p], lcPhases[p] = <<"persist", "stop", "start">> PROVE SearchInv(p)'
      <4>1. SearchInv(p)
        BY <1>2, <1>4, <3>4 DEF LifeInv, ProcInv, PersistInv
      <4>2. PICK cs : cs = lcReq[p].containers
        OBVIOUS
      <4>3. \A c : Resolved(c)' = Resolved(c) /\ SurelyPersists(c)' = SurelyPersists(c)
        BY <1>4 DEF SurelyPersists, Resolved, ByImage, Runs
      <4>4. Standing(cs)' = Standing(cs)
        BY <1>4 DEF Standing, SurelyPersists, MayPersist, Resolved, ByImage, Runs
      <4>5. lcReq'[p].containers = cs /\ lcIdx'[p] = lcIdx[p]
        BY <1>4, <3>1, <4>2
      <4>6. lcIdx[p] \in DOMAIN cs /\ name \in Resolved(cs[lcIdx[p]])
        BY <1>4, <3>4, <4>2 DEF Match
      <4> QED BY <1>2, <1>4, <1>5, <3>1, <3>2, <4>1, <4>2, <4>3, <4>4, <4>5, <4>6 DEF SearchInv
    <3>5. ProcInv(p)'
      BY <1>2, <1>4, <1>5, <3>1, <3>2, <3>3, <3>4, StaysWell DEF Match
    <3> QED BY <3>2, <3>5
  <2> QED BY <2>1, <2>2
<1> QED BY <1>4, <1>5, <1>6, <1>7, LifeKept

LEMMA LookupFailsKeeps ==
  ASSUME LifeInv, NEW p \in LifeProcs, NEW at \in {"running", "by image"}, LcAt(p, at), LookupFails(p)
  PROVE  LifeInv'
<1>1. at # "begin"
  OBVIOUS
<1>2. /\ Underway(p) /\ lcAt[p] # "begin" /\ lcPhases[p] \in Plans /\ ControlTypes
      /\ lcPersist[p] \in {"unknown", "with"}
  BY <1>1, Going
<1>3. /\ UNCHANGED <<lcReq, lcName, lcFound, lcPersist, lcYes, lcHad, boxes, volumes>>
      /\ lcExcuse' = [lcExcuse EXCEPT ![p] = TRUE]
  BY DEF LookupFails
<1>4. DataTypes' /\ lcExcuse'[p]
  BY <1>3 DEF LifeInv, LifeTypes, DataTypes
<1>5. \A q \in LifeProcs \ {p} : /\ DataSame(q) /\ (lcExcuse[q] => lcExcuse'[q])
                                 /\ SameRunning \/ ~Underway(q) \/ lcExcuse'[q]
  BY <1>3 DEF DataSame, SameRunning, LifeInv, LifeTypes, DataTypes
<1>6. CASE Head(lcPhases[p]) \in {"persist", "discover"} /\ NextSubject(p)
  <2>1. ProcInv(p)'
    BY <1>2, <1>3, <1>4, <1>6, NextWell
  <2>2. Moves(p)
    BY <1>2, <1>6, NextSubjectMoves
  <2> QED BY <1>3, <1>4, <1>5, <2>1, <2>2, LifeKept
<1>7. CASE Returns(p, Plain, "")
  <2>1. ProcInv(p)' /\ Moves(p)
    BY <1>2, <1>3, <1>7, QuietEnd
  <2> QED BY <1>3, <1>4, <1>5, <2>1, LifeKept
<1> QED BY <1>6, <1>7 DEF LookupFails

\* The entry at hand has a name of its own.
LEMMA SubjectNamed ==
  ASSUME LifeInv, NEW p \in LifeProcs, lcAt[p] # "begin", Underway(p), Configured(p)
  PROVE  Subject(p) \in Entries /\ Subject(p).type \in Kinds /\ OwnNameOf[Subject(p).type] \in BoxNames
<1>1. lcReq[p] \in LifeAsks /\ HandlerRefusal(lcReq[p]) = ""
  BY DEF LifeInv, LifeTypes, ProcInv, PlaceInv
<1>2. Subjects(lcReq[p]) \in Seq(Entries)
  BY <1>1, SubjectsTyped
<1>3. Subject(p) \in Entries /\ Subject(p).type \in Kinds
  BY <1>2, EntriesTyped DEF Subject, Configured
<1> QED BY <1>3 DEF OwnNameOf, Kinds, BoxNames

\* A restart works on what is configured, on no external target.
LEMMA RestartsSubjects ==
  ASSUME LifeInv, NEW p \in LifeProcs, lcAt[p] # "begin", Underway(p), lcPhases[p] \in RestartPlans
  PROVE  Subjects(lcReq[p]) = lcReq[p].containers /\ ~External(p)
<1>1. lcReq[p].cmd = "restart" /\ HandlerRefusal(lcReq[p]) = ""
  BY DEF LifeInv, ProcInv, PlaceInv
<1> QED BY <1>1 DEF Subjects, External, HandlerRefusal

LEMMA AsksByNameKeeps ==
  ASSUME LifeInv, NEW p \in LifeProcs, AsksByName(p)
  PROVE  LifeInv'
<1>1. LcAt(p, "running") /\ Configured(p)
  BY DEF AsksByName
<1>2. /\ Underway(p) /\ lcAt[p] = "running" /\ lcPhases[p] \in Plans /\ ControlTypes
      /\ "running" \in PlacesOf(Head(lcPhases[p])) /\ lcPersist[p] \in {"unknown", "with"}
  BY <1>1, Going
<1>3. Subject(p).type \in Kinds /\ OwnNameOf[Subject(p).type] \in BoxNames
  BY <1>1, <1>2, SubjectNamed
<1>4. lcPhases[p] = <<"persist", "stop", "start">> =>
        /\ ~External(p) /\ lcIdx[p] \in DOMAIN lcReq[p].containers
        /\ Subject(p) = lcReq[p].containers[lcIdx[p]]
  BY <1>1, <1>2, RestartsSubjects DEF RestartPlans, Configured, Subject
<1>5. CASE (Runs(OwnNameOf[Subject(p).type]) \/ External(p)) /\ Finds(p, OwnNameOf[Subject(p).type])
  <2>1. Match(p, OwnNameOf[Subject(p).type])
    BY <1>3, <1>4, <1>5 DEF Match, Resolved
  <2> QED BY <1>1, <1>5, <2>1, FindsKeeps
<1>6. CASE /\ ~(Runs(OwnNameOf[Subject(p).type]) \/ External(p))
           /\ LcGo(p, "by image") /\ Busy(p)
           /\ UNCHANGED <<lcReq, lcPhases, lcIdx, Work, boxes, volumes>>
  <2>1. lcAt' = [lcAt EXCEPT ![p] = "by image"] /\ UNCHANGED <<lcPhases, lcIdx, lcSink, lcResult>>
    BY <1>6 DEF LcGo, Busy
  <2>2. lcAt'[p] = "by image" /\ Moves(p)
    BY <1>2, <2>1 DEF ControlTypes, Moves, ControlSame, LifeStages, Searches
  <2>3. UNCHANGED <<lcReq, lcName, lcFound, lcPersist, lcYes, lcHad, lcExcuse, boxes, volumes>>
    BY <1>6 DEF Work
  <2>4. "by image" \in PlacesOf(Head(lcPhases[p]))
    BY <1>2, HeadsOfPlans DEF PlacesOf, Searches
  <2>5. Configured(p)'
    BY <1>1, <2>1, <2>3 DEF Configured
  <2>6. ASSUME ~lcExcuse'[p], lcPhases[p] = <<"persist", "stop", "start">> PROVE SearchInv(p)'
    <3>1. SearchInv(p)
      BY <1>2, <2>3, <2>6 DEF LifeInv, ProcInv, PersistInv
    <3>2. PICK cs : cs = lcReq[p].containers
      OBVIOUS
    <3>3. \A c : Resolved(c)' = Resolved(c) /\ SurelyPersists(c)' = SurelyPersists(c)
      BY <2>3 DEF SurelyPersists, Resolved, ByImage, Runs
    <3>4. Standing(cs)' = Standing(cs)
      BY <2>3 DEF Standing, SurelyPersists, MayPersist, Resolved, ByImage, Runs
    <3>5. lcReq'[p].containers = cs /\ lcIdx'[p] = lcIdx[p]
      BY <2>1, <2>3, <3>2
    <3>6. lcIdx[p] \in DOMAIN cs /\ ~Runs(OwnNameOf[cs[lcIdx[p]].type])
      BY <1>4, <1>6, <2>6, <3>2
    <3>7. ~Runs(OwnNameOf[cs[lcIdx[p]].type])'
      BY <2>1, <2>3, <3>6 DEF Runs
    <3> QED BY <1>2, <2>1, <2>2, <2>3, <3>1, <3>2, <3>3, <3>4, <3>5, <3>6, <3>7 DEF SearchInv
  <2>7. ProcInv(p)'
    BY <1>2, <2>1, <2>2, <2>3, <2>4, <2>5, <2>6, StaysWell
  <2> QED BY <1>6, <2>2, <2>7, QuietKept
<1>7. CASE LookupFails(p)
  BY <1>1, <1>7, LookupFailsKeeps
<1> QED BY <1>5, <1>6, <1>7 DEF AsksByName

LEMMA AsksByImageKeeps ==
  ASSUME LifeInv, NEW p \in LifeProcs, AsksByImage(p)
  PROVE  LifeInv'
<1>1. LcAt(p, "by image")
  BY DEF AsksByImage
<1>2. /\ Underway(p) /\ lcAt[p] = "by image" /\ lcPhases[p] \in Plans /\ ControlTypes /\ PlaceInv(p)
      /\ "by image" \in PlacesOf(Head(lcPhases[p])) /\ lcPersist[p] \in {"unknown", "with"}
  BY <1>1, Going
<1>3. Configured(p)
  BY <1>2 DEF PlaceInv
<1>4. ~lcExcuse[p] /\ lcPhases[p] = <<"persist", "stop", "start">> =>
        /\ lcIdx[p] \in DOMAIN lcReq[p].containers
        /\ Subject(p) = lcReq[p].containers[lcIdx[p]]
        /\ Resolved(Subject(p)) = ByImage(Subject(p))
  <2> SUFFICES ASSUME ~lcExcuse[p], lcPhases[p] = <<"persist", "stop", "start">>
               PROVE  /\ lcIdx[p] \in DOMAIN lcReq[p].containers
                      /\ Subject(p) = lcReq[p].containers[lcIdx[p]]
                      /\ Resolved(Subject(p)) = ByImage(Subject(p))
    OBVIOUS
  <2>1. Subjects(lcReq[p]) = lcReq[p].containers
    BY <1>2, RestartsSubjects DEF RestartPlans
  <2>2. SearchInv(p)
    BY <1>2 DEF LifeInv, ProcInv, PersistInv
  <2> QED BY <1>2, <2>1, <2>2 DEF SearchInv, Subject, Resolved
<1>5. ASSUME NEW n \in ByImage(Subject(p)), Finds(p, n) PROVE LifeInv'
  <2>1. Match(p, n)
    BY <1>4, <1>5 DEF Match, ByImage
  <2> QED BY <1>1, <1>5, <2>1, FindsKeeps
<1>6. CASE ByImage(Subject(p)) = {} /\ FindsNothing(p)
  <2> DEFINE phase == Head(lcPhases[p])
  <2>1. UNCHANGED <<lcReq, Work, boxes, volumes>>
    BY <1>6 DEF FindsNothing
  <2>2. UNCHANGED <<lcReq, lcName, lcFound, lcPersist, lcYes, lcHad, lcExcuse, boxes, volumes>>
    BY <2>1 DEF Work
  <2>3. phase \in {"persist", "stop", "look", "status", "discover"}
    BY <1>2, HeadsOfPlans DEF PlacesOf, Searches
  <2>4. CASE NextSubject(p)
    <3>1. Moves(p)
      BY <1>2, <2>4, NextSubjectMoves
    <3>2. ~lcExcuse'[p] /\ lcPhases[p] = <<"persist", "stop", "start">> =>
            ~SurelyPersists(lcReq[p].containers[lcIdx[p]])
      BY <1>4, <1>6, <2>2 DEF SurelyPersists
    <3>3. ProcInv(p)'
      BY <1>2, <2>2, <2>3, <2>4, <3>2, NextWell
    <3> QED BY <2>1, <3>1, <3>3, QuietKept
  <2>5. ASSUME NEW code, Returns(p, Silenced, code) PROVE LifeInv'
    <3>1. ProcInv(p)' /\ Moves(p)
      BY <1>2, <2>2, <2>5, QuietEnd
    <3> QED BY <2>1, <3>1, QuietKept
  <2>6. \/ NextSubject(p) \/ Returns(p, Silenced, "EMULATOR_NOT_RUNNING") \/ Returns(p, Silenced, "INTERNAL_ERROR")
    BY <1>6, <2>3 DEF FindsNothing
  <2> QED BY <2>4, <2>5, <2>6
<1>7. CASE LookupFails(p)
  BY <1>1, <1>7, LookupFailsKeeps
<1> QED BY <1>5, <1>6, <1>7 DEF AsksByImage

LEMMA ReadsEnvKeeps ==
  ASSUME LifeInv, NEW p \in LifeProcs, ReadsEnv(p)
  PROVE  LifeInv'
<1> DEFINE n == lcName[p]
           seen == boxes[n].up # "gone" /\ boxes[n].persist
<1>1. LcAt(p, "found") /\ Head(lcPhases[p]) = "persist"
      /\ UNCHANGED <<lcReq, lcName, lcFound, lcYes, lcHad, boxes, volumes>>
  BY DEF ReadsEnv
<1>2. /\ Underway(p) /\ lcAt[p] = "found" /\ lcPhases[p] \in Plans /\ ControlTypes /\ PlaceInv(p)
      /\ lcPersist[p] \in {"unknown", "with"} /\ lcPhases[p] = <<"persist", "stop", "start">>
  BY <1>1, Going
<1>3. PICK cs : cs = lcReq[p].containers
  OBVIOUS
<1>4. ~lcExcuse[p] => /\ lcIdx[p] \in DOMAIN cs /\ n \in Resolved(cs[lcIdx[p]]) /\ lcHad[p] = Standing(cs)
                      /\ boxes[n].up = "running"
  <2> SUFFICES ASSUME ~lcExcuse[p]
               PROVE  /\ lcIdx[p] \in DOMAIN cs /\ n \in Resolved(cs[lcIdx[p]]) /\ lcHad[p] = Standing(cs)
                      /\ boxes[n].up = "running"
    OBVIOUS
  <2>1. SearchInv(p)
    BY <1>2 DEF LifeInv, ProcInv, PersistInv
  <2>2. lcIdx[p] \in DOMAIN cs /\ n \in Resolved(cs[lcIdx[p]]) /\ lcHad[p] = Standing(cs)
    BY <1>2, <1>3, <2>1 DEF SearchInv
  <2> QED BY <2>2 DEF Resolved, ByImage, Runs
<1>5. /\ lcPersist' \in [LifeProcs -> {"unknown", "with", "started with", "started without"}]
      /\ lcExcuse' \in [LifeProcs -> BOOLEAN]
      /\ \A q \in LifeProcs \ {p} : lcPersist'[q] = lcPersist[q] /\ lcExcuse'[q] = lcExcuse[q]
      /\ lcExcuse[p] => lcExcuse'[p]
  BY DEF ReadsEnv, LifeInv, LifeTypes, DataTypes
<1>6. DataTypes'
  BY <1>1, <1>5 DEF LifeInv, LifeTypes, DataTypes
<1>7. \A q \in LifeProcs \ {p} : /\ DataSame(q) /\ (lcExcuse[q] => lcExcuse'[q])
                                 /\ SameRunning \/ ~Underway(q) \/ lcExcuse'[q]
  BY <1>1, <1>5 DEF DataSame, SameRunning
<1>8. Moves(p) /\ ProcInv(p)'
  <2>1. CASE seen /\ lcPersist' = [lcPersist EXCEPT ![p] = "with"] /\ PhaseOver(p) /\ UNCHANGED lcExcuse
    <3>1. lcPersist'[p] = "with"
      BY <2>1 DEF LifeInv, LifeTypes, DataTypes
    <3>2. ASSUME ~lcExcuse'[p] PROVE Carries(p)'
      <4>1. lcIdx[p] \in DOMAIN cs /\ n \in Resolved(cs[lcIdx[p]]) /\ lcHad[p] = Standing(cs)
        BY <1>4, <2>1, <3>2
      <4>2. MayPersist(cs[lcIdx[p]])
        BY <2>1, <4>1 DEF MayPersist
      <4>3. lcHad[p] # "none"
        BY <4>1, <4>2 DEF Standing
      <4> QED BY <1>1, <3>1, <4>3 DEF Carries
    <3>3. ProcInv(p)'
      BY <1>1, <1>2, <2>1, <3>1, <3>2, OverWell
    <3> QED BY <1>2, <2>1, <3>3, PhaseOverMoves
  <2>2. CASE ~seen /\ NextSubject(p) /\ UNCHANGED <<lcPersist, lcExcuse>>
    <3>1. ~lcExcuse'[p] => ~SurelyPersists(lcReq[p].containers[lcIdx[p]])
      BY <1>3, <1>4, <2>2 DEF SurelyPersists
    <3>2. ProcInv(p)'
      BY <1>1, <1>2, <2>2, <3>1, NextWell
    <3> QED BY <1>2, <2>2, <3>2, NextSubjectMoves
  <2>3. CASE NextSubject(p) /\ lcExcuse' = [lcExcuse EXCEPT ![p] = TRUE] /\ UNCHANGED lcPersist
    <3>1. lcExcuse'[p]
      BY <2>3 DEF LifeInv, LifeTypes, DataTypes
    <3>2. ProcInv(p)'
      BY <1>1, <1>2, <2>3, <3>1, NextWell
    <3> QED BY <1>2, <2>3, <3>2, NextSubjectMoves
  <2> QED BY <2>1, <2>2, <2>3 DEF ReadsEnv
<1> QED BY <1>1, <1>6, <1>7, <1>8, LifeKept

LEMMA StopsBoxKeeps ==
  ASSUME LifeInv, NEW p \in LifeProcs, StopsBox(p)
  PROVE  LifeInv'
<1> DEFINE n == lcName[p]
<1>1. LcAt(p, "found") /\ Head(lcPhases[p]) = "stop"
      /\ UNCHANGED <<lcReq, lcName, lcFound, lcPersist, lcYes, lcHad, volumes>>
  BY DEF StopsBox
<1>2. /\ Underway(p) /\ lcAt[p] = "found" /\ lcPhases[p] \in Plans /\ ControlTypes /\ PlaceInv(p)
      /\ lcPersist[p] \in {"unknown", "with"}
  BY <1>1, Going
<1>3. n \in BoxNames
  BY <1>2 DEF PlaceInv
<1>4. CASE /\ boxes[n].up # "gone" /\ OthersNotice(p)
           /\ boxes' = [boxes EXCEPT ![n].up = "removing", ![n].items = FALSE]
           /\ lcSink' = [lcSink EXCEPT ![p].stopped = Append(@, n)]
           /\ IF lcIdx[p] < Len(Subjects(lcReq[p]))
              THEN /\ lcIdx' = [lcIdx EXCEPT ![p] = @ + 1]
                   /\ LcGo(p, "running") /\ UNCHANGED <<lcPhases, lcResult>>
              ELSE LcGo(p, "stopped") /\ UNCHANGED <<lcPhases, lcIdx, lcResult>>
  <2>1. /\ lcExcuse' \in [LifeProcs -> BOOLEAN]
        /\ \A q \in LifeProcs \ {p} : (lcExcuse[q] => lcExcuse'[q]) /\ (~Underway(q) \/ lcExcuse'[q])
        /\ lcExcuse'[p] = lcExcuse[p]
    BY <1>4 DEF OthersNotice, LifeInv, LifeTypes, DataTypes
  <2>2. boxes' \in [BoxNames -> Boxes]
    BY <1>3, <1>4 DEF LifeInv, LifeTypes, DataTypes, Boxes
  <2>3. DataTypes'
    BY <1>1, <2>1, <2>2 DEF LifeInv, LifeTypes, DataTypes
  <2>4. \A q \in LifeProcs \ {p} : /\ DataSame(q) /\ (lcExcuse[q] => lcExcuse'[q])
                                   /\ SameRunning \/ ~Underway(q) \/ lcExcuse'[q]
    BY <1>1, <2>1 DEF DataSame
  <2>5. /\ DOMAIN lcSink' = LifeProcs /\ \A q \in LifeProcs \ {p} : lcSink'[q] = lcSink[q]
        /\ UNCHANGED <<lcPhases, lcResult>>
    BY <1>2, <1>4 DEF ControlTypes
  <2>6. lcAt' \in [LifeProcs -> LifeStages] /\ lcAt'[p] \in {"running", "stopped"}
        /\ \A q \in LifeProcs \ {p} : lcAt'[q] = lcAt[q]
    <3>1. "running" \in LifeStages /\ "stopped" \in LifeStages
      BY DEF LifeStages, Searches
    <3> QED BY <1>2, <1>4, <3>1 DEF ControlTypes, LcGo
  <2>7. lcIdx' \in [LifeProcs -> Nat \ {0}] /\ \A q \in LifeProcs \ {p} : lcIdx'[q] = lcIdx[q]
    <3>1. lcIdx[p] \in Nat \ {0} /\ lcIdx[p] + 1 \in Nat \ {0}
      BY <1>2 DEF ControlTypes
    <3> QED BY <1>2, <1>4, <3>1 DEF ControlTypes
  <2>8. Moves(p)
    BY <1>2, <2>5, <2>6, <2>7 DEF Moves, ControlTypes, ControlSame
  <2>9. lcAt'[p] \in PlacesOf(Head(lcPhases[p]))
    BY <1>1, <2>6 DEF PlacesOf, Searches
  <2>10. lcPhases[p] # <<"persist", "stop", "start">>
    BY <1>1, SearchesFirst
  <2>11. ProcInv(p)'
    BY <1>1, <1>2, <2>1, <2>5, <2>6, <2>9, <2>10, StaysWell
  <2> QED BY <1>1, <2>3, <2>4, <2>8, <2>11, LifeKept
<1>5. CASE Returns(p, Silenced, "RUNTIME_UNAVAILABLE") /\ UNCHANGED <<boxes, lcExcuse>>
  <2>1. ProcInv(p)' /\ Moves(p)
    BY <1>1, <1>2, <1>5, QuietEnd
  <2> QED BY <1>1, <1>5, <2>1, QuietKept DEF Work
<1> QED BY <1>4, <1>5 DEF StopsBox

LEMMA StopsLastKeeps ==
  ASSUME LifeInv, NEW p \in LifeProcs, StopsLast(p)
  PROVE  LifeInv'
<1>1. LcAt(p, "stopped") /\ UNCHANGED <<lcReq, Work, boxes, volumes>> /\ PhaseOver(p)
  BY DEF StopsLast
<1>2. Underway(p) /\ lcAt[p] = "stopped" /\ lcPhases[p] \in Plans /\ "stopped" \in PlacesOf(Head(lcPhases[p]))
  BY <1>1, Going
<1>3. Head(lcPhases[p]) = "stop"
  BY <1>2, HeadsOfPlans DEF PlacesOf, Searches
<1>4. ProcInv(p)' /\ Moves(p)
  BY <1>1, <1>2, <1>3, QuietOver DEF Work
<1> QED BY <1>1, <1>4, QuietKept

\* What a restart starts persists if it is to carry that over.
LEMMA StartsBoxesKeeps ==
  ASSUME LifeInv, NEW p \in LifeProcs, StartsBoxes(p)
  PROVE  LifeInv'
<1> DEFINE req == lcReq[p]
           with == req.persist \/ lcPersist[p] = "with"
           mine == {OwnNameOf[req.containers[i].type] : i \in DOMAIN req.containers}
           of(n) == CHOOSE i \in DOMAIN req.containers : OwnNameOf[req.containers[i].type] = n
           box(n) == [up |-> "running", type |-> req.containers[of(n)].type,
                      port |-> req.containers[of(n)].port, persist |-> with, items |-> FALSE]
<1>1. LcAt(p, "start") /\ UNCHANGED <<lcReq, lcName, lcFound, lcYes, lcHad, volumes>>
  BY DEF StartsBoxes
<1>2. /\ Underway(p) /\ lcAt[p] = "start" /\ lcPhases[p] \in Plans /\ ControlTypes /\ req \in LifeAsks
      /\ "start" \in PlacesOf(Head(lcPhases[p])) /\ lcPersist[p] \in {"unknown", "with"}
      /\ MayAnswerJson(req)
  BY <1>1, Going
<1>3. lcPhases[p] = <<"start">>
  <2>1. Head(lcPhases[p]) = "start"
    BY <1>2, HeadsOfPlans DEF PlacesOf, Searches
  <2> QED BY <1>2, <2>1 DEF Plans
<1>4. CASE /\ OthersNotice(p)
           /\ boxes' = [n \in BoxNames |-> IF n \in mine /\ ~Runs(n) THEN box(n) ELSE boxes[n]]
           /\ lcPersist' = [lcPersist EXCEPT ![p] = IF with THEN "started with" ELSE "started without"]
           /\ Returns(p, NoError, "")
  <2>1. /\ lcExcuse' \in [LifeProcs -> BOOLEAN]
        /\ \A q \in LifeProcs \ {p} : (lcExcuse[q] => lcExcuse'[q]) /\ (~Underway(q) \/ lcExcuse'[q])
        /\ lcExcuse'[p] = lcExcuse[p]
    BY <1>4 DEF OthersNotice, LifeInv, LifeTypes, DataTypes
  <2>2. with \in BOOLEAN
    BY <1>2 DEF LifeAsks
  <2>3. ASSUME NEW n \in mine PROVE box(n) \in Boxes
    <3>1. of(n) \in DOMAIN req.containers
      BY <2>3
    <3>2. req.containers[of(n)] \in Entries
      <4>1. req.containers \in Seq(Entries)
        BY <1>2 DEF LifeAsks
      <4> HIDE DEF of
      <4> QED BY <3>1, <4>1, EntriesTyped
    <3> HIDE DEF of, with
    <3> QED BY <2>2, <3>2 DEF Entries, Boxes
  <2>4. boxes' \in [BoxNames -> Boxes]
    <3> HIDE DEF mine, box
    <3> QED BY <1>4, <2>3 DEF LifeInv, LifeTypes, DataTypes
  <2>5. DataTypes'
    BY <1>1, <1>4, <2>1, <2>4 DEF LifeInv, LifeTypes, DataTypes
  <2>6. \A q \in LifeProcs \ {p} : /\ DataSame(q) /\ (lcExcuse[q] => lcExcuse'[q])
                                   /\ SameRunning \/ ~Underway(q) \/ lcExcuse'[q]
    BY <1>1, <1>4, <2>1 DEF DataSame, LifeInv, LifeTypes, DataTypes
  <2>7. Moves(p)
    BY <1>2, <1>4, ReturnsMoves
  <2>8. lcPersist'[p] = IF with THEN "started with" ELSE "started without"
    BY <1>4 DEF LifeInv, LifeTypes, DataTypes
  <2>9. ASSUME ~lcExcuse'[p] PROVE CarriedOver(p)'
    <3>1. CarriedInv(p)
      BY <1>2, <2>1, <2>9 DEF LifeInv, ProcInv, PersistInv
    <3>2. Carries(p)
      BY <1>2, <1>3, <3>1 DEF CarriedInv
    <3> QED BY <1>1, <1>2, <2>8, <3>2 DEF Carries, CarriedOver
  <2>10. ProcInv(p)'
    BY <1>1, <1>2, <1>4, <2>9, EndsWell
  <2> QED BY <1>1, <2>5, <2>6, <2>7, <2>10, LifeKept
<1>5. CASE Returns(p, Plain, "") /\ UNCHANGED <<boxes, lcPersist, lcExcuse>>
  <2>1. ProcInv(p)' /\ Moves(p)
    BY <1>1, <1>2, <1>5, QuietEnd
  <2> QED BY <1>1, <1>5, <2>1, QuietKept DEF Work
<1> QED BY <1>4, <1>5 DEF StartsBoxes

LEMMA AsksUserKeeps ==
  ASSUME LifeInv, NEW p \in LifeProcs, AsksUser(p)
  PROVE  LifeInv'
<1>1. LcAt(p, "confirm") /\ UNCHANGED <<lcReq, lcName, lcFound, lcPersist, lcHad, lcExcuse, boxes, volumes>>
  BY DEF AsksUser
<1>2. /\ Underway(p) /\ lcAt[p] = "confirm" /\ lcPhases[p] \in Plans /\ lcPersist[p] \in {"unknown", "with"}
      /\ "confirm" \in PlacesOf(Head(lcPhases[p]))
  BY <1>1, Going
<1>3. Head(lcPhases[p]) = "confirm"
  BY <1>2, HeadsOfPlans DEF PlacesOf, Searches
<1>4. lcYes' \in [LifeProcs -> BOOLEAN]
  BY DEF AsksUser, LifeInv, LifeTypes, DataTypes
<1>5. DataTypes'
  BY <1>1, <1>4 DEF LifeInv, LifeTypes, DataTypes
<1>6. \A q \in LifeProcs \ {p} : /\ DataSame(q) /\ (lcExcuse[q] => lcExcuse'[q])
                                 /\ SameRunning \/ ~Underway(q) \/ lcExcuse'[q]
  BY <1>1 DEF DataSame, SameRunning
<1>7. CASE PhaseOver(p)
  <2>1. ProcInv(p)' /\ Moves(p)
    BY <1>1, <1>2, <1>3, <1>7, QuietOver
  <2> QED BY <1>1, <1>5, <1>6, <2>1, LifeKept
<1>8. ASSUME NEW err \in {NoError, Plain}, Returns(p, err, "") PROVE LifeInv'
  <2>1. ProcInv(p)' /\ Moves(p)
    BY <1>1, <1>2, <1>8, QuietEnd
  <2> QED BY <1>1, <1>5, <1>6, <2>1, LifeKept
<1> QED BY <1>7, <1>8 DEF AsksUser

LEMMA ResetsKeeps ==
  ASSUME LifeInv, NEW p \in LifeProcs, Resets(p)
  PROVE  LifeInv'
<1>1. LcAt(p, "reset") /\ UNCHANGED <<lcReq, Work, volumes>>
  BY DEF Resets
<1>2. Underway(p) /\ lcAt[p] = "reset" /\ lcPersist[p] \in {"unknown", "with"}
  BY <1>1, Going
<1>3. UNCHANGED <<lcReq, lcName, lcFound, lcPersist, lcYes, lcHad, lcExcuse, volumes>>
  BY <1>1 DEF Work
<1>4. boxes' \in [BoxNames -> Boxes] /\ SameRunning
  <2>1. CASE boxes' = [n \in BoxNames |-> IF ~External(p) /\ n \in Listens(Subject(p))
                                          THEN [boxes[n] EXCEPT !.items = FALSE] ELSE boxes[n]]
    BY <2>1 DEF LifeInv, LifeTypes, DataTypes, Boxes, SameRunning
  <2>2. CASE UNCHANGED boxes
    BY <2>2 DEF LifeInv, LifeTypes, DataTypes, SameRunning
  <2> QED BY <2>1, <2>2 DEF Resets
<1>5. DataTypes'
  BY <1>3, <1>4 DEF LifeInv, LifeTypes, DataTypes
<1>6. \A q \in LifeProcs \ {p} : /\ DataSame(q) /\ (lcExcuse[q] => lcExcuse'[q])
                                 /\ SameRunning \/ ~Underway(q) \/ lcExcuse'[q]
  BY <1>3, <1>4 DEF DataSame
<1>7. PICK err \in {NoError, Plain} : Returns(p, err, "")
  BY DEF Resets
<1>8. ProcInv(p)' /\ Moves(p)
  BY <1>2, <1>3, <1>7, QuietEnd
<1> QED BY <1>3, <1>5, <1>6, <1>8, LifeKept

LEMMA ClearsVolumeKeeps ==
  ASSUME LifeInv, NEW p \in LifeProcs, ClearsVolume(p)
  PROVE  LifeInv'
<1>1. LcAt(p, "clear") /\ UNCHANGED <<lcReq, Work, boxes>>
  BY DEF ClearsVolume
<1>2. /\ Underway(p) /\ lcAt[p] = "clear" /\ lcPhases[p] \in Plans /\ lcPersist[p] \in {"unknown", "with"}
      /\ "clear" \in PlacesOf(Head(lcPhases[p])) /\ ControlTypes
  BY <1>1, Going
<1>3. UNCHANGED <<lcReq, lcName, lcFound, lcPersist, lcYes, lcHad, lcExcuse, boxes>>
  BY <1>1 DEF Work
<1>4. DataTypes'
  <2>1. volumes' \subseteq Kinds
    BY DEF ClearsVolume, LifeInv, LifeTypes, DataTypes
  <2> QED BY <1>3, <2>1 DEF LifeInv, LifeTypes, DataTypes
<1>5. \A q \in LifeProcs \ {p} : /\ DataSame(q) /\ (lcExcuse[q] => lcExcuse'[q])
                                 /\ SameRunning \/ ~Underway(q) \/ lcExcuse'[q]
  BY <1>3 DEF DataSame, SameRunning
<1>6. CASE lcIdx' = [lcIdx EXCEPT ![p] = @ + 1] /\ Busy(p) /\ UNCHANGED <<lcAt, lcPhases>>
  <2>1. lcIdx' \in [LifeProcs -> Nat \ {0}] /\ \A q \in LifeProcs \ {p} : lcIdx'[q] = lcIdx[q]
    <3>1. lcIdx[p] \in Nat \ {0} /\ lcIdx[p] + 1 \in Nat \ {0}
      BY <1>2 DEF ControlTypes
    <3> QED BY <1>2, <1>6, <3>1 DEF ControlTypes
  <2>2. UNCHANGED <<lcAt, lcPhases, lcSink, lcResult>>
    BY <1>6 DEF Busy
  <2>3. Moves(p)
    BY <1>2, <2>1, <2>2 DEF Moves, ControlTypes, ControlSame
  <2>4. lcPhases[p] # <<"persist", "stop", "start">>
    BY <1>2, SearchesFirst DEF PlacesOf, Searches
  <2>5. ProcInv(p)'
    BY <1>2, <1>3, <2>2, <2>4, StaysWell
  <2> QED BY <1>3, <1>4, <1>5, <2>3, <2>5, LifeKept
<1>7. ASSUME NEW err \in {NoError, Plain}, Returns(p, err, "") PROVE LifeInv'
  <2>1. ProcInv(p)' /\ Moves(p)
    BY <1>2, <1>3, <1>7, QuietEnd
  <2> QED BY <1>3, <1>4, <1>5, <2>1, LifeKept
<1> QED BY <1>6, <1>7 DEF ClearsVolume

LEMMA ShowsStatusKeeps ==
  ASSUME LifeInv, NEW p \in LifeProcs, ShowsStatus(p)
  PROVE  LifeInv'
<1>1. LcAt(p, "found") /\ Head(lcPhases[p]) = "status" /\ UNCHANGED <<lcReq, Work, boxes, volumes>>
  BY DEF ShowsStatus
<1>2. Underway(p) /\ lcAt[p] = "found" /\ lcPhases[p] \in Plans /\ ControlTypes /\ lcPersist[p] \in {"unknown", "with"}
  BY <1>1, Going
<1>3. lcPhases[p] # <<"persist", "stop", "start">>
  BY <1>1, SearchesFirst
<1>4. CASE NextSubject(p)
  <2>1. ProcInv(p)'
    BY <1>1, <1>2, <1>3, <1>4, NextWell DEF Work
  <2>2. Moves(p)
    BY <1>2, <1>4, NextSubjectMoves
  <2> QED BY <1>1, <2>1, <2>2, QuietKept
<1>5. CASE Returns(p, Plain, "")
  <2>1. ProcInv(p)' /\ Moves(p)
    BY <1>1, <1>2, <1>5, QuietEnd DEF Work
  <2> QED BY <1>1, <2>1, QuietKept
<1> QED BY <1>4, <1>5 DEF ShowsStatus

LEMMA FetchesStatusKeeps ==
  ASSUME LifeInv, NEW p \in LifeProcs, FetchesStatus(p)
  PROVE  LifeInv'
<1>1. LcAt(p, "fetch") /\ UNCHANGED <<lcReq, Work, boxes, volumes>>
  BY DEF FetchesStatus
<1>2. Underway(p) /\ lcAt[p] = "fetch" /\ lcPersist[p] \in {"unknown", "with"}
  BY <1>1, Going
<1>3. PICK err \in {NoError, Plain} : Returns(p, err, "")
  BY DEF FetchesStatus
<1>4. ProcInv(p)' /\ Moves(p)
  BY <1>1, <1>2, <1>3, QuietEnd DEF Work
<1> QED BY <1>1, <1>4, QuietKept

LEMMA DiscoversKeeps ==
  ASSUME LifeInv, NEW p \in LifeProcs, Discovers(p)
  PROVE  LifeInv'
<1>1. /\ LcAt(p, "found") /\ Head(lcPhases[p]) = "discover" /\ NextSubject(p)
      /\ UNCHANGED <<lcReq, lcName, lcPersist, lcYes, lcHad, lcExcuse, boxes, volumes>>
  BY DEF Discovers
<1>2. Underway(p) /\ lcAt[p] = "found" /\ lcPhases[p] \in Plans /\ ControlTypes
  BY <1>1, Going
<1>3. lcPhases[p] # <<"persist", "stop", "start">>
  BY <1>1, SearchesFirst
<1>4. ProcInv(p)'
  BY <1>1, <1>2, <1>3, NextWell
<1>5. Moves(p)
  BY <1>1, <1>2, NextSubjectMoves
<1>6. DataTypes'
  BY <1>1 DEF LifeInv, LifeTypes, DataTypes
<1>7. \A q \in LifeProcs \ {p} : /\ DataSame(q) /\ (lcExcuse[q] => lcExcuse'[q])
                                 /\ SameRunning \/ ~Underway(q) \/ lcExcuse'[q]
  BY <1>1 DEF DataSame, SameRunning
<1> QED BY <1>1, <1>4, <1>5, <1>6, <1>7, LifeKept

LEMMA InvokesExtensionKeeps ==
  ASSUME LifeInv, NEW p \in LifeProcs, InvokesExtension(p)
  PROVE  LifeInv'
<1>1. LcAt(p, "invoke") /\ UNCHANGED <<lcReq, Work, boxes, volumes, lcAt, lcPhases, lcIdx, lcSink>>
  BY DEF InvokesExtension
<1>2. /\ Underway(p) /\ lcAt[p] = "invoke" /\ lcPhases[p] \in Plans /\ ControlTypes /\ PlaceInv(p)
      /\ "invoke" \in PlacesOf(Head(lcPhases[p])) /\ lcPersist[p] \in {"unknown", "with"}
  BY <1>1, Going
<1>3. lcReq[p].cmd = "extension"
  <2>1. Head(lcPhases[p]) = "invoke"
    BY <1>2, HeadsOfPlans DEF PlacesOf, Searches
  <2> QED BY <1>2, <2>1 DEF PlaceInv
<1>4. PICK n \in {0, 2} : lcResult' = [lcResult EXCEPT ![p] =
                            [Unwrapped(IF n = 0 THEN NoError ELSE ToolExit(n)) EXCEPT !.reported = <<n>>]]
  BY DEF InvokesExtension
<1> DEFINE err == IF n = 0 THEN NoError ELSE ToolExit(n)
<1>5. CodeOfExit(err) = n /\ err.kind # "busy"
  BY DEF CodeOfExit, NoError, ToolExit
<1> HIDE DEF err
<1>6. lcResult'[p] = [err |-> err, out |-> <<>>, reported |-> <<n>>]
  BY <1>2, <1>4 DEF ControlTypes, Unwrapped, err
<1>7. lcResult'[p].err = err /\ lcResult'[p].out = <<>> /\ lcResult'[p].reported = <<n>>
  BY <1>6
<1>8. ~Underway(p)'
  BY <1>5, <1>7 DEF Underway
<1>9. OutcomeInv(p)'
  <2>1. PICK r, req, sink : r = lcResult'[p] /\ req = lcReq[p] /\ sink = lcSink[p]
    OBVIOUS
  <2>2. Honest(req, sink, r)
    BY <1>3, <1>5, <1>7, <2>1, HonestSilence
  <2> QED BY <1>1, <1>8, <2>1, <2>2 DEF OutcomeInv
<1>10. ProcInv(p)'
  BY <1>1, <1>2, <1>8, <1>9 DEF ProcInv, PersistInv, CarriedOver, Work
<1>11. Moves(p)
  BY <1>1, <1>2, <1>4 DEF Moves, ControlTypes, ControlSame
<1> QED BY <1>1, <1>10, <1>11, QuietKept

\* What others do to the containers excuses every command underway, unless
\* the ones that run are as they were.
LEMMA OthersKeep ==
  ASSUME LifeInv, Unhurt, boxes' \in [BoxNames -> Boxes],
         Noticed \/ (SameRunning /\ UNCHANGED lcExcuse)
  PROVE  LifeInv'
<1>1. /\ lcExcuse' \in [LifeProcs -> BOOLEAN]
      /\ \A q \in LifeProcs : (lcExcuse[q] => lcExcuse'[q]) /\ (SameRunning \/ ~Underway(q) \/ lcExcuse'[q])
  BY DEF Noticed, LifeInv, LifeTypes, DataTypes
<1>2. LifeTypes'
  BY <1>1 DEF Unhurt, LifeInv, LifeTypes, ControlTypes, DataTypes
<1>3. \A q \in LifeProcs : Undisturbed(q)
  BY <1>1 DEF Unhurt, Undisturbed, ControlSame, DataSame
<1>4. \A q \in LifeProcs : ProcInv(q)'
  BY <1>1, <1>3, UndisturbedKept
<1> QED BY <1>2, <1>4 DEF LifeInv

LEMMA BoxUsedKeeps ==
  ASSUME LifeInv, NEW n \in BoxNames, BoxUsed(n)
  PROVE  LifeInv'
<1>1. boxes' = [boxes EXCEPT ![n].items = TRUE] /\ Unhurt /\ UNCHANGED lcExcuse
  BY DEF BoxUsed
<1>2. boxes' \in [BoxNames -> Boxes] /\ SameRunning
  BY <1>1 DEF LifeInv, LifeTypes, DataTypes, Boxes, SameRunning
<1> QED BY <1>1, <1>2, OthersKeep

LEMMA NoBoxTyped == NoBox \in Boxes /\ NoBox.up = "gone"
BY DEF NoBox, Boxes, Kinds

LEMMA BoxGoesKeeps ==
  ASSUME LifeInv, NEW n \in BoxNames, BoxGoes(n)
  PROVE  LifeInv'
<1>1. boxes' = [boxes EXCEPT ![n] = NoBox] /\ Unhurt
  BY DEF BoxGoes
<1>2. boxes' \in [BoxNames -> Boxes]
  BY <1>1, NoBoxTyped DEF LifeInv, LifeTypes, DataTypes
<1>3. CASE boxes[n].up = "removing" /\ UNCHANGED lcExcuse
  <2>1. SameRunning
    BY <1>1, <1>3, NoBoxTyped DEF LifeInv, LifeTypes, DataTypes, SameRunning
  <2> QED BY <1>1, <1>2, <1>3, <2>1, OthersKeep
<1>4. CASE Noticed
  BY <1>1, <1>2, <1>4, OthersKeep
<1> QED BY <1>3, <1>4 DEF BoxGoes

LEMMA BoxComesKeeps ==
  ASSUME LifeInv, NEW n \in BoxNames, NEW box \in Boxes, BoxComes(n, box)
  PROVE  LifeInv'
<1>1. boxes' = [boxes EXCEPT ![n] = box] /\ Unhurt /\ Noticed
  BY DEF BoxComes
<1>2. boxes' \in [BoxNames -> Boxes]
  BY <1>1 DEF LifeInv, LifeTypes, DataTypes
<1> QED BY <1>1, <1>2, OthersKeep
-----------------------------------------------------------------------------
LEMMA OneIsPositive == 1 \in Nat \ {0}
OBVIOUS

LEMMA LifeInvInit == LifeInit => LifeInv
<1> SUFFICES ASSUME LifeInit PROVE LifeInv
  OBVIOUS
<1> USE DEF LifeInit
<1>1. lcReq \in [LifeProcs -> LifeAsks] /\ boxes \in [BoxNames -> Boxes]
  BY LifeConstants
<1>2. \A p \in LifeProcs : lcYes[p] \in BOOLEAN
  BY <1>1 DEF LifeAsks
<1>3. "begin" \in LifeStages
  BY DEF LifeStages
<1>4. ControlTypes
  <2>1. lcAt \in [LifeProcs -> LifeStages]
    BY <1>3
  <2>3. lcIdx \in [LifeProcs -> Nat \ {0}]
    BY OneIsPositive
  <2>4. DOMAIN lcPhases = LifeProcs /\ DOMAIN lcSink = LifeProcs /\ DOMAIN lcResult = LifeProcs
    OBVIOUS
  <2> QED BY <2>1, <2>3, <2>4 DEF ControlTypes
<1>5. DataTypes
  BY <1>1, <1>2 DEF DataTypes
<1>6. ASSUME NEW p \in LifeProcs PROVE ProcInv(p)
  <2>1. lcResult[p] = Starting /\ lcAt[p] = "begin" /\ lcPersist[p] = "unknown"
    BY DEF Starting, Unwrapped
  <2>3. Starting.err.kind = "busy"
    BY DEF Starting
  <2>2. Underway(p)
    BY <2>1, <2>3 DEF Underway
  <2> QED BY <2>1, <2>2 DEF ProcInv, PlaceInv, PersistInv, SearchInv, CarriedInv, OutcomeInv
<1> QED BY <1>1, <1>4, <1>5, <1>6 DEF LifeInv, LifeTypes

LEMMA LifeInvNext == LifeInv /\ [LifeNext]_lcVars => LifeInv'
<1> SUFFICES ASSUME LifeInv, [LifeNext]_lcVars PROVE LifeInv'
  OBVIOUS
<1>1. ASSUME NEW p \in LifeProcs, LifeStep(p) PROVE LifeInv'
  BY <1>1, BeginsKeeps, ChecksHealthKeeps, SkipsPhaseKeeps, AsksByNameKeeps, AsksByImageKeeps, ReadsEnvKeeps,
     StopsBoxKeeps, StopsLastKeeps, StartsBoxesKeeps, AsksUserKeeps, ResetsKeeps, ClearsVolumeKeeps,
     ShowsStatusKeeps, FetchesStatusKeeps, DiscoversKeeps, InvokesExtensionKeeps DEF LifeStep
<1>2. ASSUME NEW n \in BoxNames, BoxUsed(n) \/ BoxGoes(n) PROVE LifeInv'
  BY <1>2, BoxUsedKeeps, BoxGoesKeeps
<1>3. ASSUME NEW n \in BoxNames, BoxComes(n, [NoBox EXCEPT !.up = "running", !.port = 4566]) PROVE LifeInv'
  <2>1. \A port \in Nat : [NoBox EXCEPT !.up = "running", !.port = port] \in Boxes
    BY DEF NoBox, Boxes, Kinds
  <2>2. PICK port \in Nat : port = 4566
    OBVIOUS
  <2>3. BoxComes(n, [NoBox EXCEPT !.up = "running", !.port = port])
    BY <1>3, <2>2
  <2> QED BY <2>1, <2>3, BoxComesKeeps
<1>4. CASE UNCHANGED lcVars
  <2>1. UNCHANGED <<lcReq, lcName, lcFound, lcPersist, lcYes, lcHad, lcExcuse, boxes, volumes>>
        /\ UNCHANGED <<lcAt, lcPhases, lcIdx, lcSink, lcResult>>
    BY <1>4 DEF lcVars
  <2>2. Unhurt /\ SameRunning
    BY <2>1 DEF Unhurt, SameRunning
  <2>3. boxes' \in [BoxNames -> Boxes]
    BY <2>1 DEF LifeInv, LifeTypes, DataTypes
  <2> QED BY <2>1, <2>2, <2>3, OthersKeep
<1> QED BY <1>1, <1>2, <1>3, <1>4 DEF LifeNext

\* The inductive invariant holds of every run. (restart.go, stop.go, reset.go,
\* volume.go, status.go, extension.go, root.go)
THEOREM LifeInvariant == LifeSpec => []LifeInv
BY LifeInvInit, LifeInvNext, PTL DEF LifeSpec

\* The commands' state is well typed: what a search found is a name the
\* daemon knows, and entries are never passed below the first.
THEOREM LifeTyped == LifeSpec => []LifeTypeOK
<1>1. LifeInv => LifeTypeOK
  BY DEF LifeInv, LifeTypes, ControlTypes, DataTypes, LifeTypeOK, Boxes
<1> QED BY <1>1, LifeInvariant, PTL

\* A restart carries persistence over, whatever other commands run beside it
\* and however many entries it searches. (restart.go Run, start.go)
THEOREM RestartKeeps == LifeSpec => []RestartKeepsPersistence
<1>1. LifeInv => RestartKeepsPersistence
  <2> SUFFICES ASSUME LifeInv, NEW p \in LifeProcs, ~lcExcuse[p] PROVE CarriedOver(p)
    BY DEF RestartKeepsPersistence, CarriedOver
  <2>1. CASE Underway(p)
    BY <2>1 DEF LifeInv, ProcInv, PlaceInv, CarriedOver
  <2>2. CASE ~Underway(p)
    BY <2>2 DEF LifeInv, ProcInv, PersistInv
  <2> QED BY <2>1, <2>2
<1> QED BY <1>1, LifeInvariant, PTL

\* However a command ends, envelope, event and exit code tell one story.
\* (root.go, json_envelope.go, extension.go)
THEOREM OutcomesHonest == LifeSpec => []OutcomeReportedOnce
<1>1. LifeInv => OutcomeReportedOnce
  BY DEF LifeInv, ProcInv, OutcomeInv, OutcomeReportedOnce
<1> QED BY <1>1, LifeInvariant, PTL
-----------------------------------------------------------------------------
\* LogTail
\* The next slot, and the slots of one round from it on.
LEMMA AfterOne ==
  ASSUME NEW n \in Nat \ {0}, NEW a \in 0..(n - 1)
  PROVE  (a + 1) % n = IF a + 1 < n THEN a + 1 ELSE 0
<1>1. CASE a + 1 < n
  BY <1>1
<1>2. CASE a + 1 = n
  BY <1>2
<1> QED BY <1>1, <1>2

\* The ith slot of the round that starts behind a, in the round from a on.
IsRest(y, j, n) == y = j % n
IsBehind(n, a, b) == (a + 1 < n => b = a + 1) /\ (a + 1 >= n => b = 0)
InRound(n, a, i, y) == IF i = n THEN y = a ELSE y = (a + (i + 1) - 1) % n /\ y # a /\ y \in 0..(n - 1)
LEMMA OneRound ==
  ASSUME NEW n \in Nat \ {0}, NEW a \in 0..(n - 1), NEW b \in Nat, IsBehind(n, a, b),
         NEW i \in 1..n, NEW j \in Nat, j = b + i - 1, NEW y, IsRest(y, j, n)
  PROVE  InRound(n, a, i, y)
<1>0. j = b + i - 1 /\ y = j % n /\ (a + 1 < n => b = a + 1) /\ (a + 1 >= n => b = 0)
  BY DEF IsRest, IsBehind
<1>1. b \in 0..(n - 1) /\ a \in Nat /\ i \in Nat /\ b \in Nat
  BY <1>0
<1>2. j % n = IF b + i - 1 < n THEN b + i - 1 ELSE b + i - 1 - n
  <2>1. CASE b + i - 1 < n
    BY <1>0, <1>1, <2>1
  <2>2. CASE b + i - 1 >= n
    BY <1>0, <1>1, <2>2
  <2> QED BY <1>1, <2>1, <2>2
<1>3. ASSUME i < n PROVE (a + (i + 1) - 1) % n = IF a + (i + 1) - 1 < n THEN a + (i + 1) - 1 ELSE a + (i + 1) - 1 - n
  <2>1. CASE a + (i + 1) - 1 < n
    BY <1>1, <1>3, <2>1
  <2>2. CASE a + (i + 1) - 1 >= n
    BY <1>1, <1>3, <2>2
  <2> QED BY <1>1, <2>1, <2>2
<1>4. i = n => j % n = a
  BY <1>0, <1>1, <1>2
<1>5. ASSUME i < n PROVE j % n = (a + (i + 1) - 1) % n
  BY <1>0, <1>1, <1>2, <1>3, <1>5
<1>6. ASSUME i < n PROVE j % n # a /\ j % n \in 0..(n - 1)
  BY <1>0, <1>1, <1>2, <1>6
<1>7. i = n \/ i < n
  OBVIOUS
<1> QED BY <1>0, <1>4, <1>5, <1>6, <1>7 DEF InRound

\* A ring of n slots.
Ring(r, n) ==
  /\ r = [buf |-> r.buf, next |-> r.next, full |-> r.full]
  /\ r.buf \in [0..(n - 1) -> Nat] /\ r.next \in 0..(n - 1) /\ r.full \in BOOLEAN
LinesOf(r, n) == IF r.full THEN n ELSE r.next
OldestOf(r) == IF r.full THEN r.next ELSE 0

LEMMA RingShape ==
  ASSUME NEW n \in Nat \ {0}, NEW r, Ring(r, n)
  PROVE  /\ Slots(r) = n /\ RingLen(r) = LinesOf(r, n) /\ LinesOf(r, n) \in 0..n
         /\ Len(RingLines(r)) = LinesOf(r, n) /\ DOMAIN RingLines(r) = 1..LinesOf(r, n)
         /\ \A i \in 1..LinesOf(r, n) : RingLines(r)[i] = r.buf[(OldestOf(r) + i - 1) % n]
         /\ RingLines(r) \in Seq(Nat)
<1>1. Cardinality(0..(n - 1)) = n
  BY FS_Interval
<1>2. Slots(r) = n
  BY <1>1 DEF Slots, Ring
<1>3. RingLen(r) = LinesOf(r, n) /\ LinesOf(r, n) \in 0..n
  BY <1>2 DEF RingLen, LinesOf, Ring
<1>4. RingLines(r) = [i \in 1..LinesOf(r, n) |-> r.buf[(OldestOf(r) + i - 1) % n]]
  BY <1>2, <1>3 DEF RingLines, OldestOf
<1>5. ASSUME NEW i \in 1..LinesOf(r, n) PROVE (OldestOf(r) + i - 1) % n \in 0..(n - 1)
  <2>1. OldestOf(r) + i - 1 \in Nat
    BY <1>3 DEF OldestOf, Ring
  <2> QED BY <2>1
<1>6. RingLines(r) \in [1..LinesOf(r, n) -> Nat]
  BY <1>4, <1>5 DEF Ring
<1>7. LinesOf(r, n) \in Nat
  BY <1>3
<1> HIDE DEF RingLines
<1>8. RingLines(r) \in Seq(Nat) /\ Len(RingLines(r)) = LinesOf(r, n) /\ DOMAIN RingLines(r) = 1..LinesOf(r, n)
  BY <1>6, <1>7
<1> QED BY <1>2, <1>3, <1>4, <1>8

\* A line goes behind the others; in a full ring the oldest goes for it.
LEMMA RingAdds ==
  ASSUME NEW n \in Nat \ {0}, NEW r, Ring(r, n), NEW line \in Nat, NEW h, h = RingAdd(r, line)
  PROVE  /\ Ring(h, n)
         /\ LinesOf(h, n) = IF r.full THEN n ELSE LinesOf(r, n) + 1
         /\ \A i \in 1..LinesOf(h, n) :
              RingLines(h)[i] =
                IF i = LinesOf(h, n) THEN line ELSE RingLines(r)[IF r.full THEN i + 1 ELSE i]
<1>1. Slots(r) = n /\ r.next \in 0..(n - 1) /\ r.full \in BOOLEAN /\ r.buf \in [0..(n - 1) -> Nat]
  BY RingShape DEF Ring
<1>2. PICK next : next = (r.next + 1) % n
  OBVIOUS
<1>3. next = IF r.next + 1 < n THEN r.next + 1 ELSE 0
  BY <1>1, <1>2, AfterOne
<1>4. h = [buf |-> [r.buf EXCEPT ![r.next] = line], next |-> next, full |-> r.full \/ next = 0]
  BY <1>1, <1>2 DEF RingAdd
<1>5. /\ h.buf = [r.buf EXCEPT ![r.next] = line] /\ h.next = next /\ h.full = (r.full \/ next = 0)
      /\ h = [buf |-> h.buf, next |-> h.next, full |-> h.full]
  BY <1>4
<1>6. Ring(h, n)
  BY <1>1, <1>3, <1>5 DEF Ring
<1>7. LinesOf(h, n) = IF r.full THEN n ELSE LinesOf(r, n) + 1
  <2>1. CASE r.full
    BY <1>5, <2>1 DEF LinesOf
  <2>2. CASE ~r.full /\ next = 0
    <3>1. r.next + 1 = n
      BY <1>1, <1>3, <2>2
    <3> QED BY <1>5, <2>2, <3>1 DEF LinesOf
  <2>3. CASE ~r.full /\ next # 0
    <3>1. next = r.next + 1
      BY <1>1, <1>3, <2>3
    <3> QED BY <1>5, <2>3, <3>1 DEF LinesOf
  <2> QED BY <1>1, <2>1, <2>2, <2>3
<1>8. ASSUME NEW i \in 1..LinesOf(h, n)
      PROVE  RingLines(h)[i] = IF i = LinesOf(h, n) THEN line ELSE RingLines(r)[IF r.full THEN i + 1 ELSE i]
  <2>4. LinesOf(h, n) \in 0..n
    BY <1>6, RingShape
  <2>0. i \in 1..n
    BY <2>4
  <2>1. RingLines(h)[i] = h.buf[(OldestOf(h) + i - 1) % n]
    BY <1>6, RingShape
  <2>2. CASE ~r.full
    <3>1. OldestOf(h) = 0 /\ LinesOf(h, n) = r.next + 1 /\ OldestOf(r) = 0 /\ LinesOf(r, n) = r.next
      BY <1>1, <1>3, <1>5, <1>7, <2>2 DEF OldestOf, LinesOf
    <3>2. (0 + i - 1) % n = i - 1 /\ i - 1 \in 0..(n - 1)
      BY <2>0
    <3>3. RingLines(h)[i] = h.buf[i - 1]
      BY <2>1, <3>1, <3>2
    <3>4. CASE i = LinesOf(h, n)
      <4>1. i - 1 = r.next
        BY <1>1, <3>1, <3>4
      <4> QED BY <1>1, <1>5, <3>3, <3>4, <4>1
    <3>5. CASE i # LinesOf(h, n)
      <4>1. i - 1 # r.next /\ i \in 1..LinesOf(r, n)
        BY <1>1, <3>1, <3>5
      <4>2. RingLines(r)[i] = r.buf[i - 1]
        BY <3>1, <3>2, <4>1, RingShape
      <4>3. h.buf[i - 1] = r.buf[i - 1]
        BY <1>1, <1>5, <3>2, <4>1
      <4> QED BY <2>2, <3>3, <3>5, <4>2, <4>3
    <3> QED BY <3>4, <3>5
  <2>3. CASE r.full
    <3>1. h.full /\ OldestOf(h) = next /\ LinesOf(h, n) = n /\ LinesOf(r, n) = n /\ OldestOf(r) = r.next
      BY <1>5, <1>7, <2>3 DEF OldestOf, LinesOf
    <3>4. PICK y : y = (next + i - 1) % n
      OBVIOUS
    <3>5. RingLines(h)[i] = h.buf[y]
      BY <2>1, <3>1, <3>4
    <3>6. IF i = n THEN y = r.next ELSE y = (r.next + (i + 1) - 1) % n /\ y # r.next /\ y \in 0..(n - 1)
      <4>1. PICK a \in 0..(n - 1) : a = r.next
        BY <1>1
      <4>2. next \in Nat /\ IsBehind(n, a, next)
        BY <1>3, <4>1 DEF IsBehind
      <4>4. PICK j \in Nat : j = next + i - 1
        BY <2>0, <4>2
      <4>5. IsRest(y, j, n)
        BY <3>4, <4>4 DEF IsRest
      <4>3. InRound(n, a, i, y)
        BY <2>0, <4>2, <4>4, <4>5, OneRound
      <4> QED BY <4>1, <4>3 DEF InRound
    <3>2. CASE i = n
      BY <1>1, <1>5, <3>1, <3>2, <3>5, <3>6
    <3>3. CASE i # n
      <4>1. i + 1 \in 1..n
        BY <2>0, <3>3
      <4>2. RingLines(r)[i + 1] = r.buf[y]
        BY <3>1, <3>3, <3>6, <4>1, RingShape
      <4> QED BY <1>1, <1>5, <2>3, <3>1, <3>3, <3>5, <3>6, <4>2
    <3> QED BY <3>2, <3>3
  <2> QED BY <1>1, <2>2, <2>3
<1> QED BY <1>6, <1>7, <1>8
-----------------------------------------------------------------------------
\* t is s with line behind it and, if s has n already, without its first.
AddsLine(s, t, n, line) ==
  /\ s \in Seq(Nat) /\ t \in Seq(Nat) /\ Len(s) <= n
  /\ Len(t) = IF Len(s) = n THEN n ELSE Len(s) + 1
  /\ \A i \in 1..Len(t) : t[i] = IF i = Len(t) THEN line ELSE s[IF Len(s) = n THEN i + 1 ELSE i]

LEMMA RingAddsLine ==
  ASSUME NEW n \in Nat \ {0}, NEW r, Ring(r, n), NEW line \in Nat
  PROVE  Ring(RingAdd(r, line), n) /\ AddsLine(RingLines(r), RingLines(RingAdd(r, line)), n, line)
<1>1. PICK h : h = RingAdd(r, line)
  OBVIOUS
<1>2. /\ Ring(h, n) /\ LinesOf(h, n) = IF r.full THEN n ELSE LinesOf(r, n) + 1
      /\ \A i \in 1..LinesOf(h, n) :
           RingLines(h)[i] = IF i = LinesOf(h, n) THEN line ELSE RingLines(r)[IF r.full THEN i + 1 ELSE i]
  BY <1>1, RingAdds
<1>3. Len(RingLines(h)) = LinesOf(h, n) /\ RingLines(h) \in Seq(Nat)
  BY <1>2, RingShape
<1>4. Len(RingLines(r)) = LinesOf(r, n) /\ RingLines(r) \in Seq(Nat) /\ LinesOf(r, n) \in 0..n
  BY RingShape
<1>5. (LinesOf(r, n) = n) = r.full /\ r.full \in BOOLEAN
  BY DEF LinesOf, Ring
<1>6. AddsLine(RingLines(r), RingLines(h), n, line)
  <2>1. PICK s, t : s = RingLines(r) /\ t = RingLines(h)
    OBVIOUS
  <2>2. s \in Seq(Nat) /\ t \in Seq(Nat) /\ Len(s) <= n /\ Len(s) = LinesOf(r, n) /\ Len(t) = LinesOf(h, n)
    BY <1>3, <1>4, <2>1
  <2>3. Len(t) = IF Len(s) = n THEN n ELSE Len(s) + 1
    BY <1>2, <1>5, <2>2
  <2>4. \A i \in 1..Len(t) : t[i] = IF i = Len(t) THEN line ELSE s[IF Len(s) = n THEN i + 1 ELSE i]
    <3>1. \A i \in 1..Len(t) : t[i] = IF i = Len(t) THEN line ELSE s[IF r.full THEN i + 1 ELSE i]
      BY <1>2, <2>1, <2>2
    <3> QED BY <1>5, <2>2, <3>1
  <2> QED BY <2>1, <2>2, <2>3, <2>4 DEF AddsLine
<1> QED BY <1>1, <1>2, <1>6

LEMMA LastWithOneMore ==
  ASSUME NEW n \in Nat \ {0}, NEW S \in SUBSET Nat, NEW line \in Nat, \A x \in S : x < line,
         NEW s, NEW t, LastOf(s, S, n), AddsLine(s, t, n, line)
  PROVE  LastOf(t, S \cup {line}, n)
<1>1. /\ s \in Seq(Nat) /\ t \in Seq(Nat) /\ Len(s) <= n /\ Len(s) \in Nat /\ Len(t) \in Nat
      /\ DOMAIN s = 1..Len(s) /\ DOMAIN t = 1..Len(t)
      /\ Len(t) = IF Len(s) = n THEN n ELSE Len(s) + 1
      /\ \A i \in 1..Len(t) : t[i] = IF i = Len(t) THEN line ELSE s[IF Len(s) = n THEN i + 1 ELSE i]
  BY DEF AddsLine
<1>2. /\ \A i, j \in 1..Len(s) : i < j => s[i] < s[j]
      /\ \A i \in 1..Len(s) : s[i] \in S
      /\ \A x \in S : (\A i \in 1..Len(s) : s[i] # x) => Len(s) = n /\ \A i \in 1..Len(s) : x < s[i]
  BY <1>1 DEF LastOf, Ascending, Members
<1>a. PICK ls \in Nat, lt \in Nat : ls = Len(s) /\ lt = Len(t)
  BY <1>1
<1>b. ls <= n /\ lt = IF ls = n THEN n ELSE ls + 1
  BY <1>1, <1>a
<1>c. ASSUME NEW i \in 1..lt PROVE t[i] = IF i = lt THEN line ELSE s[IF ls = n THEN i + 1 ELSE i]
  BY <1>1, <1>a
<1>3. Len(t) >= 1 /\ Len(t) <= n /\ t[Len(t)] = line
  <2>1. lt >= 1 /\ lt <= n /\ lt \in 1..lt
    BY <1>b
  <2>2. t[lt] = line
    BY <1>c, <2>1
  <2> QED BY <1>a, <2>1, <2>2
<1>4. ASSUME NEW i \in 1..Len(t), i # Len(t) PROVE \E k \in 1..Len(s) : t[i] = s[k] /\ k = (IF Len(s) = n THEN i + 1 ELSE i)
  <2>0. i \in 1..lt /\ i # lt
    BY <1>4, <1>a
  <2>1. PICK k : k = IF ls = n THEN i + 1 ELSE i
    OBVIOUS
  <2>2. k \in 1..ls
    BY <1>b, <2>0, <2>1
  <2>3. t[i] = s[k]
    BY <1>c, <2>0, <2>1
  <2> QED BY <1>a, <2>1, <2>2, <2>3
<1>5. ASSUME NEW i \in 1..Len(t), NEW j \in 1..Len(t), i < j PROVE t[i] < t[j]
  <2>1. PICK k \in 1..Len(s) : t[i] = s[k] /\ k = (IF Len(s) = n THEN i + 1 ELSE i)
    BY <1>4, <1>5
  <2>2. CASE j = Len(t)
    BY <1>2, <1>3, <2>1, <2>2
  <2>3. CASE j # Len(t)
    <3>1. PICK m \in 1..Len(s) : t[j] = s[m] /\ m = (IF Len(s) = n THEN j + 1 ELSE j)
      BY <1>4, <2>3
    <3>2. k < m
      BY <1>5, <2>1, <3>1
    <3> QED BY <1>2, <2>1, <3>1, <3>2
  <2> QED BY <2>2, <2>3
<1>6. ASSUME NEW i \in 1..Len(t) PROVE t[i] \in S \cup {line}
  BY <1>2, <1>3, <1>4
<1>7. ASSUME NEW x \in S \cup {line}, \A i \in 1..Len(t) : t[i] # x
      PROVE  Len(t) = n /\ \A i \in 1..Len(t) : x < t[i]
  <2>1. x \in S /\ x < line
    BY <1>3, <1>7
  <2>2. CASE \A i \in 1..Len(s) : s[i] # x
    <3>1. Len(s) = n /\ \A i \in 1..Len(s) : x < s[i]
      BY <1>2, <2>1, <2>2
    <3> QED BY <1>1, <1>3, <1>4, <2>1, <3>1
  <2>3. CASE \E i \in 1..Len(s) : s[i] = x
    <3>1. PICK k \in 1..Len(s) : s[k] = x
      BY <2>3
    <3>2. Len(s) = n /\ k = 1
      <4>1. CASE Len(s) # n
        <5>1. k \in 1..Len(t) /\ k # Len(t)
          BY <1>a, <1>b, <4>1
        <5>2. PICK m \in 1..Len(s) : t[k] = s[m] /\ m = (IF Len(s) = n THEN k + 1 ELSE k)
          BY <1>4, <5>1
        <5>3. t[k] = s[k]
          BY <4>1, <5>2
        <5> QED BY <1>7, <3>1, <5>1, <5>3
      <4>2. CASE Len(s) = n /\ k # 1
        <5>1. k - 1 \in 1..Len(t) /\ k - 1 # Len(t) /\ (k - 1) + 1 = k
          BY <1>1, <4>2
        <5>2. PICK i \in 1..Len(t) : i = k - 1
          BY <5>1
        <5>4. PICK m \in 1..Len(s) : t[i] = s[m] /\ m = (IF Len(s) = n THEN i + 1 ELSE i)
          BY <1>4, <5>1, <5>2
        <5>3. t[i] = s[k]
          BY <4>2, <5>1, <5>2, <5>4
        <5> QED BY <1>7, <3>1, <5>3
      <4> QED BY <4>1, <4>2
    <3>3. Len(t) = n
      BY <1>1, <3>2
    <3>4. ASSUME NEW i \in 1..Len(t) PROVE x < t[i]
      <4>1. CASE i = Len(t)
        BY <1>3, <2>1, <4>1
      <4>2. CASE i # Len(t)
        <5>1. PICK m \in 1..Len(s) : t[i] = s[m] /\ m = i + 1
          BY <1>4, <3>2, <4>2
        <5> QED BY <1>2, <3>1, <3>2, <5>1
      <4> QED BY <4>1, <4>2
    <3> QED BY <3>3, <3>4
  <2> QED BY <2>2, <2>3
<1>8. Ascending(t)
  BY <1>1, <1>5 DEF Ascending
<1>9. Members(t) \subseteq S \cup {line}
  BY <1>1, <1>6 DEF Members
<1>10. \A x \in (S \cup {line}) \ Members(t) : Len(t) = n /\ \A y \in Members(t) : x < y
  BY <1>1, <1>7 DEF Members
<1> QED BY <1>3, <1>8, <1>9, <1>10 DEF LastOf

\* Nothing is the last of nothing, and what is the last of a part is the last
\* of the whole if it is as many as asked for.
LEMMA LastOfNothing ==
  ASSUME NEW n \in Nat
  PROVE  LastOf(<<>>, {}, n) /\ Ascending(<<>>) /\ Members(<<>>) = {}
BY DEF LastOf, Ascending, Members

LEMMA LastOfMore ==
  ASSUME NEW n \in Nat, NEW S, NEW T \in SUBSET Nat, S \subseteq T, NEW s, LastOf(s, S, n), Len(s) = n,
         \A x \in T \ S : \A y \in S : x < y
  PROVE  LastOf(s, T, n)
BY DEF LastOf
-----------------------------------------------------------------------------
\* The suffix of the log that is read, the ring of a pass that runs, what is
\* printed and what the streams begin with.
LogTyped ==
  /\ ltReq \in LogRequests /\ ltReq.tail \in Nat
  /\ ltLog \in Seq(LineKinds) /\ Len(ltLog) \in 0..MaxLines
  /\ ltRead = [from |-> ltRead.from, to |-> ltRead.to]
  /\ ltRead.from \in Nat \ {0} /\ ltRead.to \in Nat
  /\ ltRead.from <= ltRead.to + 1 /\ ltRead.to <= Len(ltLog)
  /\ ltFetch \in Nat
Printed ==
  /\ ltPrinted \in Seq(Nat) /\ Ascending(ltPrinted) /\ Members(ltPrinted) \subseteq 1..ltRead.to
BeginInv == LtAt("begin") => ltPrinted = <<>> /\ ltFetch = 0
PassInv ==
  LtAt("pass") =>
    /\ ltPrinted = <<>> /\ ltFetch > 0 /\ ltReq.tail > 0
    /\ Ring(ltRing, ltReq.tail)
    /\ LastOf(RingLines(ltRing), Survivors(ltRead.from, ltRead.to), ltReq.tail)
    /\ ltRead.from = 1 \/ (~Unbounded(ltFetch) /\ ltRead.from + ltFetch - 1 <= Len(ltLog))
BacklogInv ==
  ltFetch > 0 /\ (ltAt = "follow" \/ (ltAt = "pass" /\ ltEnd = "done")) =>
    LastOf(ltPrinted, Survivors(1, ltRead.to), ltReq.tail)
FollowInv == ltAt = "follow" /\ ltFetch = 0 => ltReq.tail = 0
StreamInv ==
  ltAt = "stream" /\ ltFetch = 0 /\ ltReq.tail = AllLines /\ ~ltReq.verbose =>
    Members(ltPrinted) = Survivors(1, ltRead.to)
LogInv ==
  LogTyped /\ Printed /\ BeginInv /\ PassInv /\ BacklogInv /\ FollowInv /\ StreamInv

\* A stream that is opened begins behind what is there, or as far back as its
\* tail reaches.
LEMMA StreamOpens ==
  ASSUME LogConstants, LogTyped, NEW tail \in Nat, OpensAt(tail)
  PROVE  /\ ltRead' = [from |-> ltRead'.from, to |-> ltRead'.to]
         /\ ltRead'.from \in Nat \ {0} /\ ltRead'.to \in Nat /\ ltRead'.from = ltRead'.to + 1
         /\ ltRead'.to <= Len(ltLog)
         /\ ltRead'.from = 1 \/ ltRead'.from + tail - 1 = Len(ltLog)
         /\ tail > MaxLines => ltRead'.from = 1
         /\ tail = 0 => ltRead'.to = Len(ltLog)
<1>1. PICK f, t : /\ f = (IF tail < Len(ltLog) THEN Len(ltLog) - tail + 1 ELSE 1)
                  /\ t = (IF tail < Len(ltLog) THEN Len(ltLog) - tail ELSE 0)
  OBVIOUS
<1>2. ltRead' = [from |-> f, to |-> t]
  BY <1>1 DEF OpensAt
<1>3. Len(ltLog) \in Nat /\ Len(ltLog) <= MaxLines /\ MaxLines \in Nat
  BY DEF LogTyped, LogConstants
<1> QED BY <1>1, <1>2, <1>3

LEMMA NoSurvivors ==
  ASSUME NEW a \in Nat, NEW b \in Nat, a = b + 1
  PROVE  Survivors(a, b) = {}
BY DEF Survivors

LEMMA MoreSurvivors ==
  ASSUME NEW a \in Nat, NEW b \in Nat, a <= b + 1, NEW c, c = b + 1
  PROVE  Survivors(a, c) = IF ShouldFilter(ltLog[c]) THEN Survivors(a, b) ELSE Survivors(a, b) \cup {c}
BY DEF Survivors

\* What the emulator writes does not change the lines that are there.
LEMMA SurvivorsStay ==
  ASSUME LogTyped, ltLog' = ltLog \/ \E k \in LineKinds : ltLog' = Append(ltLog, k),
         NEW a \in Nat \ {0}, NEW b \in Nat, b <= Len(ltLog)
  PROVE  {n \in a..b : ~ShouldFilter(ltLog'[n])} = Survivors(a, b)
<1>1. ASSUME NEW n \in a..b PROVE ltLog'[n] = ltLog[n]
  BY DEF LogTyped
<1> QED BY <1>1 DEF Survivors

LEMMA LogInitHolds ==
  ASSUME LogConstants, LogInit
  PROVE  LogInv
<1>1. PICK n \in 0..MaxLines : ltLog \in [1..n -> LineKinds]
  BY DEF LogInit
<1>2. ltLog \in Seq(LineKinds) /\ Len(ltLog) = n
  BY <1>1
<1>3. LogTyped
  BY <1>2 DEF LogInit, LogTyped, LogConstants
<1>4. Printed
  BY LastOfNothing DEF LogInit, Printed
<1> QED BY <1>3, <1>4 DEF LogInit, LogInv, BeginInv, PassInv, BacklogInv, FollowInv, StreamInv, LtAt

\* Nothing that bears on the lines of a pass or a backlog changes.
LEMMA EmulatorLogsKeeps ==
  ASSUME LogConstants, LogInv, NEW kind \in LineKinds, EmulatorLogs(kind)
  PROVE  LogInv'
<1>0. /\ LogTyped /\ Printed /\ BeginInv /\ PassInv /\ BacklogInv /\ FollowInv /\ StreamInv
      /\ ltLog' = Append(ltLog, kind) /\ Len(ltLog) < MaxLines
      /\ ltReq' = ltReq /\ ltAt' = ltAt /\ ltEnd' = ltEnd /\ ltFetch' = ltFetch
      /\ ltRead' = ltRead /\ ltRing' = ltRing /\ ltPrinted' = ltPrinted
  BY DEF LogInv, EmulatorLogs
<1>1. ltLog' \in Seq(LineKinds) /\ Len(ltLog') = Len(ltLog) + 1 /\ Len(ltLog) \in Nat /\ MaxLines \in Nat
  BY <1>0 DEF LogTyped, LogConstants
<1>2. LogTyped'
  BY <1>0, <1>1 DEF LogTyped
<1>3. /\ Survivors(ltRead.from, ltRead.to)' = Survivors(ltRead.from, ltRead.to)
      /\ Survivors(1, ltRead.to)' = Survivors(1, ltRead.to)
  BY <1>0, SurvivorsStay DEF Survivors, LogTyped
<1>4. Printed' /\ BeginInv' /\ FollowInv'
  BY <1>0 DEF Printed, BeginInv, FollowInv, LtAt
<1>5. PassInv'
  <2> SUFFICES ASSUME LtAt("pass") PROVE PassInv'
    BY <1>0 DEF PassInv, LtAt
  <2>1. ltRead.from = 1 \/ (~Unbounded(ltFetch) /\ ltRead.from + ltFetch - 1 <= Len(ltLog'))
    BY <1>0, <1>1 DEF PassInv, LogTyped
  <2> QED BY <1>0, <1>3, <2>1 DEF PassInv, Unbounded, LtAt
<1>6. BacklogInv' /\ StreamInv'
  BY <1>0, <1>3 DEF BacklogInv, StreamInv
<1> QED BY <1>2, <1>4, <1>5, <1>6 DEF LogInv

\* Every pass begins with an empty ring.
LEMMA PassOpens ==
  ASSUME LogConstants, LogTyped, ltLog' = ltLog, ltReq' = ltReq, ltPrinted' = <<>>, ltAt' = "pass", ltEnd' = "busy",
         ltReq.tail > 0, ltFetch' \in Nat \ {0}, OpensAt(TailOf(ltFetch')),
         Ring(ltRing', ltReq.tail), ltRing'.full = FALSE, ltRing'.next = 0
  PROVE  LogInv'
<1>1. TailOf(ltFetch') \in Nat /\ MaxLines \in Nat /\ ltReq.tail \in Nat \ {0}
  BY DEF TailOf, AllLines, LogConstants, LogTyped
<1>2. /\ ltRead' = [from |-> ltRead'.from, to |-> ltRead'.to]
      /\ ltRead'.from \in Nat \ {0} /\ ltRead'.to \in Nat /\ ltRead'.from = ltRead'.to + 1
      /\ ltRead'.to <= Len(ltLog)
      /\ ltRead'.from = 1 \/ ltRead'.from + TailOf(ltFetch') - 1 = Len(ltLog)
      /\ TailOf(ltFetch') > MaxLines => ltRead'.from = 1
  BY <1>1, StreamOpens
<1>3. LogTyped'
  BY <1>2 DEF LogTyped
<1>4. Printed'
  BY LastOfNothing DEF Printed
<1>5. Survivors(ltRead.from, ltRead.to)' = {}
  BY <1>2 DEF Survivors
<1>6. RingLines(ltRing') = <<>>
  <2>1. LinesOf(ltRing', ltReq.tail) = 0
    BY DEF LinesOf
  <2>2. Len(RingLines(ltRing')) = 0 /\ RingLines(ltRing') \in Seq(Nat)
    BY <1>1, <2>1, RingShape
  <2> QED BY <2>2
<1>7. ltRead'.from = 1 \/ (~Unbounded(ltFetch') /\ ltRead'.from + ltFetch' - 1 <= Len(ltLog))
  <2>1. CASE Unbounded(ltFetch')
    BY <1>1, <1>2, <2>1 DEF TailOf, AllLines
  <2>2. CASE ~Unbounded(ltFetch')
    BY <1>1, <1>2, <2>2 DEF TailOf, LogTyped
  <2> QED BY <2>1, <2>2
<1>8. LastOf(RingLines(ltRing'), Survivors(ltRead.from, ltRead.to)', ltReq'.tail)
  BY <1>1, <1>5, <1>6, LastOfNothing
<1>9. PassInv'
  BY <1>1, <1>7, <1>8 DEF PassInv, Unbounded
<1>10. BeginInv' /\ BacklogInv' /\ FollowInv' /\ StreamInv'
  BY DEF BeginInv, BacklogInv, FollowInv, StreamInv, LtAt
<1> QED BY <1>3, <1>4, <1>9, <1>10 DEF LogInv

LEMMA StartsLogsKeeps ==
  ASSUME LogConstants, LogInv, StartsLogs
  PROVE  LogInv'
<1>0. /\ LogTyped /\ Printed /\ BeginInv /\ PassInv /\ BacklogInv /\ FollowInv /\ StreamInv
      /\ LtAt("begin") /\ ltPrinted = <<>> /\ ltFetch = 0
      /\ ltReq' = ltReq /\ ltLog' = ltLog /\ ltPrinted' = <<>>
  BY DEF LogInv, StartsLogs, BeginInv
<1>1. CASE ltFetch' = ltFetch /\ ltRead' = ltRead /\ ltAt' = "begin" /\ ltEnd' # "busy"
  BY <1>0, <1>1, LastOfNothing
  DEF LogInv, LogTyped, Printed, BeginInv, PassInv, BacklogInv, FollowInv, StreamInv, LtAt
<1>2. CASE LtGo("stream") /\ OpensAt(ltReq.tail) /\ ltFetch' = ltFetch /\ (ltReq.tail = AllLines \/ ltReq.verbose)
  <2>1. /\ ltRead' = [from |-> ltRead'.from, to |-> ltRead'.to]
        /\ ltRead'.from \in Nat \ {0} /\ ltRead'.to \in Nat /\ ltRead'.from = ltRead'.to + 1
        /\ ltRead'.to <= Len(ltLog)
        /\ ltReq.tail > MaxLines => ltRead'.from = 1
    BY <1>0, <1>2, StreamOpens DEF LogTyped
  <2>2. LogTyped' /\ Printed'
    BY <1>0, <1>2, <2>1, LastOfNothing DEF LogTyped, Printed
  <2>3. ASSUME ltReq.tail = AllLines PROVE Survivors(1, ltRead.to)' = {}
    BY <2>1, <2>3 DEF Survivors, AllLines, LogConstants
  <2>4. StreamInv'
    BY <1>0, <2>3, LastOfNothing DEF StreamInv, AllLines
  <2> QED BY <1>0, <1>2, <2>2, <2>4 DEF LogInv, BeginInv, PassInv, BacklogInv, FollowInv, LtAt, LtGo
<1>3. CASE /\ ltReq.tail = 0 /\ ltFetch' = ltFetch /\ ltRead' = ltRead
           /\ IF ltReq.follow THEN LtGo("follow") ELSE LtStop("done")
  <2>1. (ltAt' = "follow" \/ ltAt' = "begin") /\ ~(ltAt' = "begin" /\ ltEnd' = "busy")
    BY <1>0, <1>3 DEF LtGo, LtStop, LtAt
  <2>2. LogTyped' /\ Printed'
    BY <1>0, <1>3 DEF LogTyped, Printed
  <2> QED BY <1>0, <1>3, <2>1, <2>2 DEF LogInv, BeginInv, PassInv, BacklogInv, FollowInv, StreamInv, LtAt
<1>4. CASE /\ ltReq.tail # 0 /\ LtGo("pass") /\ ltFetch' = ltReq.tail * BacklogFetchFactor
           /\ ltRing' = NewLineRing(ltReq.tail) /\ OpensAt(TailOf(ltReq.tail * BacklogFetchFactor))
  <2>1. ltReq.tail \in Nat \ {0} /\ BacklogFetchFactor \in Nat \ {0}
    BY <1>0, <1>4 DEF LogTyped, LogConstants
  <2>2. ltFetch' \in Nat \ {0}
    BY <1>4, <2>1
  <2>3. Ring(ltRing', ltReq.tail) /\ ltRing'.full = FALSE /\ ltRing'.next = 0
    BY <1>4, <2>1 DEF NewLineRing, Ring
  <2>4. ltAt' = "pass" /\ ltEnd' = "busy" /\ OpensAt(TailOf(ltFetch'))
    BY <1>0, <1>4 DEF LtGo, LtAt
  <2>5. ltReq.tail > 0
    BY <2>1
  <2> QED BY <1>0, <2>2, <2>3, <2>4, <2>5, PassOpens
<1>5. \/ ltFetch' = ltFetch /\ ltRead' = ltRead /\ ltAt' = "begin" /\ ltEnd' # "busy"
      \/ LtGo("stream") /\ OpensAt(ltReq.tail) /\ ltFetch' = ltFetch /\ (ltReq.tail = AllLines \/ ltReq.verbose)
      \/ /\ ltReq.tail = 0 /\ ltFetch' = ltFetch /\ ltRead' = ltRead
         /\ IF ltReq.follow THEN LtGo("follow") ELSE LtStop("done")
      \/ /\ ltReq.tail # 0 /\ LtGo("pass") /\ ltFetch' = ltReq.tail * BacklogFetchFactor
         /\ ltRing' = NewLineRing(ltReq.tail) /\ OpensAt(TailOf(ltReq.tail * BacklogFetchFactor))
  BY <1>0 DEF StartsLogs, LtStop, LtAt
<1> QED BY <1>1, <1>2, <1>3, <1>4, <1>5

LEMMA ReadsLineKeeps ==
  ASSUME LogConstants, LogInv, ReadsLine
  PROVE  LogInv'
<1>1. PICK n : n = ltRead.to + 1
  OBVIOUS
<1>0. /\ LogTyped /\ Printed /\ BeginInv /\ PassInv /\ BacklogInv /\ FollowInv /\ StreamInv
      /\ LtAt("pass") /\ n <= Len(ltLog)
      /\ ltRead' = [ltRead EXCEPT !.to = n]
      /\ ltRing' = (IF ShouldFilter(ltLog[n]) THEN ltRing ELSE RingAdd(ltRing, n))
      /\ ltReq' = ltReq /\ ltAt' = ltAt /\ ltEnd' = ltEnd /\ ltLog' = ltLog /\ ltFetch' = ltFetch
      /\ ltPrinted' = ltPrinted
  BY <1>1 DEF LogInv, ReadsLine
<1>2. /\ ltRead' = [from |-> ltRead'.from, to |-> ltRead'.to] /\ ltRead'.from = ltRead.from /\ ltRead'.to = n
      /\ n \in Nat /\ ltRead.from \in Nat \ {0} /\ ltRead.to \in Nat /\ ltRead.from <= ltRead.to + 1
      /\ ltReq.tail \in Nat \ {0}
  BY <1>0, <1>1 DEF LogTyped, PassInv
<1>3. LogTyped'
  BY <1>0, <1>1, <1>2 DEF LogTyped
<1>4. /\ ltPrinted = <<>> /\ ltFetch > 0 /\ Ring(ltRing, ltReq.tail)
      /\ LastOf(RingLines(ltRing), Survivors(ltRead.from, ltRead.to), ltReq.tail)
      /\ ltRead.from = 1 \/ (~Unbounded(ltFetch) /\ ltRead.from + ltFetch - 1 <= Len(ltLog))
  BY <1>0 DEF PassInv
<1>5. Printed'
  BY <1>0, <1>4, LastOfNothing DEF Printed
<1>6. Survivors(ltRead.from, ltRead.to)' =
        IF ShouldFilter(ltLog[n]) THEN Survivors(ltRead.from, ltRead.to) ELSE Survivors(ltRead.from, ltRead.to) \cup {n}
  <2>1. Survivors(ltRead.from, n) =
          IF ShouldFilter(ltLog[n]) THEN Survivors(ltRead.from, ltRead.to) ELSE Survivors(ltRead.from, ltRead.to) \cup {n}
    <3>1. PICK a \in Nat, b \in Nat : a = ltRead.from /\ b = ltRead.to
      BY <1>2
    <3>2. a <= b + 1 /\ n = b + 1
      BY <1>1, <1>2, <3>1
    <3>3. Survivors(a, n) = IF ShouldFilter(ltLog[n]) THEN Survivors(a, b) ELSE Survivors(a, b) \cup {n}
      BY <3>2, MoreSurvivors
    <3> QED BY <3>1, <3>3
  <2> QED BY <1>0, <1>2, <2>1 DEF Survivors
<1>7. Ring(ltRing', ltReq.tail) /\ LastOf(RingLines(ltRing'), Survivors(ltRead.from, ltRead.to)', ltReq.tail)
  <2>1. CASE ShouldFilter(ltLog[n])
    BY <1>0, <1>4, <1>6, <2>1
  <2>2. CASE ~ShouldFilter(ltLog[n])
    <3>1. Survivors(ltRead.from, ltRead.to) \in SUBSET Nat /\ \A x \in Survivors(ltRead.from, ltRead.to) : x < n
      BY <1>1, <1>2 DEF Survivors
    <3>2. Ring(RingAdd(ltRing, n), ltReq.tail) /\ AddsLine(RingLines(ltRing), RingLines(RingAdd(ltRing, n)), ltReq.tail, n)
      BY <1>2, <1>4, RingAddsLine
    <3>3. LastOf(RingLines(RingAdd(ltRing, n)), Survivors(ltRead.from, ltRead.to) \cup {n}, ltReq.tail)
      BY <1>2, <1>4, <3>1, <3>2, LastWithOneMore
    <3> QED BY <1>0, <1>6, <2>2, <3>2, <3>3
  <2> QED BY <2>1, <2>2
<1>8. PassInv'
  BY <1>0, <1>2, <1>4, <1>7 DEF PassInv, Unbounded
<1>9. BeginInv' /\ BacklogInv' /\ FollowInv' /\ StreamInv'
  BY <1>0 DEF BeginInv, BacklogInv, FollowInv, StreamInv, LtAt
<1> QED BY <1>3, <1>5, <1>8, <1>9 DEF LogInv

\* A pass that is enough holds the last lines of the whole log.
LEMMA EnoughIsAll ==
  ASSUME LogConstants, LogTyped, PassInv, LtAt("pass"), ltRead.to = Len(ltLog),
         Enough(ltRead.to - ltRead.from + 1, ltRing)
  PROVE  LastOf(RingLines(ltRing), Survivors(1, ltRead.to), ltReq.tail)
<1>1. /\ ltFetch > 0 /\ ltReq.tail \in Nat \ {0} /\ Ring(ltRing, ltReq.tail)
      /\ LastOf(RingLines(ltRing), Survivors(ltRead.from, ltRead.to), ltReq.tail)
      /\ ltRead.from = 1 \/ (~Unbounded(ltFetch) /\ ltRead.from + ltFetch - 1 <= Len(ltLog))
      /\ ltRead.from \in Nat \ {0} /\ ltRead.to \in Nat /\ ltFetch \in Nat
  BY DEF PassInv, LogTyped
<1>2. CASE ltRead.from = 1
  BY <1>1, <1>2
<1>3. CASE ltRead.from # 1
  <2>1. RingLen(ltRing) = ltReq.tail
    <3>1. ~(ltRead.to - ltRead.from + 1 < ltFetch)
      BY <1>1, <1>3
    <3> QED BY <1>1, <1>3, <3>1 DEF Enough
  <2>2. Len(RingLines(ltRing)) = ltReq.tail
    BY <1>1, <2>1, RingShape
  <2>3. PICK S, T : S = Survivors(ltRead.from, ltRead.to) /\ T = Survivors(1, ltRead.to)
    OBVIOUS
  <2>4. S \subseteq T /\ T \in SUBSET Nat /\ \A x \in T \ S : \A y \in S : x < y
    BY <1>1, <2>3 DEF Survivors
  <2> QED BY <1>1, <2>2, <2>3, <2>4, LastOfMore
<1> QED BY <1>2, <1>3

LEMMA PassEndsKeeps ==
  ASSUME LogConstants, LogInv, PassEnds
  PROVE  LogInv'
<1>1. PICK raw : raw = ltRead.to - ltRead.from + 1
  OBVIOUS
<1>0. /\ LogTyped /\ Printed /\ BeginInv /\ PassInv /\ BacklogInv /\ FollowInv /\ StreamInv
      /\ LtAt("pass") /\ ltRead.to = Len(ltLog) /\ ltReq' = ltReq /\ ltLog' = ltLog
      /\ ltPrinted = <<>> /\ ltFetch > 0 /\ Ring(ltRing, ltReq.tail) /\ ltReq.tail \in Nat \ {0}
      /\ ltFetch \in Nat
  BY DEF LogInv, PassEnds, PassInv, LogTyped
<1>2. CASE /\ Enough(raw, ltRing) /\ ltPrinted' = RingLines(ltRing)
           /\ IF ltReq.follow THEN LtGo("follow") ELSE LtStop("done")
           /\ ltFetch' = ltFetch /\ ltRead' = ltRead /\ ltRing' = ltRing
  <2>1. LastOf(ltPrinted', Survivors(1, ltRead.to), ltReq.tail)
    BY <1>0, <1>1, <1>2, EnoughIsAll
  <2>2. Survivors(1, ltRead.to)' = Survivors(1, ltRead.to) /\ Survivors(1, ltRead.to) \subseteq 1..ltRead.to
    BY <1>0, <1>2 DEF Survivors
  <2>3. ltPrinted' \in Seq(Nat)
    BY <1>0, <1>2, RingShape
  <2>4. LogTyped' /\ Printed'
    BY <1>0, <1>2, <2>1, <2>2, <2>3 DEF LogTyped, Printed, LastOf
  <2>5. ltAt' \in {"follow", "pass"} /\ ~(ltAt' = "pass" /\ ltEnd' = "busy")
    BY <1>0, <1>2 DEF LtGo, LtStop, LtAt
  <2>6. BacklogInv'
    BY <1>0, <1>2, <2>1, <2>2 DEF BacklogInv
  <2> QED BY <1>0, <1>2, <2>4, <2>5, <2>6 DEF LogInv, BeginInv, PassInv, FollowInv, StreamInv, LtAt
<1>3. CASE /\ ltFetch' = ltFetch * BacklogFetchFactor
           /\ ltRing' = RingReset(ltRing)
           /\ OpensAt(TailOf(ltFetch * BacklogFetchFactor))
           /\ ltAt' = ltAt /\ ltEnd' = ltEnd /\ ltPrinted' = ltPrinted
  <2>1. BacklogFetchFactor \in Nat \ {0} /\ ltFetch \in Nat \ {0} /\ ltReq.tail > 0
    BY <1>0 DEF LogConstants
  <2>2. ltFetch' \in Nat \ {0}
    BY <1>3, <2>1
  <2>3. Ring(ltRing', ltReq.tail) /\ ltRing'.full = FALSE /\ ltRing'.next = 0
    <3>1. PICK r : r = ltRing
      OBVIOUS
    <3>2. r = [buf |-> r.buf, next |-> r.next, full |-> r.full] /\ r.buf \in [0..(ltReq.tail - 1) -> Nat]
      BY <1>0, <3>1 DEF Ring
    <3>3. ltRing' = [buf |-> r.buf, next |-> 0, full |-> FALSE]
      BY <1>3, <3>1, <3>2 DEF RingReset
    <3> QED BY <1>0, <3>2, <3>3 DEF Ring
  <2>4. ltAt' = "pass" /\ ltEnd' = "busy" /\ OpensAt(TailOf(ltFetch')) /\ ltPrinted' = <<>>
    BY <1>0, <1>3 DEF LtAt
  <2> QED BY <1>0, <2>1, <2>2, <2>3, <2>4, PassOpens
<1>4. CASE LtStop("failed") /\ ltFetch' = ltFetch /\ ltRead' = ltRead /\ ltRing' = ltRing /\ ltPrinted' = ltPrinted
  BY <1>0, <1>4
  DEF LogInv, LogTyped, Printed, BeginInv, PassInv, BacklogInv, FollowInv, StreamInv, LtStop, LtAt
<1> QED BY <1>1, <1>2, <1>3, <1>4 DEF PassEnds

LEMMA FollowsOnKeeps ==
  ASSUME LogConstants, LogInv, FollowsOn
  PROVE  LogInv'
<1>0. /\ LogTyped /\ Printed /\ FollowInv /\ LtAt("follow") /\ ltAt' = "stream" /\ ltEnd' = ltEnd /\ OpensAt(0)
      /\ ltReq' = ltReq /\ ltLog' = ltLog /\ ltFetch' = ltFetch /\ ltPrinted' = ltPrinted
  BY DEF LogInv, FollowsOn, LtGo
<1>1. /\ ltRead' = [from |-> ltRead'.from, to |-> ltRead'.to]
      /\ ltRead'.from \in Nat \ {0} /\ ltRead'.to \in Nat /\ ltRead'.from = ltRead'.to + 1
      /\ ltRead'.to <= Len(ltLog) /\ ltRead'.to = Len(ltLog)
  BY <1>0, StreamOpens
<1>2. LogTyped'
  BY <1>0, <1>1 DEF LogTyped
<1>3. Printed'
  <2>1. ltRead.to <= ltRead'.to /\ ltRead.to \in Nat
    BY <1>0, <1>1 DEF LogTyped
  <2>2. 1..ltRead.to \subseteq 1..ltRead'.to
    BY <1>1, <2>1
  <2> QED BY <1>0, <2>2 DEF Printed
<1>4. ltReq.tail # AllLines \/ ltFetch # 0
  BY <1>0 DEF FollowInv, LtAt, AllLines, LogConstants
<1>5. BeginInv' /\ PassInv' /\ BacklogInv' /\ FollowInv' /\ StreamInv'
  BY <1>0, <1>4 DEF BeginInv, PassInv, BacklogInv, FollowInv, StreamInv, LtAt, AllLines
<1> QED BY <1>2, <1>3, <1>5 DEF LogInv

LEMMA StreamsLineKeeps ==
  ASSUME LogConstants, LogInv, StreamsLine
  PROVE  LogInv'
<1>1. PICK n : n = ltRead.to + 1
  OBVIOUS
<1>0. /\ LogTyped /\ Printed /\ StreamInv /\ LtAt("stream") /\ n <= Len(ltLog)
      /\ ltRead' = [ltRead EXCEPT !.to = n]
      /\ ltPrinted' = (IF ltReq.verbose \/ ~ShouldFilter(ltLog[n]) THEN Append(ltPrinted, n) ELSE ltPrinted)
      /\ ltReq' = ltReq /\ ltAt' = ltAt /\ ltEnd' = ltEnd /\ ltLog' = ltLog /\ ltFetch' = ltFetch
  BY <1>1 DEF LogInv, StreamsLine
<1>2. /\ ltRead' = [from |-> ltRead'.from, to |-> ltRead'.to] /\ ltRead'.from = ltRead.from /\ ltRead'.to = n
      /\ n \in Nat /\ ltRead.from \in Nat \ {0} /\ ltRead.to \in Nat /\ ltRead.from <= ltRead.to + 1
  BY <1>0, <1>1 DEF LogTyped
<1>3. LogTyped'
  BY <1>0, <1>1, <1>2 DEF LogTyped
<1>4. /\ ltPrinted \in Seq(Nat) /\ Len(ltPrinted) \in Nat /\ DOMAIN ltPrinted = 1..Len(ltPrinted)
      /\ \A i, j \in 1..Len(ltPrinted) : i < j => ltPrinted[i] < ltPrinted[j]
      /\ \A i \in 1..Len(ltPrinted) : ltPrinted[i] \in 1..ltRead.to
  BY <1>0 DEF Printed, Ascending, Members
<1>5. PICK s : s = Append(ltPrinted, n)
  OBVIOUS
<1>6. /\ s \in Seq(Nat) /\ Len(s) = Len(ltPrinted) + 1 /\ DOMAIN s = 1..Len(s) /\ s[Len(s)] = n
      /\ \A i \in 1..Len(ltPrinted) : s[i] = ltPrinted[i]
  BY <1>2, <1>4, <1>5
<1>7. Ascending(s)
  <2>1. ASSUME NEW i \in 1..Len(s), NEW j \in 1..Len(s), i < j PROVE s[i] < s[j]
    <3>1. i \in 1..Len(ltPrinted) /\ s[i] = ltPrinted[i]
      BY <1>4, <1>6, <2>1
    <3>2. CASE j = Len(s)
      BY <1>1, <1>2, <1>4, <1>6, <3>1, <3>2
    <3>3. CASE j # Len(s)
      <4>1. j \in 1..Len(ltPrinted)
        BY <1>4, <1>6, <3>3
      <4>2. ltPrinted[i] < ltPrinted[j] /\ s[j] = ltPrinted[j]
        BY <1>4, <1>6, <2>1, <3>1, <4>1
      <4> QED BY <3>1, <4>2
    <3> QED BY <3>2, <3>3
  <2> QED BY <1>6, <2>1 DEF Ascending
<1>8. Members(s) = Members(ltPrinted) \cup {n}
  <2>1. ASSUME NEW i \in 1..Len(s) PROVE s[i] \in Members(ltPrinted) \cup {n}
    <3>1. CASE i = Len(s)
      BY <1>6, <3>1
    <3>2. CASE i # Len(s)
      <4>1. i \in 1..Len(ltPrinted)
        BY <1>4, <1>6, <3>2
      <4> QED BY <1>4, <1>6, <4>1 DEF Members
    <3> QED BY <3>1, <3>2
  <2>2. ASSUME NEW i \in 1..Len(ltPrinted) PROVE ltPrinted[i] \in Members(s)
    <3>1. i \in 1..Len(s) /\ s[i] = ltPrinted[i]
      BY <1>4, <1>6
    <3> QED BY <1>6, <3>1 DEF Members
  <2>3. n \in Members(s)
    <3>1. Len(s) \in 1..Len(s)
      BY <1>4, <1>6
    <3> QED BY <1>6, <3>1 DEF Members
  <2>4. Members(s) \subseteq Members(ltPrinted) \cup {n}
    BY <1>6, <2>1 DEF Members
  <2>5. Members(ltPrinted) \subseteq Members(s)
    BY <1>4, <2>2 DEF Members
  <2> QED BY <2>3, <2>4, <2>5
<1>9. Printed'
  <2>1. 1..ltRead.to \subseteq 1..n /\ n \in 1..n
    BY <1>1, <1>2
  <2>2. Members(ltPrinted) \subseteq 1..ltRead.to /\ Ascending(ltPrinted)
    BY <1>0 DEF Printed
  <2>3. CASE ltPrinted' = s
    BY <1>2, <1>6, <1>7, <1>8, <2>1, <2>2, <2>3 DEF Printed
  <2>4. CASE ltPrinted' = ltPrinted
    BY <1>2, <1>4, <2>1, <2>2, <2>4 DEF Printed
  <2> QED BY <1>0, <1>5, <2>3, <2>4
<1>10. StreamInv'
  <2> SUFFICES ASSUME ltFetch = 0, ltReq.tail = AllLines, ~ltReq.verbose
               PROVE  Members(ltPrinted)' = Survivors(1, ltRead.to)'
    BY <1>0 DEF StreamInv, AllLines
  <2>1. Members(ltPrinted) = Survivors(1, ltRead.to)
    BY <1>0 DEF StreamInv, LtAt
  <2>2. Survivors(1, n) = IF ShouldFilter(ltLog[n]) THEN Survivors(1, ltRead.to) ELSE Survivors(1, ltRead.to) \cup {n}
    <3>1. PICK a \in Nat, b \in Nat : a = 1 /\ b = ltRead.to
      BY <1>2
    <3>2. a <= b + 1 /\ n = b + 1
      BY <1>1, <3>1
    <3>3. Survivors(a, n) = IF ShouldFilter(ltLog[n]) THEN Survivors(a, b) ELSE Survivors(a, b) \cup {n}
      BY <3>2, MoreSurvivors
    <3> QED BY <3>1, <3>3
  <2>3. Survivors(1, ltRead.to)' = Survivors(1, n)
    BY <1>0, <1>2 DEF Survivors
  <2>4. CASE ShouldFilter(ltLog[n])
    BY <1>0, <2>1, <2>2, <2>3, <2>4
  <2>5. CASE ~ShouldFilter(ltLog[n])
    BY <1>0, <1>5, <1>8, <2>1, <2>2, <2>3, <2>5
  <2> QED BY <2>4, <2>5
<1>11. BeginInv' /\ PassInv' /\ BacklogInv' /\ FollowInv'
  BY <1>0 DEF BeginInv, PassInv, BacklogInv, FollowInv, LtAt
<1> QED BY <1>3, <1>9, <1>10, <1>11 DEF LogInv

LEMMA LogStepKeeps ==
  ASSUME LogConstants, LogInv, [LogNext]_ltVars
  PROVE  LogInv'
<1>1. CASE StreamEnds
  <2>1. /\ LtAt("stream") /\ ltEnd' = "done" /\ ltAt' = ltAt /\ ltReq' = ltReq /\ ltLog' = ltLog /\ ltFetch' = ltFetch
        /\ ltRead' = ltRead /\ ltRing' = ltRing /\ ltPrinted' = ltPrinted
    BY <1>1 DEF StreamEnds, LtStop
  <2>2. LogTyped' /\ Printed'
    BY <2>1 DEF LogInv, LogTyped, Printed
  <2>3. StreamInv'
    BY <2>1 DEF LogInv, StreamInv, Survivors, LtAt
  <2> QED BY <2>1, <2>2, <2>3 DEF LogInv, BeginInv, PassInv, BacklogInv, FollowInv, LtAt
<1>2. CASE UNCHANGED ltVars
  <2>1. /\ ltReq' = ltReq /\ ltAt' = ltAt /\ ltEnd' = ltEnd /\ ltLog' = ltLog /\ ltFetch' = ltFetch
        /\ ltRead' = ltRead /\ ltRing' = ltRing /\ ltPrinted' = ltPrinted
    BY <1>2 DEF ltVars
  <2>2. LogTyped' /\ Printed' /\ BeginInv' /\ FollowInv'
    BY <2>1 DEF LogInv, LogTyped, Printed, BeginInv, FollowInv, LtAt
  <2>3. PassInv' /\ BacklogInv' /\ StreamInv'
    BY <2>1 DEF LogInv, PassInv, BacklogInv, StreamInv, Survivors, LtAt, Unbounded
  <2> QED BY <2>2, <2>3 DEF LogInv
<1> QED BY <1>1, <1>2, StartsLogsKeeps, ReadsLineKeeps, PassEndsKeeps, FollowsOnKeeps, StreamsLineKeeps,
           EmulatorLogsKeeps DEF LogNext

\* However the emulator writes between and during the passes, a backlog is
\* the last lines that survive the filter, as many as were asked for or all
\* there are up to where the reading ended, and what is printed is in order
\* and never twice, whatever the kinds of line, the length of the log, the
\* lines asked for and the bounds of the fetch. (logs.go)
THEOREM TailsAreExact == LogSpec => []TailExact
<1>1. LogInit => LogInv
  BY LogConstants, LogInitHolds
<1>2. LogInv /\ [LogNext]_ltVars => LogInv'
  BY LogConstants, LogStepKeeps
<1>3. LogInv => TailExact
  BY DEF LogInv, Printed, BacklogInv, StreamInv, TailExact
<1> QED BY <1>1, <1>2, <1>3, PTL DEF LogSpec

\* A pass keeps no more lines than it has read; a command ends in known ways.
LogEnds == {"busy", "done", "refused", "not running", "failed"}
RingFits ==
  /\ RingLen(ltRing) \in 0..MaxLines
  /\ LtAt("pass") => RingLen(ltRing) <= ltRead.to - ltRead.from + 1

\* A stream has read nothing when it is opened, and an empty ring has no lines.
LEMMA OpensEmpty ==
  ASSUME LogConstants, LogTyped, NEW tail \in Nat, OpensAt(tail), ltRing'.full = FALSE, ltRing'.next = 0,
         ltEnd' = "busy"
  PROVE  RingFits'
<1>1. RingLen(ltRing') = 0
  BY DEF RingLen
<1>2. ltRead'.from \in Nat /\ ltRead'.to \in Nat /\ ltRead'.from = ltRead'.to + 1
  BY StreamOpens
<1> QED BY <1>1, <1>2 DEF RingFits, LogConstants

LEMMA RingFitsStep ==
  ASSUME LogConstants, LogInv, RingFits, [LogNext]_ltVars
  PROVE  RingFits'
<1>0. LogTyped /\ PassInv /\ ltFetch \in Nat /\ ltReq.tail \in Nat /\ BacklogFetchFactor \in Nat /\ MaxLines \in Nat
  BY DEF LogInv, LogTyped, LogConstants
<1>a. RingLen(ltRing) \in Nat /\ RingLen(ltRing) <= MaxLines
  BY <1>0 DEF RingFits
<1>1. CASE StartsLogs
  <2>1. CASE ltRing' = ltRing /\ ltAt' # "pass"
    BY <1>1, <2>1 DEF StartsLogs, LtStop, LtGo, LtAt, RingFits
  <2>2. CASE /\ ltRing' = NewLineRing(ltReq.tail) /\ OpensAt(TailOf(ltReq.tail * BacklogFetchFactor))
             /\ LtGo("pass")
    <3>1. TailOf(ltReq.tail * BacklogFetchFactor) \in Nat
      BY <1>0 DEF TailOf, AllLines
    <3>2. ltRing'.full = FALSE /\ ltRing'.next = 0
      BY <2>2 DEF NewLineRing
    <3>3. ltEnd' = "busy"
      BY <1>1, <2>2 DEF StartsLogs, LtAt, LtGo
    <3> QED BY <1>0, <2>2, <3>1, <3>2, <3>3, OpensEmpty
  <2> QED BY <1>1, <2>1, <2>2 DEF StartsLogs, LtAt, LtStop, LtGo
<1>2. CASE ReadsLine
  <2>1. PICK n : n = ltRead.to + 1
    OBVIOUS
  <2>2. /\ LtAt("pass") /\ n <= Len(ltLog) /\ UNCHANGED <<ltAt, ltEnd>>
        /\ ltRing' = (IF ShouldFilter(ltLog[n]) THEN ltRing ELSE RingAdd(ltRing, n))
        /\ ltRead' = [ltRead EXCEPT !.to = n]
    BY <1>2, <2>1 DEF ReadsLine
  <2>3. /\ Ring(ltRing, ltReq.tail) /\ ltReq.tail \in Nat \ {0} /\ n \in Nat /\ Len(ltLog) \in 0..MaxLines
        /\ ltRead'.to = n /\ ltRead'.from = ltRead.from /\ ltRead.from \in Nat \ {0} /\ ltRead.to \in Nat
    BY <1>0, <2>1, <2>2 DEF PassInv, LogTyped
  <2>4. RingLen(ltRing') \in Nat /\ RingLen(ltRing') <= RingLen(ltRing) + 1
    <3>1. CASE ltRing' = ltRing
      BY <1>a, <3>1
    <3>2. CASE ltRing' = RingAdd(ltRing, n)
      <4>1. /\ Ring(ltRing', ltReq.tail)
            /\ LinesOf(ltRing', ltReq.tail) =
                 (IF ltRing.full THEN ltReq.tail ELSE LinesOf(ltRing, ltReq.tail) + 1)
        BY <2>3, <3>2, RingAdds
      <4>2. /\ RingLen(ltRing') = LinesOf(ltRing', ltReq.tail) /\ RingLen(ltRing) = LinesOf(ltRing, ltReq.tail)
            /\ LinesOf(ltRing', ltReq.tail) \in Nat /\ LinesOf(ltRing, ltReq.tail) \in Nat
        BY <2>3, <4>1, RingShape
      <4>3. ltRing.full => LinesOf(ltRing, ltReq.tail) = ltReq.tail
        BY DEF LinesOf
      <4> QED BY <2>3, <4>1, <4>2, <4>3
    <3> QED BY <2>2, <3>1, <3>2
  <2>5. RingLen(ltRing) <= ltRead.to - ltRead.from + 1
    BY <2>2 DEF RingFits
  <2>6. RingLen(ltRing') <= ltRead'.to - ltRead'.from + 1 /\ RingLen(ltRing') <= MaxLines
    BY <1>0, <1>a, <2>1, <2>2, <2>3, <2>4, <2>5
  <2>7. RingLen(ltRing') \in 0..MaxLines
    BY <1>0, <2>4, <2>6
  <2> QED BY <2>2, <2>6, <2>7 DEF RingFits, LtAt
<1>3. CASE PassEnds
  <2>1. CASE ltRing' = RingReset(ltRing) /\ OpensAt(TailOf(ltFetch * BacklogFetchFactor)) /\ ltEnd' = ltEnd
    <3>1. TailOf(ltFetch * BacklogFetchFactor) \in Nat
      BY <1>0 DEF TailOf, AllLines
    <3>2. ltEnd' = "busy" /\ Ring(ltRing, ltReq.tail)
      BY <1>0, <1>3, <2>1 DEF PassEnds, LtAt, PassInv
    <3>3. ltRing'.full = FALSE /\ ltRing'.next = 0
      BY <2>1, <3>2 DEF RingReset, Ring
    <3> QED BY <1>0, <2>1, <3>1, <3>2, <3>3, OpensEmpty
  <2>2. CASE ltRing' = ltRing /\ ltRead' = ltRead /\ (LtGo("follow") \/ LtStop("done") \/ LtStop("failed"))
    BY <2>2 DEF RingFits, LtGo, LtStop, LtAt
  <2> QED BY <1>3, <2>1, <2>2 DEF PassEnds
<1>4. CASE FollowsOn \/ StreamsLine \/ StreamEnds
  BY <1>4 DEF FollowsOn, StreamsLine, StreamEnds, LtAt, LtGo, LtStop, RingFits
<1>5. ASSUME NEW kind, EmulatorLogs(kind) PROVE RingFits'
  BY <1>5 DEF EmulatorLogs, RingFits, LtAt
<1>6. CASE UNCHANGED ltVars
  BY <1>6 DEF ltVars, RingFits, LtAt
<1> QED BY <1>1, <1>2, <1>3, <1>4, <1>5, <1>6 DEF LogNext

\* Every variable of logs keeps its type: the ring never holds more lines than
\* the log has, and only lines of the log are printed. (logs.go, logtail.go)
THEOREM TailsTyped == LogSpec => []LogTypeOK
<1> DEFINE EndTyped == ltEnd \in LogEnds
<1>a. LogInit => EndTyped
  BY DEF LogInit, LogEnds
<1>b. EndTyped /\ [LogNext]_ltVars => EndTyped'
  BY Zenon DEF LogNext, StartsLogs, ReadsLine, PassEnds, FollowsOn, StreamsLine, StreamEnds, EmulatorLogs, LtGo, LtStop,
    ltVars, LogEnds
<1>1. LogInit => LogInv /\ RingFits
  <2>1. LogInit => RingFits
    BY LogConstants DEF LogInit, RingFits, NewLineRing, RingLen, LtAt, LogConstants
  <2> QED BY <2>1, LogConstants, LogInitHolds
<1>2. LogInv /\ RingFits /\ [LogNext]_ltVars => (LogInv /\ RingFits)'
  BY LogConstants, LogStepKeeps, RingFitsStep
<1>3. LogInv /\ RingFits /\ EndTyped => LogTypeOK
  <2> SUFFICES ASSUME LogInv, RingFits, EndTyped PROVE LogTypeOK
    OBVIOUS
  <2>1. ASSUME NEW i \in DOMAIN ltPrinted PROVE ltPrinted[i] \in 1..Len(ltLog)
    <3>1. ltPrinted[i] \in 1..ltRead.to
      BY DEF LogInv, Printed, Members
    <3> QED BY <3>1 DEF LogInv, LogTyped
  <2>2. ltFetch \in Nat /\ RingLen(ltRing) <= MaxLines
    BY LogConstants DEF LogInv, LogTyped, RingFits, LogConstants
  <2> QED BY <2>1, <2>2, Zenon DEF LogTypeOK, LogEnds
<1> HIDE DEF EndTyped
<1> QED BY <1>a, <1>b, <1>1, <1>2, <1>3, PTL DEF LogSpec
-----------------------------------------------------------------------------
\* The proxies.
Types ==
  /\ DOMAIN pxAt = ProxyProcs /\ DOMAIN pxEnd = ProxyProcs /\ DOMAIN pxArgs = ProxyProcs
  /\ DOMAIN stat = ProxyProcs
  /\ sent \in [ProxyProcs -> [ChildSignals -> Nat]]
  /\ got \in [ProxyProcs -> [ChildSignals -> Nat]]
  /\ sigCh \in [ProxyProcs -> Seq(ChildSignals)]

\* Where a run writes or removes the override file, it had found none.
LookedInv(p) ==
  /\ pxAt[p] \in {"write", "probeWrite", "provision"} => stat[p] = "none"
  /\ pxAt[p] = "probe" /\ pxReq[p].dir.backend => stat[p] = "none"
  /\ pxAt[p] \in {"notify", "start", "running"} /\ HasOverride(p) => stat[p] = "none"
  /\ pxAt[p] = "lookPath" => pxReq[p].tool # "terraform"

\* How often a signal is in a channel, which holds two.
Pending(q, sig) ==
  (IF Len(q) >= 1 /\ q[1] = sig THEN 1 ELSE 0) + (IF Len(q) >= 2 /\ q[2] = sig THEN 1 ELSE 0)
\* What the tool got and may yet get by relay was sent.
SignalInv(p) ==
  /\ Len(sigCh[p]) <= Forwarded
  /\ \A sig \in ChildSignals :
       got[p][sig] + (IF ShouldForward(p, sig) THEN Pending(sigCh[p], sig) ELSE 0) <= sent[p][sig]

ProxyInv == Types /\ \A p \in ProxyProcs : LookedInv(p) /\ SignalInv(p)

\* A command's step leaves what other commands have. (one process each)
LEMMA OthersUntouched ==
  ASSUME Types, NEW p \in ProxyProcs, ProxyStep(p), NEW q \in ProxyProcs, q # p
  PROVE  /\ pxReq' = pxReq /\ pxAt'[q] = pxAt[q] /\ pxArgs'[q] = pxArgs[q] /\ stat'[q] = stat[q]
         /\ sent'[q] = sent[q] /\ got'[q] = got[q] /\ sigCh'[q] = sigCh[q]
<1> USE DEF Types, PxGo, PxEnd, PxParsed, TerraformFile, Signals
<1>1. CASE AwsInstalled(p) \/ TakeFlags(p) \/ AzNotReady(p) \/ RunsWithoutEndpoint(p) \/ TakesTarget(p)
  BY <1>1 DEF AwsInstalled, TakeFlags, AzNotReady, RunsWithoutEndpoint, TakesTarget
<1>2. CASE RunsOffline(p) \/ LooksInDocker(p) \/ RequireEmulator(p) \/ LookPath(p)
  BY <1>2 DEF RunsOffline, LooksInDocker, RequireEmulator, LookPath
<1>3. CASE TerraformSetup(p) \/ EnsureSafeToWrite(p) \/ GenerateOverride(p)
  BY <1>3 DEF TerraformSetup, EnsureSafeToWrite, GenerateOverride
<1>4. CASE DiscoverEndpointKeys(p) \/ TerraformDryRun(p) \/ ProvisionBackend(p)
  BY <1>4 DEF DiscoverEndpointKeys, TerraformDryRun, ProvisionBackend
<1>5. CASE NotifySignals(p) \/ StartTool(p) \/ ToolExits(p)
  BY <1>5 DEF NotifySignals, StartTool, ToolExits, ProxyEnds
<1>6. CASE CancelContext(p) \/ ProxyKilled(p)
  BY <1>6 DEF CancelContext, ProxyKilled
<1>7. CASE RelaySignal(p)
  BY <1>7 DEF RelaySignal
<1>8. CASE \E sig \in ChildSignals : Signalled(p, sig)
  BY <1>8 DEF Signalled
<1> QED BY <1>1, <1>2, <1>3, <1>4, <1>5, <1>6, <1>7, <1>8 DEF ProxyStep

-----------------------------------------------------------------------------
\* The steps that are about a signal.
Relays(p) == RelaySignal(p) \/ \E sig \in ChildSignals : Signalled(p, sig)
\* Every other step, and the functions' domains.
LEMMA SignalsUntouched ==
  ASSUME Types, NEW p \in ProxyProcs, ProxyStep(p)
  PROVE  /\ DOMAIN pxAt' = ProxyProcs /\ DOMAIN pxEnd' = ProxyProcs /\ DOMAIN pxArgs' = ProxyProcs
         /\ DOMAIN stat' = ProxyProcs
         /\ Relays(p) \/ UNCHANGED <<sent, got, sigCh>>
<1> USE DEF Types, PxGo, PxEnd, PxParsed, TerraformFile, Signals, Relays
<1>1. CASE AwsInstalled(p) \/ TakeFlags(p) \/ AzNotReady(p) \/ RunsWithoutEndpoint(p) \/ TakesTarget(p)
  BY <1>1 DEF AwsInstalled, TakeFlags, AzNotReady, RunsWithoutEndpoint, TakesTarget
<1>2. CASE RunsOffline(p) \/ LooksInDocker(p) \/ RequireEmulator(p) \/ LookPath(p)
  BY <1>2 DEF RunsOffline, LooksInDocker, RequireEmulator, LookPath
<1>3. CASE TerraformSetup(p) \/ EnsureSafeToWrite(p) \/ GenerateOverride(p)
  BY <1>3 DEF TerraformSetup, EnsureSafeToWrite, GenerateOverride
<1>4. CASE DiscoverEndpointKeys(p) \/ TerraformDryRun(p) \/ ProvisionBackend(p)
  BY <1>4 DEF DiscoverEndpointKeys, TerraformDryRun, ProvisionBackend
<1>5. CASE NotifySignals(p) \/ StartTool(p) \/ ToolExits(p)
  BY <1>5 DEF NotifySignals, StartTool, ToolExits, ProxyEnds
<1>6. CASE CancelContext(p) \/ ProxyKilled(p)
  BY <1>6 DEF CancelContext, ProxyKilled
<1>7. CASE RelaySignal(p)
  BY <1>7 DEF RelaySignal
<1>8. CASE \E sig \in ChildSignals : Signalled(p, sig)
  BY <1>8 DEF Signalled
<1> QED BY <1>1, <1>2, <1>3, <1>4, <1>5, <1>6, <1>7, <1>8 DEF ProxyStep
\* A step of the run keeps what it knows of the override's place.
LEMMA LookedStep ==
  ASSUME Types, NEW p \in ProxyProcs, LookedInv(p), ProxyStep(p)
  PROVE  LookedInv(p)'
<1> USE DEF Types, PxAt, PxGo, PxEnd, PxParsed, TerraformFile, Signals, LookedInv
<1>1. CASE AwsInstalled(p)
  BY <1>1 DEF AwsInstalled, HasOverride
<1>2. CASE TakeFlags(p)
  BY <1>2 DEF TakeFlags
<1>3. CASE AzNotReady(p)
  BY <1>3 DEF AzNotReady
<1>4. CASE RunsWithoutEndpoint(p)
  BY <1>4 DEF RunsWithoutEndpoint, Runner
<1>5. CASE TakesTarget(p)
  BY <1>5 DEF TakesTarget, Runner
<1>6. CASE RunsOffline(p)
  BY <1>6 DEF RunsOffline, Runner
<1>7. CASE LooksInDocker(p)
  BY <1>7 DEF LooksInDocker
<1>8. CASE RequireEmulator(p)
  BY <1>8 DEF RequireEmulator, Runner
<1>9. CASE LookPath(p)
  BY <1>9 DEF LookPath, HasOverride
<1>10. CASE TerraformSetup(p)
  BY <1>10 DEF TerraformSetup, HasOverride
<1>11. CASE EnsureSafeToWrite(p)
  BY <1>11 DEF EnsureSafeToWrite
<1>12. CASE GenerateOverride(p)
  BY <1>12 DEF GenerateOverride
<1>13. CASE DiscoverEndpointKeys(p)
  BY <1>13 DEF DiscoverEndpointKeys
<1>14. CASE TerraformDryRun(p)
  BY <1>14 DEF TerraformDryRun
<1>15. CASE ProvisionBackend(p)
  BY <1>15 DEF ProvisionBackend
<1>16. CASE NotifySignals(p)
  BY <1>16 DEF NotifySignals, HasOverride
<1>17. CASE StartTool(p)
  BY <1>17 DEF StartTool, ProxyEnds, HasOverride
<1>18. CASE ToolExits(p)
  BY <1>18 DEF ToolExits, ProxyEnds, HasOverride
<1>19. CASE CancelContext(p)
  BY <1>19 DEF CancelContext, HasOverride
<1>20. CASE RelaySignal(p)
  BY <1>20 DEF RelaySignal, HasOverride
<1>21. CASE ProxyKilled(p)
  BY <1>21 DEF ProxyKilled, HasOverride
<1>22. CASE \E sig \in ChildSignals : Signalled(p, sig)
  BY <1>22 DEF Signalled, HasOverride
<1> QED BY <1>1, <1>2, <1>3, <1>4, <1>5, <1>6, <1>7, <1>8, <1>9, <1>10, <1>11, <1>12, <1>13, <1>14, <1>15,
           <1>16, <1>17, <1>18, <1>19, <1>20, <1>21, <1>22 DEF ProxyStep

\* Only a run that found nothing writes or removes the file. (override.go)
LEMMA LookedThenWrites ==
  ASSUME Types, NEW p \in ProxyProcs, LookedInv(p), ProxyStep(p), override' # override
  PROVE  pxEnd[p] = "busy" /\ MayWrite(p)
<1> USE DEF PxAt, LookedInv, MayWrite
<1>1. CASE GenerateOverride(p) \/ DiscoverEndpointKeys(p) \/ ProvisionBackend(p)
  BY <1>1 DEF GenerateOverride, DiscoverEndpointKeys, ProvisionBackend
<1>2. CASE StartTool(p) \/ ToolExits(p)
  BY <1>2 DEF StartTool, ToolExits, ProxyEnds
<1>3. CASE ~(GenerateOverride(p) \/ DiscoverEndpointKeys(p) \/ ProvisionBackend(p) \/ StartTool(p) \/ ToolExits(p))
  <2>1. override' = override
    BY <1>3 DEF ProxyStep, AwsInstalled, TakeFlags, AzNotReady, RunsWithoutEndpoint, TakesTarget, RunsOffline,
                LooksInDocker, RequireEmulator, LookPath, TerraformSetup, EnsureSafeToWrite, TerraformDryRun,
                NotifySignals, CancelContext, RelaySignal, ProxyKilled, Signalled, TerraformFile
  <2> QED BY <2>1
<1> QED BY <1>1, <1>2, <1>3

-----------------------------------------------------------------------------
\* Counting one more of one thing, for one command.
LEMMA CountOne ==
  ASSUME NEW A, NEW B, NEW f \in [A -> [B -> Nat]], NEW a \in A, NEW b \in B
  PROVE  /\ [f EXCEPT ![a][b] = @ + 1] \in [A -> [B -> Nat]]
         /\ \A s \in B : [f EXCEPT ![a][b] = @ + 1][a][s] = IF s = b THEN f[a][s] + 1 ELSE f[a][s]
<1> DEFINE h == [f[a] EXCEPT ![b] = f[a][b] + 1]
<1>1. h \in [B -> Nat] /\ \A s \in B : h[s] = IF s = b THEN f[a][s] + 1 ELSE f[a][s]
  OBVIOUS
<1>2. [f EXCEPT ![a][b] = @ + 1] = [f EXCEPT ![a] = h]
  OBVIOUS
<1> HIDE DEF h
<1>3. [f EXCEPT ![a] = h] \in [A -> [B -> Nat]] /\ [f EXCEPT ![a] = h][a] = h
  BY <1>1
<1> QED BY <1>1, <1>2, <1>3

\* A channel with room takes one more.
LEMMA PendingAppend ==
  ASSUME NEW S, NEW q \in Seq(S), Len(q) < 2, NEW sig \in S, NEW s
  PROVE  /\ Append(q, sig) \in Seq(S) /\ Len(Append(q, sig)) <= 2
         /\ Pending(Append(q, sig), s) <= IF s = sig THEN Pending(q, s) + 1 ELSE Pending(q, s)
<1>1. /\ Append(q, sig) \in Seq(S) /\ Len(q) \in Nat /\ Len(Append(q, sig)) = Len(q) + 1
      /\ Append(q, sig)[Len(q) + 1] = sig
      /\ \A i \in 1..Len(q) : Append(q, sig)[i] = q[i]
  OBVIOUS
<1>2. CASE Len(q) = 0
  BY <1>1, <1>2 DEF Pending
<1>3. CASE Len(q) = 1
  <2>1. Append(q, sig)[1] = q[1] /\ Append(q, sig)[2] = sig /\ Len(Append(q, sig)) = 2
    BY <1>1, <1>3
  <2> QED BY <1>1, <1>3, <2>1 DEF Pending
<1>4. Len(q) = 0 \/ Len(q) = 1
  <2>1. \A n \in Nat : n < 2 => n = 0 \/ n = 1
    OBVIOUS
  <2>2. Len(q) \in Nat
    BY <1>1
  <2> QED BY <2>1, <2>2, Zenon
<1> QED BY <1>2, <1>3, <1>4

\* The first of a channel leaves it.
LEMMA PendingTail ==
  ASSUME NEW S, NEW q \in Seq(S), q # <<>>, Len(q) <= 2, NEW s
  PROVE  /\ Tail(q) \in Seq(S) /\ Len(Tail(q)) <= 2 /\ Head(q) \in S
         /\ Pending(q, s) = IF s = Head(q) THEN Pending(Tail(q), s) + 1 ELSE Pending(Tail(q), s)
<1>1. /\ Tail(q) \in Seq(S) /\ Len(q) \in Nat \ {0} /\ Len(Tail(q)) = Len(q) - 1
      /\ Head(q) \in S /\ Head(q) = q[1]
      /\ \A i \in 1..(Len(q) - 1) : Tail(q)[i] = q[i + 1]
  OBVIOUS
<1>2. CASE Len(q) = 1
  BY <1>1, <1>2 DEF Pending
<1>3. CASE Len(q) = 2
  <2>1. Len(Tail(q)) = 1
    BY <1>1, <1>3
  <2>2. Tail(q)[1] = q[1 + 1]
    <3>1. 1 \in 1..(Len(q) - 1)
      BY <1>3
    <3> QED BY <1>1, <3>1, Zenon
  <2>3. q[1 + 1] = q[2]
    OBVIOUS
  <2> QED BY <1>1, <1>3, <2>1, <2>2, <2>3 DEF Pending
<1>4. Len(q) = 1 \/ Len(q) = 2
  BY <1>1
<1> QED BY <1>1, <1>2, <1>3, <1>4

\* The count is a number.
LEMMA PendingNat ==
  ASSUME NEW q, NEW s
  PROVE  Pending(q, s) \in Nat
BY DEF Pending

\* A signal that comes, or is passed on, is counted once more, or elsewhere.
LEMMA SignalStep ==
  ASSUME Types, NEW p \in ProxyProcs, SignalInv(p), Relays(p)
  PROVE  SignalInv(p)' /\ Types'
<1>0. /\ sigCh[p] \in Seq(ChildSignals) /\ Len(sigCh[p]) <= 2
      /\ sent \in [ProxyProcs -> [ChildSignals -> Nat]] /\ got \in [ProxyProcs -> [ChildSignals -> Nat]]
      /\ sigCh \in [ProxyProcs -> Seq(ChildSignals)]
      /\ \A s \in ChildSignals :
           got[p][s] + (IF ShouldForward(p, s) THEN Pending(sigCh[p], s) ELSE 0) <= sent[p][s]
      /\ \A s \in ChildSignals : got[p][s] \in Nat /\ sent[p][s] \in Nat
  BY DEF Types, SignalInv, Forwarded
<1>1. CASE RelaySignal(p)
  <2> DEFINE h == Head(sigCh[p])
             rest == Tail(sigCh[p])
  <2>1. /\ sigCh[p] # <<>> /\ sigCh' = [sigCh EXCEPT ![p] = rest]
        /\ got' = IF ShouldForward(p, h) THEN [got EXCEPT ![p][h] = @ + 1] ELSE got
        /\ UNCHANGED <<pxReq, pxAt, pxEnd, pxArgs, stat, sent>>
    BY <1>1 DEF RelaySignal, PxParsed, TerraformFile
  <2>2. /\ rest \in Seq(ChildSignals) /\ Len(rest) <= 2 /\ h \in ChildSignals
        /\ \A s \in ChildSignals :
             Pending(sigCh[p], s) = IF s = h THEN Pending(rest, s) + 1 ELSE Pending(rest, s)
    BY <1>0, <2>1, PendingTail
  <2> HIDE DEF h, rest
  <2>3. sigCh' \in [ProxyProcs -> Seq(ChildSignals)] /\ sigCh'[p] = rest
    BY <1>0, <2>1, <2>2
  <2>4. /\ got' \in [ProxyProcs -> [ChildSignals -> Nat]]
        /\ \A s \in ChildSignals :
             got'[p][s] = IF s = h /\ ShouldForward(p, h) THEN got[p][s] + 1 ELSE got[p][s]
    <3>1. CASE ShouldForward(p, h)
      <4>1. got' = [got EXCEPT ![p][h] = @ + 1]
        BY <2>1, <3>1
      <4> QED BY <1>0, <2>2, <3>1, <4>1, CountOne
    <3>2. CASE ~ShouldForward(p, h)
      BY <1>0, <2>1, <3>2
    <3> QED BY <3>1, <3>2
  <2>5. \A s \in ChildSignals : ShouldForward(p, s)' <=> ShouldForward(p, s)
    BY <2>1 DEF ShouldForward
  <2>6. ASSUME NEW s \in ChildSignals
        PROVE  got'[p][s] + (IF ShouldForward(p, s) THEN Pending(rest, s) ELSE 0) <= sent[p][s]
    <3>1. /\ got[p][s] \in Nat /\ sent[p][s] \in Nat /\ Pending(rest, s) \in Nat
          /\ got[p][s] + (IF ShouldForward(p, s) THEN Pending(sigCh[p], s) ELSE 0) <= sent[p][s]
      BY <1>0, PendingNat
    <3>2. CASE s = h /\ ShouldForward(p, s)
      <4>1. got'[p][s] = got[p][s] + 1 /\ Pending(sigCh[p], s) = Pending(rest, s) + 1
        BY <2>2, <2>4, <3>2
      <4> QED BY <3>1, <3>2, <4>1
    <3>3. CASE s # h /\ ShouldForward(p, s)
      <4>1. got'[p][s] = got[p][s] /\ Pending(sigCh[p], s) = Pending(rest, s)
        BY <2>2, <2>4, <3>3
      <4> QED BY <3>1, <3>3, <4>1
    <3>4. CASE ~ShouldForward(p, s)
      <4>1. got'[p][s] = got[p][s]
        BY <2>4, <3>4
      <4> QED BY <3>1, <3>4, <4>1
    <3> QED BY <3>2, <3>3, <3>4
  <2>7. SignalInv(p)'
    <3>1. sent'[p] = sent[p]
      BY <2>1
    <3> QED BY <2>2, <2>3, <2>5, <2>6, <3>1 DEF SignalInv, Forwarded
  <2> QED BY <2>1, <2>3, <2>4, <2>7 DEF Types
<1>2. ASSUME NEW sig \in ChildSignals, Signalled(p, sig) PROVE SignalInv(p)' /\ Types'
  <2> DEFINE direct == sig = "INT" /\ pxReq[p].terminal /\ PxAt(p, "running")
             kept == notified[p] /\ Len(sigCh[p]) < 2
             q == IF kept THEN Append(sigCh[p], sig) ELSE sigCh[p]
  <2>1. /\ sent' = [sent EXCEPT ![p][sig] = @ + 1]
        /\ sigCh' = [sigCh EXCEPT ![p] = q]
        /\ got' = IF direct THEN [got EXCEPT ![p][sig] = @ + 1] ELSE got
        /\ UNCHANGED <<pxReq, pxAt, pxEnd, pxArgs, stat>>
    BY <1>2 DEF Signalled, PxParsed, TerraformFile, Forwarded
  <2>2. /\ q \in Seq(ChildSignals) /\ Len(q) <= 2
        /\ \A s \in ChildSignals :
             Pending(q, s) <= IF s = sig THEN Pending(sigCh[p], s) + 1 ELSE Pending(sigCh[p], s)
    <3>1. CASE kept
      BY <1>0, <3>1, PendingAppend
    <3>2. CASE ~kept
      <4>1. q = sigCh[p] /\ \A s \in ChildSignals : Pending(sigCh[p], s) \in Nat
        BY <3>2, PendingNat
      <4> HIDE DEF q, kept
      <4> QED BY <1>0, <4>1
    <3> QED BY <3>1, <3>2
  <2>3. direct => ~ShouldForward(p, sig)
    BY DEF ShouldForward
  <2> HIDE DEF q, kept, direct
  <2>4. sigCh' \in [ProxyProcs -> Seq(ChildSignals)] /\ sigCh'[p] = q
    BY <1>0, <2>1, <2>2
  <2>5. /\ sent' \in [ProxyProcs -> [ChildSignals -> Nat]]
        /\ \A s \in ChildSignals : sent'[p][s] = IF s = sig THEN sent[p][s] + 1 ELSE sent[p][s]
    BY <1>0, <2>1, CountOne
  <2>6. /\ got' \in [ProxyProcs -> [ChildSignals -> Nat]]
        /\ \A s \in ChildSignals : got'[p][s] = IF s = sig /\ direct THEN got[p][s] + 1 ELSE got[p][s]
    <3>1. CASE direct
      <4>1. got' = [got EXCEPT ![p][sig] = @ + 1]
        BY <2>1, <3>1
      <4> QED BY <1>0, <3>1, <4>1, CountOne
    <3>2. CASE ~direct
      BY <1>0, <2>1, <3>2
    <3> QED BY <3>1, <3>2
  <2>7. \A s \in ChildSignals : ShouldForward(p, s)' <=> ShouldForward(p, s)
    BY <2>1 DEF ShouldForward
  <2>8. ASSUME NEW s \in ChildSignals
        PROVE  got'[p][s] + (IF ShouldForward(p, s) THEN Pending(q, s) ELSE 0) <= sent'[p][s]
    <3>1. /\ got[p][s] \in Nat /\ sent[p][s] \in Nat /\ Pending(q, s) \in Nat /\ Pending(sigCh[p], s) \in Nat
          /\ got[p][s] + (IF ShouldForward(p, s) THEN Pending(sigCh[p], s) ELSE 0) <= sent[p][s]
      BY <1>0, PendingNat
    <3>2. CASE s # sig
      <4>1. got'[p][s] = got[p][s] /\ sent'[p][s] = sent[p][s] /\ Pending(q, s) <= Pending(sigCh[p], s)
        BY <2>2, <2>5, <2>6, <3>2
      <4> QED BY <3>1, <4>1
    <3>3. CASE s = sig /\ ShouldForward(p, s)
      <4>1. /\ got'[p][s] = got[p][s] /\ sent'[p][s] = sent[p][s] + 1
            /\ Pending(q, s) <= Pending(sigCh[p], s) + 1
        BY <2>2, <2>3, <2>5, <2>6, <3>3
      <4> QED BY <3>1, <3>3, <4>1
    <3>4. CASE s = sig /\ ~ShouldForward(p, s)
      <4>1. sent'[p][s] = sent[p][s] + 1 /\ (got'[p][s] = got[p][s] \/ got'[p][s] = got[p][s] + 1)
        BY <2>5, <2>6, <3>4
      <4> QED BY <3>1, <3>4, <4>1
    <3> QED BY <3>2, <3>3, <3>4
  <2>9. SignalInv(p)'
    BY <2>2, <2>4, <2>7, <2>8 DEF SignalInv, Forwarded
  <2> QED BY <2>1, <2>4, <2>5, <2>6, <2>9 DEF Types
<1> QED BY <1>1, <1>2 DEF Relays

-----------------------------------------------------------------------------
\* Nothing is known, sent or pending at the start.
LEMMA ProxyInitInv == ProxyInit => ProxyInv
<1> SUFFICES ASSUME ProxyInit PROVE ProxyInv
  OBVIOUS
<1>1. Types
  <2>1. /\ DOMAIN pxAt = ProxyProcs /\ DOMAIN pxEnd = ProxyProcs /\ DOMAIN pxArgs = ProxyProcs
        /\ DOMAIN stat = ProxyProcs
    BY Zenon DEF ProxyInit
  <2>2. /\ sent = [p \in ProxyProcs |-> [sig \in ChildSignals |-> 0]] /\ got = sent
        /\ sigCh = [p \in ProxyProcs |-> <<>>]
    BY Zenon DEF ProxyInit
  <2>3. sent \in [ProxyProcs -> [ChildSignals -> Nat]] /\ sigCh \in [ProxyProcs -> Seq(ChildSignals)]
    BY <2>2
  <2> QED BY <2>1, <2>2, <2>3 DEF Types
<1>2. ASSUME NEW p \in ProxyProcs PROVE LookedInv(p)
  BY DEF ProxyInit, LookedInv
<1>3. ASSUME NEW p \in ProxyProcs PROVE SignalInv(p)
  <2>1. sigCh[p] = <<>> /\ \A sig \in ChildSignals : got[p][sig] = 0 /\ sent[p][sig] = 0
    BY DEF ProxyInit
  <2> QED BY <2>1 DEF SignalInv, Pending, Forwarded
<1> QED BY <1>1, <1>2, <1>3 DEF ProxyInv

\* One step of one command, or of the user.
LEMMA ProxyNextInv == ProxyInv /\ [ProxyNext]_pxVars => ProxyInv'
<1> SUFFICES ASSUME ProxyInv, [ProxyNext]_pxVars PROVE ProxyInv'
  OBVIOUS
<1>1. CASE UNCHANGED <<pxReq, pxAt, pxEnd, pxArgs, stat, sent, got, sigCh>>
  BY <1>1 DEF ProxyInv, Types, LookedInv, SignalInv, HasOverride, ShouldForward
<1>2. ASSUME NEW p \in ProxyProcs, ProxyStep(p) PROVE ProxyInv'
  <2>1. /\ LookedInv(p)' /\ pxReq' = pxReq
    <3>1. pxReq' = pxReq
      BY <1>2 DEF ProxyStep, AwsInstalled, TakeFlags, AzNotReady, RunsWithoutEndpoint, TakesTarget, RunsOffline,
                  LooksInDocker, RequireEmulator, LookPath, TerraformSetup, EnsureSafeToWrite, GenerateOverride,
                  DiscoverEndpointKeys, TerraformDryRun, ProvisionBackend, NotifySignals, StartTool, ToolExits,
                  CancelContext, RelaySignal, ProxyKilled, Signalled, PxParsed
    <3> QED BY <1>2, <3>1, LookedStep DEF ProxyInv
  <2>2. SignalInv(p)' /\ Types'
    <3>1. CASE Relays(p)
      BY <1>2, <3>1, SignalStep DEF ProxyInv
    <3>2. CASE ~Relays(p)
      <4>1. UNCHANGED <<sent, got, sigCh>> /\ Types'
        BY <1>2, <3>2, SignalsUntouched DEF ProxyInv, Types
      <4> QED BY <2>1, <4>1 DEF ProxyInv, SignalInv, ShouldForward
    <3> QED BY <3>1, <3>2
  <2>3. ASSUME NEW q \in ProxyProcs, q # p PROVE LookedInv(q)' /\ SignalInv(q)'
    <3>1. /\ pxReq' = pxReq /\ pxAt'[q] = pxAt[q] /\ pxArgs'[q] = pxArgs[q] /\ stat'[q] = stat[q]
          /\ sent'[q] = sent[q] /\ got'[q] = got[q] /\ sigCh'[q] = sigCh[q]
      BY <1>2, <2>3, OthersUntouched DEF ProxyInv
    <3>2. LookedInv(q) /\ SignalInv(q)
      BY DEF ProxyInv
    <3> QED BY <3>1, <3>2 DEF LookedInv, SignalInv, HasOverride, ShouldForward
  <2> QED BY <2>1, <2>2, <2>3 DEF ProxyInv
<1>3. CASE UserWritesOverride
  BY <1>1, <1>3 DEF UserWritesOverride, PxParsed, Signals
<1>4. CASE UNCHANGED pxVars
  BY <1>1, <1>4 DEF pxVars
<1> QED BY <1>2, <1>3, <1>4 DEF ProxyNext

\* The inductive invariant of the proxy commands. (override.go, proc/run.go)
THEOREM ProxyInvHolds == ProxySpec => []ProxyInv
<1> QED BY ProxyInitInv, ProxyNextInv, PTL DEF ProxySpec

\* No run overwrites or removes an override file that was there when it
\* looked, however many run in the directory and however they end.
\* (terraform/cli/override.go, exec.go)
THEOREM ForeignOverridesKept == ProxySpec => ForeignOverrideKept
<1>1. ProxyInv /\ [ProxyNext]_pxVars =>
        [override.author # "none" /\ override' # override =>
           \E p \in ProxyProcs : pxEnd[p] = "busy" /\ MayWrite(p)]_pxVars
  <2> SUFFICES ASSUME ProxyInv, ProxyNext, override.author # "none", override' # override
               PROVE  \E p \in ProxyProcs : pxEnd[p] = "busy" /\ MayWrite(p)
    BY DEF pxVars
  <2>1. ~UserWritesOverride
    BY DEF UserWritesOverride
  <2>2. PICK p \in ProxyProcs : ProxyStep(p)
    BY <2>1 DEF ProxyNext
  <2> QED BY <2>2, LookedThenWrites DEF ProxyInv
<1> QED BY <1>1, ProxyInvHolds, PTL DEF ProxySpec, ForeignOverrideKept

\* The tool gets each signal at most once, however many are sent and however
\* full the channel is. (proc/run.go)
THEOREM SignalsOnce == ProxySpec => []SignalsAtMostOnce
<1>1. ProxyInv => SignalsAtMostOnce
  <2> SUFFICES ASSUME ProxyInv, NEW p \in ProxyProcs, NEW sig \in ChildSignals PROVE got[p][sig] <= sent[p][sig]
    BY DEF SignalsAtMostOnce
  <2>1. /\ got[p][sig] \in Nat /\ sent[p][sig] \in Nat /\ Pending(sigCh[p], sig) \in Nat
        /\ got[p][sig] + (IF ShouldForward(p, sig) THEN Pending(sigCh[p], sig) ELSE 0) <= sent[p][sig]
    BY PendingNat DEF ProxyInv, Types, SignalInv
  <2> QED BY <2>1
<1> QED BY <1>1, ProxyInvHolds, PTL
-----------------------------------------------------------------------------
\* ToolTargetsEmulator. What a command knows of its emulator and its account,
\* and what lies at the override's place, when its tool is started.
TerraformStages ==
  {"terraform", "check", "probeCheck", "write", "probeWrite", "probe", "dryRun", "provision"}
ToolStages == TerraformStages \cup {"lookPath", "notify", "start", "running"}
OwnStages == {"dryRun", "provision", "notify", "start", "running"}

RouteTypes ==
  /\ pxReq \in [ProxyProcs -> ProxyRequests]
  /\ DOMAIN pxAccount = ProxyProcs /\ DOMAIN pxUrl = ProxyProcs /\ DOMAIN pxChild = ProxyProcs
RouteInv(p) ==
  /\ pxAt[p] \notin {"installed", "flags"} => pxAccount[p].account \notin {"", "AKIA"}
  /\ pxAt[p] \in TerraformStages => pxReq[p].tool = "terraform"
  /\ pxAt[p] = "emulator" \/ pxUrl[p] = "docker" => IsSet(pxReq[p].given) = {}
  /\ pxAt[p] \in ToolStages =>
       (NeedsEmulator(p) \/ pxReq[p].tool \notin {"terraform", "aws"} => pxUrl[p] # "")
\* The file a command alone in its directory has written is still its own,
\* and its bucket was made before the tool is run.
OwnFileInv(p) ==
  /\ pxAt[p] \in OwnStages /\ pxEnd[p] = "busy" /\ HasOverride(p) /\ Alone(p) =>
       override = Override(p, p, ~IsInit(pxArgs[p]))
  /\ pxAt[p] \in {"notify", "start", "running"} /\ HasOverride(p) /\ pxReq[p].dir.backend /\ pxReq[p].dir.bucket =>
       pxAccount[p].account \in buckets
ChildInv(p) ==
  pxChild[p].url # "none" =>
    /\ pxAt[p] = "running" /\ Targets(p, pxChild[p])
    /\ HasOverride(p) /\ Alone(p) => Redirects(p, pxChild[p].file)
TargetInv ==
  /\ RouteTypes
  /\ \A p \in ProxyProcs : RouteInv(p) /\ OwnFileInv(p) /\ ChildInv(p)

\* Without a given URL, and only then, the command looks in Docker.
\* (endpoint/target.go)
LEMMA DockerMeansNoneGiven ==
  ASSUME NEW r, RequestTyped(r), ResolveEndpoint(r.given, r.world) = "docker"
  PROVE  IsSet(r.given) = {}
<1> SUFFICES ASSUME IsSet(r.given) # {} PROVE FALSE
  OBVIOUS
<1>1. ResolvedSource(r.given) \in Sources
  <2>1. \E s \in IsSet(r.given) : Higher(s) \cap IsSet(r.given) = {}
    <3> DEFINE S == IsSet(r.given)
    <3>0. S \subseteq Sources /\ S # {}
      BY DEF IsSet
    <3> HIDE DEF S
    <3>H. /\ Higher("--endpoint-url") = {} /\ Higher("LSTK_ENDPOINT_URL") = {"--endpoint-url"}
          /\ Higher("AWS_ENDPOINT_URL") = {"--endpoint-url", "LSTK_ENDPOINT_URL"}
      BY DEF Higher
    <3>1. ASSUME "--endpoint-url" \in S PROVE \E s \in S : Higher(s) \cap S = {}
      BY <3>1, <3>H
    <3>2. ASSUME "--endpoint-url" \notin S, "LSTK_ENDPOINT_URL" \in S PROVE \E s \in S : Higher(s) \cap S = {}
      BY <3>2, <3>H
    <3>3. ASSUME "--endpoint-url" \notin S, "LSTK_ENDPOINT_URL" \notin S PROVE \E s \in S : Higher(s) \cap S = {}
      <4>1. "AWS_ENDPOINT_URL" \in S
        BY <3>0, <3>3 DEF Sources
      <4> QED BY <3>3, <3>H, <4>1
    <3>4. \E s \in S : Higher(s) \cap S = {}
      BY <3>1, <3>2, <3>3
    <3> QED BY <3>4 DEF S
  <2> QED BY <2>1 DEF ResolvedSource, IsSet
<1> DEFINE u == r.given[ResolvedSource(r.given)]
<1>2. ValidUrl(u) /\ ProbeType(u, r.world) = "docker"
  BY DEF ResolveEndpoint
<1>3. r.world[u] \in EndpointAnswers
  BY <1>1, <1>2 DEF RequestTyped
<1> HIDE DEF u
<1>4. ProbeType(u, r.world) \in {"schemeMismatch", "unreachable", "snowflake", "aws", "indeterminate", "azure"}
  BY <1>3 DEF ProbeType, Unreachable, ClassifyByServices, EndpointAnswers
<1> QED BY <1>2, <1>4

\* The account a command goes on with. (credentials.go)
LEMMA AccountSafe ==
  ASSUME NEW flag, NEW env, flag = "" \/ IsAccountID(flag)
  PROVE  ResolveAccountSelection(flag, env).account \notin {"", "AKIA"}
BY DEF ResolveAccountSelection, IsAccountID, DeactivateAccessKey

\* The environments lstk builds. (awscli/exec.go, iac/sam/cli/env.go,
\* iac/cdk/cli/exec.go)
LEMMA SetAllIs ==
  ASSUME NEW base, NEW managed, NEW k \in EnvKeys
  PROVE  /\ k \in DOMAIN managed /\ managed[k] # "" => SetAll(base, managed)[k] = managed[k]
         /\ k \notin DOMAIN managed => SetAll(base, managed)[k] = base[k]
BY DEF SetAll
LEMMA RemovedIs ==
  ASSUME NEW base, NEW keys, NEW k \in EnvKeys
  PROVE  RemoveKeys(base, keys)[k] = IF k \in keys THEN "" ELSE base[k]
BY DEF RemoveKeys
LEMMA ManagedIs ==
  ASSUME NEW url, NEW account, NEW region
  PROVE  /\ DOMAIN Managed(url, account, region) =
              {"AWS_ENDPOINT_URL", "AWS_ACCESS_KEY_ID", "AWS_SECRET_ACCESS_KEY", "AWS_REGION",
               "AWS_DEFAULT_REGION"}
         /\ Managed(url, account, region)["AWS_ENDPOINT_URL"] = url
         /\ Managed(url, account, region)["AWS_ACCESS_KEY_ID"] = account
BY DEF Managed

Harmless(env) == env["AWS_ACCESS_KEY_ID"] # "AKIA" /\ env["AWS_SESSION_TOKEN"] = ""
Pointed(env, url) == Harmless(env) /\ env["AWS_PROFILE"] = "" /\ env["AWS_ENDPOINT_URL"] = url

LEMMA SamEnvSafe ==
  ASSUME NEW base, NEW url, url # "", NEW account, account \notin {"", "AKIA"}, NEW region
  PROVE  Pointed(SamEnv(base, url, account, region), url)
<1> DEFINE m == Managed(url, account, region)
           b == RemoveKeys(base, StrippedKeys)
<1>1. /\ DOMAIN m = {"AWS_ENDPOINT_URL", "AWS_ACCESS_KEY_ID", "AWS_SECRET_ACCESS_KEY", "AWS_REGION",
                     "AWS_DEFAULT_REGION"}
      /\ m["AWS_ENDPOINT_URL"] = url /\ m["AWS_ACCESS_KEY_ID"] = account
  BY DEF Managed
<1>2. b["AWS_SESSION_TOKEN"] = "" /\ b["AWS_PROFILE"] = ""
  <2>1. "AWS_SESSION_TOKEN" \in EnvKeys \cap StrippedKeys /\ "AWS_PROFILE" \in EnvKeys \cap StrippedKeys
    BY DEF StrippedKeys, EnvKeys
  <2> QED BY <2>1 DEF RemoveKeys
<1>3. {"AWS_ENDPOINT_URL", "AWS_ACCESS_KEY_ID", "AWS_SESSION_TOKEN", "AWS_PROFILE"} \subseteq EnvKeys
  BY DEF EnvKeys
<1> HIDE DEF m, b
<1>4. SamEnv(base, url, account, region) = SetAll(b, m)
  BY DEF SamEnv, m, b
<1>5. /\ SetAll(b, m)["AWS_ENDPOINT_URL"] = url /\ SetAll(b, m)["AWS_ACCESS_KEY_ID"] = account
      /\ SetAll(b, m)["AWS_SESSION_TOKEN"] = "" /\ SetAll(b, m)["AWS_PROFILE"] = ""
  BY <1>1, <1>2, <1>3 DEF SetAll
<1> QED BY <1>4, <1>5 DEF Pointed, Harmless

LEMMA CdkEnvSafe ==
  ASSUME NEW base, NEW url, url # "", NEW region
  PROVE  Pointed(CdkEnv(base, url, region), url)
<1>1. CdkEnv(base, url, region) = SamEnv(base, url, "test", region)
  BY DEF CdkEnv, SamEnv
<1> QED BY <1>1, SamEnvSafe

LEMMA AwsEnvSafe ==
  ASSUME NEW base \in [EnvKeys -> STRING], NEW sel, sel.account \notin {"", "AKIA"}, NEW there \in BOOLEAN
  PROVE  Harmless(AwsExecEnv(base, sel, there))
<1> {"AWS_ACCESS_KEY_ID", "AWS_SECRET_ACCESS_KEY", "AWS_SESSION_TOKEN", "AWS_PROFILE"} \subseteq EnvKeys
  BY DEF EnvKeys
<1>0. \A b, d : \A k \in EnvKeys : k \notin DOMAIN d \/ b[k] # "" => SetIfAbsent(b, d)[k] = b[k]
  BY DEF SetIfAbsent
<1>1. CASE ~there
  <2> DEFINE b == [base EXCEPT !["AWS_ACCESS_KEY_ID"] =
                     IF sel.account # "" THEN sel.account ELSE IF @ = "" THEN "test" ELSE @]
             d == [AWS_SECRET_ACCESS_KEY |-> "test", AWS_DEFAULT_REGION |-> "us-east-1"]
  <2>1. b["AWS_ACCESS_KEY_ID"] = sel.account
    OBVIOUS
  <2>2. AwsExecEnv(base, sel, there) = RemoveKeys(SetIfAbsent(b, d), {"AWS_SESSION_TOKEN"})
    BY <1>1 DEF AwsExecEnv, AwsBuildEnv
  <2>3. SetIfAbsent(b, d)["AWS_ACCESS_KEY_ID"] = sel.account
    <3> HIDE DEF b, d
    <3> QED BY <1>0, <2>1
  <2> HIDE DEF b, d
  <2>4. \A e : /\ RemoveKeys(e, {"AWS_SESSION_TOKEN"})["AWS_SESSION_TOKEN"] = ""
               /\ RemoveKeys(e, {"AWS_SESSION_TOKEN"})["AWS_ACCESS_KEY_ID"] = e["AWS_ACCESS_KEY_ID"]
    BY DEF RemoveKeys
  <2> QED BY <2>2, <2>3, <2>4 DEF Harmless
<1>2. CASE there
  <2> DEFINE b == RemoveKeys([base EXCEPT !["AWS_PROFILE"] = "localstack"], {"AWS_SESSION_TOKEN"})
  <2>1. DOMAIN b = EnvKeys /\ b["AWS_SESSION_TOKEN"] = ""
    BY RemovedIs DEF RemoveKeys
  <2>2. CASE ~sel.selected
    <3>1. AwsExecEnv(base, sel, there) = RemoveKeys(b, {"AWS_ACCESS_KEY_ID", "AWS_SECRET_ACCESS_KEY"})
      BY <1>2, <2>2 DEF AwsExecEnv, AwsProfileEnv
    <3> HIDE DEF b
    <3>2. \A e : /\ RemoveKeys(e, {"AWS_ACCESS_KEY_ID", "AWS_SECRET_ACCESS_KEY"})["AWS_ACCESS_KEY_ID"] = ""
                 /\ RemoveKeys(e, {"AWS_ACCESS_KEY_ID", "AWS_SECRET_ACCESS_KEY"})["AWS_SESSION_TOKEN"] =
                      e["AWS_SESSION_TOKEN"]
      BY DEF RemoveKeys
    <3> QED BY <2>1, <3>1, <3>2 DEF Harmless
  <2>3. CASE sel.selected
    <3> DEFINE c == [b EXCEPT !["AWS_ACCESS_KEY_ID"] = sel.account]
               d == [AWS_SECRET_ACCESS_KEY |-> "test"]
    <3>1. AwsExecEnv(base, sel, there) = SetIfAbsent(c, d)
      BY <1>2, <2>3 DEF AwsExecEnv, AwsProfileEnv
    <3>2. c["AWS_ACCESS_KEY_ID"] = sel.account /\ c["AWS_SESSION_TOKEN"] = ""
      <4> HIDE DEF b
      <4> QED BY <2>1
    <3>3. "AWS_SESSION_TOKEN" \notin DOMAIN d
      OBVIOUS
    <3> HIDE DEF c, d
    <3>4. SetIfAbsent(c, d)["AWS_ACCESS_KEY_ID"] = sel.account /\ SetIfAbsent(c, d)["AWS_SESSION_TOKEN"] = ""
      BY <1>0, <3>2, <3>3
    <3> QED BY <3>1, <3>4 DEF Harmless
  <2> QED BY <2>2, <2>3
<1> QED BY <1>1, <1>2

\* Of each group of keys for one service at most one is left. (override.go)
LEMMA OneKeyOfEach ==
  ASSUME NEW keys, NEW g \in EndpointAliasGroups
  PROVE  Cardinality({i \in DOMAIN g : g[i] \in DedupeAliasKeys(keys)}) <= 1
<1> DEFINE left == {i \in DOMAIN g : g[i] \in DedupeAliasKeys(keys)}
<1>1. DOMAIN g \subseteq Nat
  BY DEF EndpointAliasGroups
<1>2. \A i \in left : g[i] \in keys /\ ~\E j \in 1..(i - 1) : g[j] \in keys
  BY DEF DedupeAliasKeys
<1>3. \A i, j \in left : i = j
  <2>1. DOMAIN g = 1..2 \/ DOMAIN g = 1..3
    BY DEF EndpointAliasGroups
  <2>2. ASSUME NEW i \in left, NEW j \in left, i < j PROVE FALSE
    <3>1. i \in 1..(j - 1)
      BY <2>1, <2>2
    <3> QED BY <1>2, <3>1
  <2>3. ASSUME NEW i \in left, NEW j \in left, i # j PROVE FALSE
    <3>1. i < j \/ j < i
      BY <1>1, <2>3
    <3> QED BY <2>2, <3>1
  <2> QED BY <2>3
<1> HIDE DEF left
<1>4. Cardinality(left) <= 1
  <2>1. CASE left = {}
    <3>1. Cardinality({}) = 0
      BY FS_EmptySet, Zenon
    <3> QED BY <2>1, <3>1
  <2>2. CASE left # {}
    <3>1. PICK i \in left : TRUE
      BY <2>2
    <3>2. left = {i}
      BY <1>3, <3>1
    <3>3. Cardinality({i}) = 1
      BY FS_Singleton, Zenon
    <3> QED BY <3>2, <3>3
  <2> QED BY <2>1, <2>2
<1> QED BY <1>4 DEF left

LEMMA NoneCounted ==
  ASSUME NEW S, S = {}
  PROVE  Cardinality(S) <= 1
<1>1. Cardinality({}) = 0
  BY FS_EmptySet, Zenon
<1> QED BY <1>1

\* What a run's own file redirects. (override.go, backend.go)
LEMMA OwnRedirects ==
  ASSUME RouteTypes, NEW p \in ProxyProcs, pxAccount[p].account \notin {"", "AKIA"},
         pxReq[p].dir.backend /\ pxReq[p].dir.bucket => pxAccount[p].account \in buckets
  PROVE  Redirects(p, Override(p, p, ~IsInit(pxArgs[p])))
<1> DEFINE dir == pxReq[p].dir
           file == Override(p, p, ~IsInit(pxArgs[p]))
<1>0. dir \in Dirs
  BY ProxyConstants DEF RouteTypes, RequestTyped
<1>1. /\ file.author = p /\ file.account = pxAccount[p].account
      /\ file.providers = IF ~IsInit(pxArgs[p]) THEN DiscoverAWSAliases(dir) ELSE {}
      /\ file.keys = IF ~IsInit(pxArgs[p]) THEN DedupeAliasKeys(dir.keys) ELSE {}
      /\ dir.backend => file.backend = BackendBlock(dir.attrs, dir.legacy)
  BY DEF Override
<1> HIDE DEF file
<1>2. DiscoverAWSAliases(dir) # {} /\ dir.aliases \subseteq DiscoverAWSAliases(dir)
  BY DEF DiscoverAWSAliases
<1>3. \A g \in EndpointAliasGroups : Cardinality({i \in DOMAIN g : g[i] \in file.keys}) <= 1
  <2> SUFFICES ASSUME NEW g \in EndpointAliasGroups
               PROVE  Cardinality({i \in DOMAIN g : g[i] \in file.keys}) <= 1
    OBVIOUS
  <2>1. CASE file.keys = {}
    <3>1. {i \in DOMAIN g : g[i] \in file.keys} = {}
      BY <2>1
    <3> QED BY <3>1, NoneCounted
  <2>2. CASE file.keys = DedupeAliasKeys(dir.keys)
    BY <2>2, OneKeyOfEach
  <2> QED BY <1>1, <2>1, <2>2
<1>4. /\ BackendEndpoints(dir.legacy) \subseteq DOMAIN BackendBlock(dir.attrs, dir.legacy)
      /\ \A k \in ManagedBackendKeys \cap DOMAIN BackendBlock(dir.attrs, dir.legacy) :
           BackendBlock(dir.attrs, dir.legacy)[k] = "lstk"
  <2>1. BackendEndpoints(dir.legacy) \subseteq ManagedBackendArgs(dir.attrs, dir.legacy)
    BY DEF ManagedBackendArgs
  <2>2. UserAttrs(dir.attrs) \cap ManagedBackendKeys = {}
    BY DEF UserAttrs
  <2> QED BY <2>1, <2>2 DEF BackendBlock
<1> HIDE DEF dir
<1>5. /\ dir.backend => BackendEndpoints(dir.legacy) \subseteq DOMAIN file.backend
      /\ dir.backend => \A k \in ManagedBackendKeys \cap DOMAIN file.backend : file.backend[k] = "lstk"
      /\ dir.backend /\ dir.bucket => file.account \in buckets
      /\ IF IsInit(pxArgs[p]) THEN file.providers = {}
         ELSE file.providers # {} /\ dir.aliases \subseteq file.providers
  BY <1>1, <1>2, <1>4 DEF dir
<1> USE DEF file
<1> QED BY <1>1, <1>3, <1>5, Zenon DEF Redirects, dir

\* A step leaves what the others know, and no bucket goes away.
LEMMA OthersKept ==
  ASSUME Types, RouteTypes, NEW p \in ProxyProcs, ProxyStep(p)
  PROVE  /\ RouteTypes' /\ buckets \subseteq buckets'
         /\ \A q \in ProxyProcs \ {p} :
              /\ pxUrl'[q] = pxUrl[q] /\ pxAccount'[q] = pxAccount[q] /\ pxChild'[q] = pxChild[q]
              /\ pxEnd'[q] = pxEnd[q]
<1> USE DEF Types, RouteTypes, PxGo, PxEnd, PxParsed, TerraformFile, Signals
<1>1. CASE AwsInstalled(p) \/ TakeFlags(p) \/ AzNotReady(p) \/ RunsWithoutEndpoint(p) \/ TakesTarget(p)
  BY <1>1 DEF AwsInstalled, TakeFlags, AzNotReady, RunsWithoutEndpoint, TakesTarget
<1>2. CASE RunsOffline(p) \/ LooksInDocker(p) \/ RequireEmulator(p) \/ LookPath(p)
  BY <1>2 DEF RunsOffline, LooksInDocker, RequireEmulator, LookPath
<1>3. CASE TerraformSetup(p) \/ EnsureSafeToWrite(p) \/ GenerateOverride(p)
  BY <1>3 DEF TerraformSetup, EnsureSafeToWrite, GenerateOverride
<1>4. CASE DiscoverEndpointKeys(p) \/ TerraformDryRun(p) \/ ProvisionBackend(p)
  BY <1>4 DEF DiscoverEndpointKeys, TerraformDryRun, ProvisionBackend
<1>5. CASE NotifySignals(p) \/ StartTool(p) \/ ToolExits(p)
  BY <1>5 DEF NotifySignals, StartTool, ToolExits, ProxyEnds
<1>6. CASE CancelContext(p) \/ ProxyKilled(p)
  BY <1>6 DEF CancelContext, ProxyKilled
<1>7. CASE RelaySignal(p)
  BY <1>7 DEF RelaySignal
<1>8. CASE \E sig \in ChildSignals : Signalled(p, sig)
  BY <1>8 DEF Signalled
<1> QED BY <1>1, <1>2, <1>3, <1>4, <1>5, <1>6, <1>7, <1>8 DEF ProxyStep

\* The steps that only move on, or end: nothing the command knows changes.
ToolMoves(p) ==
  /\ UNCHANGED <<pxReq, pxArgs, pxAccount, pxUrl>>
  /\ pxAt'[p] = pxAt[p] \/ (pxAt'[p] \in ToolStages /\ pxAt[p] \in ToolStages
                              /\ (pxAt'[p] \in TerraformStages => pxReq[p].tool = "terraform"))
LEMMA PlainRoute ==
  ASSUME RouteTypes, NEW p \in ProxyProcs, RouteInv(p), ToolMoves(p)
  PROVE  RouteInv(p)'
<1>1. NeedsEmulator(p)' <=> NeedsEmulator(p)
  BY DEF NeedsEmulator, ToolMoves
<1>2. pxAt[p] \in ToolStages => pxAt[p] \notin {"installed", "flags", "emulator"}
  BY DEF ToolStages, TerraformStages
<1>3. pxAt'[p] \in ToolStages => pxAt'[p] \notin {"installed", "flags", "emulator"}
  BY DEF ToolStages, TerraformStages
<1> QED BY <1>1, <1>2, <1>3 DEF RouteInv, ToolMoves

\* Past the route every step is plain.
LEMMA ToolStepsPlain ==
  ASSUME Types, NEW p \in ProxyProcs, RouteInv(p), LookedInv(p),
         \/ LookPath(p) \/ TerraformSetup(p) \/ EnsureSafeToWrite(p) \/ GenerateOverride(p)
         \/ DiscoverEndpointKeys(p) \/ TerraformDryRun(p) \/ ProvisionBackend(p) \/ NotifySignals(p)
         \/ StartTool(p) \/ ToolExits(p) \/ CancelContext(p) \/ RelaySignal(p) \/ ProxyKilled(p)
         \/ (\E sig \in ChildSignals : Signalled(p, sig))
  PROVE  ToolMoves(p)
<1> USE DEF Types, PxAt, PxGo, PxEnd, PxParsed, TerraformFile, Signals, ToolMoves, ToolStages, TerraformStages
<1>1. CASE LookPath(p) BY <1>1 DEF LookPath
<1>2. CASE TerraformSetup(p) BY <1>2 DEF TerraformSetup, RouteInv
<1>3. CASE EnsureSafeToWrite(p) BY <1>3 DEF EnsureSafeToWrite, RouteInv
<1>4. CASE GenerateOverride(p) BY <1>4 DEF GenerateOverride, RouteInv
<1>5. CASE DiscoverEndpointKeys(p) BY <1>5 DEF DiscoverEndpointKeys, RouteInv
<1>6. CASE TerraformDryRun(p) BY <1>6 DEF TerraformDryRun
<1>7. CASE ProvisionBackend(p) BY <1>7 DEF ProvisionBackend
<1>8. CASE NotifySignals(p) BY <1>8 DEF NotifySignals
<1>9. CASE StartTool(p) \/ ToolExits(p) BY <1>9 DEF StartTool, ToolExits, ProxyEnds
<1>10. CASE CancelContext(p) \/ RelaySignal(p) \/ ProxyKilled(p)
  BY <1>10 DEF CancelContext, RelaySignal, ProxyKilled
<1>11. CASE \E sig \in ChildSignals : Signalled(p, sig) BY <1>11 DEF Signalled
<1> QED BY <1>1, <1>2, <1>3, <1>4, <1>5, <1>6, <1>7, <1>8, <1>9, <1>10, <1>11

LEMMA RouteStep ==
  ASSUME Types, RouteTypes, NEW p \in ProxyProcs, RouteInv(p), LookedInv(p), ProxyStep(p)
  PROVE  RouteInv(p)'
<1> USE DEF Types, PxAt, PxGo, PxEnd, PxParsed
<1>0. RequestTyped(pxReq[p])
  BY ProxyConstants DEF RouteTypes
<1>1. Runner(p) \in ToolStages /\ (Runner(p) \in TerraformStages => pxReq[p].tool = "terraform")
      /\ Runner(p) \notin {"installed", "flags", "emulator"}
  BY DEF Runner, ToolStages, TerraformStages
<1>2. GivenType(p) = "docker" => IsSet(pxReq[p].given) = {}
  BY <1>0, DockerMeansNoneGiven DEF GivenType
<1>R. "route" \notin ToolStages /\ "emulator" \notin ToolStages /\ "flags" \notin ToolStages
      /\ TerraformStages \subseteq ToolStages /\ "installed" \notin ToolStages
  BY DEF ToolStages, TerraformStages
<1>3. CASE AwsInstalled(p)
  BY <1>3, <1>R DEF AwsInstalled, RouteInv
<1>4. CASE TakeFlags(p)
  <2> DEFINE own == LeadingFlags(pxReq[p].tool)
             args == StripGlobalFlags(pxReq[p].args)
             account == FlagValue(args, own, "--account")
  <2>0. pxAt[p] = "flags" /\ UNCHANGED <<pxReq, pxUrl>>
    BY <1>4 DEF TakeFlags
  <2>1. CASE pxAt'[p] = pxAt[p]
    BY <2>0, <2>1, <1>R DEF RouteInv
  <2>2. CASE pxAt'[p] # pxAt[p]
    <3>1. pxAt'[p] = "route" /\ ~MissingValue(args, own) /\ (account = "" \/ IsAccountID(account))
      BY <1>4, <2>2 DEF TakeFlags
    <3>2. pxAccount'[p] = ResolveAccountSelection(account, pxReq[p].env)
      BY <1>4, <3>1 DEF TakeFlags, RouteTypes
    <3>3. pxAccount'[p].account \notin {"", "AKIA"}
      <4> HIDE DEF account
      <4> QED BY <3>1, <3>2, AccountSafe
    <3> QED BY <2>0, <3>1, <3>3, <1>R DEF RouteInv
  <2> QED BY <2>1, <2>2
<1>5. CASE AzNotReady(p)
  BY <1>5, PlainRoute DEF AzNotReady, ToolMoves
<1>6. CASE RunsWithoutEndpoint(p)
  BY <1>1, <1>6, <1>R DEF RunsWithoutEndpoint, SkipsEndpoint, RouteInv, NeedsEmulator
<1>7. CASE TakesTarget(p)
  BY <1>1, <1>7, <1>R DEF TakesTarget, RouteInv, RouteTypes
<1>8. CASE RunsOffline(p)
  BY <1>1, <1>2, <1>8, <1>R DEF RunsOffline, RouteInv, RouteTypes
<1>9. CASE LooksInDocker(p)
  BY <1>2, <1>9, <1>R DEF LooksInDocker, RouteInv
<1>10. CASE RequireEmulator(p)
  BY <1>1, <1>10, <1>R DEF RequireEmulator, RouteInv, RouteTypes
<1> QED BY <1>3, <1>4, <1>5, <1>6, <1>7, <1>8, <1>9, <1>10, ToolStepsPlain, PlainRoute DEF ProxyStep

\* Only terraform commands touch the override file.
LEMMA OnlyTerraformWrites ==
  ASSUME NEW p \in ProxyProcs, RouteInv(p), ProxyStep(p), override' # override
  PROVE  pxReq[p].tool = "terraform"
<1> USE DEF PxAt, RouteInv, TerraformStages
<1>1. CASE GenerateOverride(p) \/ DiscoverEndpointKeys(p) \/ ProvisionBackend(p)
  BY <1>1 DEF GenerateOverride, DiscoverEndpointKeys, ProvisionBackend
<1>2. CASE StartTool(p) \/ ToolExits(p)
  BY <1>2 DEF StartTool, ToolExits, ProxyEnds, HasOverride
<1>3. CASE ~(GenerateOverride(p) \/ DiscoverEndpointKeys(p) \/ ProvisionBackend(p) \/ StartTool(p) \/ ToolExits(p))
  <2>1. override' = override
    BY <1>3 DEF ProxyStep, AwsInstalled, TakeFlags, AzNotReady, RunsWithoutEndpoint, TakesTarget, RunsOffline,
                LooksInDocker, RequireEmulator, LookPath, TerraformSetup, EnsureSafeToWrite, TerraformDryRun,
                NotifySignals, CancelContext, RelaySignal, ProxyKilled, Signalled, TerraformFile
  <2> QED BY <2>1
<1> QED BY <1>1, <1>2, <1>3


\* The command's own file, from the write to the end of the tool.
LEMMA OwnFileStep ==
  ASSUME Types, RouteTypes, NEW p \in ProxyProcs, RouteInv(p), LookedInv(p), OwnFileInv(p), ProxyStep(p),
         pxReq' = pxReq
  PROVE  OwnFileInv(p)'
<1> USE DEF Types, RouteTypes, PxAt, PxGo, PxEnd, PxParsed, TerraformFile
<1>S. /\ Alone(p)' <=> Alone(p)
      /\ pxArgs' = pxArgs => (HasOverride(p)' <=> HasOverride(p)) /\ (IsInit(pxArgs[p])' <=> IsInit(pxArgs[p]))
      /\ UNCHANGED <<pxArgs, pxAccount>> => Override(p, p, ~IsInit(pxArgs[p]))' = Override(p, p, ~IsInit(pxArgs[p]))
  BY DEF Alone, HasOverride, Override
<1>R. {"notify", "start", "running"} \subseteq OwnStages /\ OwnStages \cap {"installed", "flags", "route", "emulator",
        "lookPath", "terraform", "check", "probeCheck", "write", "probeWrite", "probe"} = {}
  BY DEF OwnStages
<1>1. CASE AwsInstalled(p) BY <1>1, <1>R DEF AwsInstalled, OwnFileInv
<1>2. CASE TakeFlags(p)
  <2>1. pxAt'[p] \in {"flags", "route"}
    BY <1>2 DEF TakeFlags
  <2> QED BY <1>R, <2>1 DEF OwnFileInv
<1>3. CASE AzNotReady(p) BY <1>3, <1>R DEF AzNotReady, OwnFileInv
<1>4. CASE RunsWithoutEndpoint(p) \/ TakesTarget(p) \/ RunsOffline(p) \/ LooksInDocker(p) \/ RequireEmulator(p)
  <2>1. pxAt'[p] \in {"route", "emulator", "terraform", "lookPath"}
    BY <1>4 DEF RunsWithoutEndpoint, TakesTarget, RunsOffline, LooksInDocker, RequireEmulator, Runner
  <2> QED BY <1>R, <2>1 DEF OwnFileInv
<1>5. CASE LookPath(p)
  <2>1. pxReq[p].tool # "terraform"
    BY <1>5 DEF LookPath, LookedInv
  <2> QED BY <2>1 DEF OwnFileInv, HasOverride
<1>6. CASE TerraformSetup(p)
  <2>1. pxAt'[p] \notin OwnStages \/ IsUnproxied(pxArgs[p]) \/ (IsInit(pxArgs[p]) /\ ~pxReq[p].dir.backend)
    BY <1>6, <1>R DEF TerraformSetup
  <2>2. UNCHANGED <<pxArgs, pxAccount>>
    BY <1>6 DEF TerraformSetup
  <2>3. pxAt'[p] \in OwnStages => ~HasOverride(p)'
    BY <1>S, <2>1, <2>2 DEF HasOverride
  <2> QED BY <1>R, <2>3 DEF OwnFileInv
<1>7. CASE EnsureSafeToWrite(p)
  <2>1. pxAt'[p] \in {"check", "probeCheck", "write", "probeWrite"}
    BY <1>7 DEF EnsureSafeToWrite
  <2> QED BY <1>R, <2>1 DEF OwnFileInv
<1>8. CASE GenerateOverride(p)
  <2>0. UNCHANGED <<pxArgs, pxAccount, buckets>>
    BY <1>8 DEF GenerateOverride
  <2>1. CASE pxAt'[p] \notin OwnStages
    BY <1>R, <2>1 DEF OwnFileInv
  <2>2. CASE pxAt'[p] \in OwnStages
    <3>1. pxAt[p] = "write" /\ override' = Override(p, p, ~IsInit(pxArgs[p]))
      BY <1>8, <1>R, <2>2 DEF GenerateOverride
    <3>2. pxAt'[p] = "notify" => ~pxReq[p].dir.backend
      BY <1>8, <3>1 DEF GenerateOverride
    <3>3. pxAt'[p] \in {"dryRun", "provision", "notify"}
      <4>1. pxAt'[p] # pxAt[p]
        BY <1>R, <2>2, <3>1 DEF OwnStages
      <4> QED BY <1>8, <3>1, <4>1 DEF GenerateOverride
    <3> QED BY <1>S, <2>0, <3>1, <3>2, <3>3 DEF OwnFileInv
  <2> QED BY <2>1, <2>2
<1>9. CASE DiscoverEndpointKeys(p)
  <2>1. pxAt'[p] \in {"probe", "check"}
    BY <1>9 DEF DiscoverEndpointKeys
  <2> QED BY <1>R, <2>1 DEF OwnFileInv
<1>10. CASE TerraformDryRun(p)
  <2>1. pxEnd'[p] # "busy" /\ pxAt'[p] = "dryRun"
    BY <1>10 DEF TerraformDryRun
  <2> QED BY <2>1 DEF OwnFileInv
<1>11. CASE ProvisionBackend(p)
  <2>0. UNCHANGED <<pxArgs, pxAccount>> /\ pxAt[p] = "provision" /\ pxEnd[p] = "busy"
    BY <1>11 DEF ProvisionBackend
  <2>1. CASE PxEnd(p, "provision")
    BY <2>0, <2>1, <1>R DEF OwnFileInv
  <2>2. CASE ~PxEnd(p, "provision")
    <3>1. /\ pxAt'[p] = "notify" /\ pxEnd'[p] = "busy" /\ override' = override
          /\ pxReq[p].dir.bucket => pxAccount[p].account \in buckets'
      BY <1>11, <2>0, <2>2 DEF ProvisionBackend
    <3>2. pxAt[p] \in OwnStages
      BY <2>0 DEF OwnStages
    <3> QED BY <1>S, <2>0, <3>1, <3>2 DEF OwnFileInv
  <2> QED BY <2>1, <2>2
<1>12. CASE NotifySignals(p)
  <2>1. /\ UNCHANGED <<pxArgs, pxAccount, override, buckets, pxEnd>> /\ pxAt[p] = "notify" /\ pxAt'[p] = "start"
    BY <1>12 DEF NotifySignals
  <2> QED BY <1>S, <1>R, <2>1 DEF OwnFileInv
<1>13. CASE StartTool(p)
  <2>1. UNCHANGED <<pxArgs, pxAccount, buckets>> /\ pxAt[p] = "start" /\ pxAt'[p] \in {"start", "running"}
    BY <1>13 DEF StartTool, ProxyEnds
  <2>2. pxEnd'[p] # "busy" \/ UNCHANGED <<override, pxEnd>>
    BY <1>13 DEF StartTool, ProxyEnds
  <2> QED BY <1>S, <1>R, <2>1, <2>2 DEF OwnFileInv
<1>14. CASE ToolExits(p)
  <2>1. UNCHANGED <<pxArgs, pxAccount, buckets, pxAt>> /\ pxEnd'[p] # "busy"
    BY <1>14 DEF ToolExits, ProxyEnds
  <2> QED BY <1>S, <2>1 DEF OwnFileInv
<1>15. CASE CancelContext(p) \/ RelaySignal(p) \/ ProxyKilled(p) \/ \E sig \in ChildSignals : Signalled(p, sig)
  <2>1. UNCHANGED <<pxArgs, pxAccount, buckets, override, pxAt>> /\ (pxEnd'[p] = "busy" => pxEnd[p] = "busy")
    BY <1>15 DEF CancelContext, RelaySignal, ProxyKilled, Signalled
  <2> QED BY <1>S, <2>1 DEF OwnFileInv
<1> QED BY <1>1, <1>2, <1>3, <1>4, <1>5, <1>6, <1>7, <1>8, <1>9, <1>10, <1>11, <1>12, <1>13, <1>14, <1>15 DEF ProxyStep

\* What the tool is given when it is started. (proc/run.go, and the tools'
\* own exec.go)
LEMMA StartTargets ==
  ASSUME RouteTypes, NEW p \in ProxyProcs, RouteInv(p), pxAt[p] = "start", NEW there \in BOOLEAN, NEW child,
         child.env = ChildEnv(p, there), child.url = pxUrl[p]
  PROVE  Targets(p, child)
<1> DEFINE tool == pxReq[p].tool
           env == child.env
           account == pxAccount[p].account
<1>0. /\ RequestTyped(pxReq[p]) /\ account \notin {"", "AKIA"}
      /\ NeedsEmulator(p) \/ tool \notin {"terraform", "aws"} => pxUrl[p] # ""
      /\ pxUrl[p] = "docker" => IsSet(pxReq[p].given) = {}
  BY ProxyConstants DEF RouteTypes, RouteInv, ToolStages
<1>1. CASE tool = "aws" /\ pxUrl[p] # ""
  <2>1. env = AwsExecEnv(pxReq[p].env, pxAccount[p], there)
    BY <1>1 DEF ChildEnv
  <2>2. Harmless(env)
    BY <1>0, <2>1, AwsEnvSafe DEF RequestTyped
  <2> QED BY <1>0, <1>1, <2>2 DEF Targets, Harmless
<1>2. CASE tool = "sam"
  <2>1. PICK region : env = SamEnv(pxReq[p].env, "localstack", account, region)
    BY <1>0, <1>2 DEF ChildEnv
  <2>2. Pointed(env, "localstack")
    BY <1>0, <2>1, SamEnvSafe
  <2> QED BY <1>0, <1>2, <2>2 DEF Targets, Pointed, Harmless
<1>3. CASE tool = "cdk"
  <2>1. PICK region : env = CdkEnv(pxReq[p].env, "localstack", region)
    BY <1>0, <1>3 DEF ChildEnv
  <2>2. Pointed(env, "localstack")
    BY <2>1, CdkEnvSafe
  <2> QED BY <1>0, <1>3, <2>2 DEF Targets, Pointed, Harmless
<1>4. CASE tool \notin {"aws", "sam", "cdk"} \/ (tool = "aws" /\ pxUrl[p] = "")
  BY <1>0, <1>4 DEF Targets
<1> QED BY <1>1, <1>2, <1>3, <1>4

\* A child stays as it was started; its file was the command's own.
LEMMA ChildKept ==
  ASSUME NEW p \in ProxyProcs, ChildInv(p), pxReq' = pxReq, pxChild'[p] = pxChild[p], buckets \subseteq buckets',
         pxAt[p] = "running" => pxAt'[p] = "running" /\ pxArgs'[p] = pxArgs[p]
  PROVE  ChildInv(p)'
<1> SUFFICES ASSUME pxChild'[p].url # "none" PROVE ChildInv(p)'
  BY DEF ChildInv
<1>1. pxAt'[p] = "running" /\ pxArgs'[p] = pxArgs[p] /\ pxChild'[p] = pxChild[p]
  BY DEF ChildInv
<1>2. Targets(p, pxChild[p])'
  BY <1>1 DEF ChildInv, Targets, NeedsEmulator
<1>3. (HasOverride(p) /\ Alone(p))' => HasOverride(p) /\ Alone(p)
  BY <1>1 DEF HasOverride, Alone
<1>4. Redirects(p, pxChild[p].file) => Redirects(p, pxChild[p].file)'
  BY <1>1 DEF Redirects
<1> QED BY <1>1, <1>2, <1>3, <1>4 DEF ChildInv

LEMMA ChildStep ==
  ASSUME Types, RouteTypes, NEW p \in ProxyProcs, RouteInv(p), LookedInv(p), OwnFileInv(p), ChildInv(p),
         ProxyStep(p), pxReq' = pxReq, buckets \subseteq buckets'
  PROVE  ChildInv(p)'
<1> USE DEF Types, RouteTypes, PxAt, PxGo, PxEnd, PxParsed, TerraformFile
<1>1. CASE StartTool(p)
  <2>1. CASE pxChild' = pxChild
    <3>1. pxAt[p] = "start"
      BY <1>1 DEF StartTool
    <3> QED BY <2>1, <3>1, ChildKept
  <2>2. CASE pxChild' # pxChild
    <3>1. PICK there \in BOOLEAN :
            pxChild' = [pxChild EXCEPT ![p] = [env |-> ChildEnv(p, there), url |-> pxUrl[p], file |-> override]]
      BY <1>1, <2>2 DEF StartTool
    <3> DEFINE child == [env |-> ChildEnv(p, there), url |-> pxUrl[p], file |-> override]
    <3>2. pxChild'[p] = child
      BY <3>1
    <3>3. /\ pxAt[p] = "start" /\ pxEnd[p] = "busy" /\ pxAt'[p] = "running"
          /\ UNCHANGED <<pxArgs, pxAccount, override, buckets>>
      BY <1>1, <2>2 DEF StartTool
    <3>4. Targets(p, child)
      <4>1. child.env = ChildEnv(p, there) /\ child.url = pxUrl[p]
        OBVIOUS
      <4> HIDE DEF child
      <4> QED BY <3>3, <4>1, StartTargets
    <3>5. ASSUME HasOverride(p), Alone(p) PROVE Redirects(p, override)
      <4>1. override = Override(p, p, ~IsInit(pxArgs[p]))
        BY <3>3, <3>5 DEF OwnFileInv, OwnStages
      <4>2. pxReq[p].dir.backend /\ pxReq[p].dir.bucket => pxAccount[p].account \in buckets
        BY <3>3, <3>5 DEF OwnFileInv
      <4>3. pxAccount[p].account \notin {"", "AKIA"}
        BY <3>3 DEF RouteInv
      <4> QED BY <4>1, <4>2, <4>3, OwnRedirects
    <3>6. child.file = override
      OBVIOUS
    <3> HIDE DEF child
    <3>7. Targets(p, pxChild[p])' /\ (HasOverride(p)' <=> HasOverride(p)) /\ (Alone(p)' <=> Alone(p))
      BY <3>2, <3>3, <3>4 DEF Targets, NeedsEmulator, HasOverride, Alone
    <3>8. Redirects(p, override) => Redirects(p, pxChild[p].file)'
      BY <3>2, <3>3, <3>6 DEF Redirects
    <3> QED BY <3>3, <3>5, <3>7, <3>8 DEF ChildInv
  <2> QED BY <2>1, <2>2
<1>2. CASE ~StartTool(p)
  <2>1. pxChild' = pxChild
    BY <1>2 DEF ProxyStep, AwsInstalled, TakeFlags, AzNotReady, RunsWithoutEndpoint, TakesTarget, RunsOffline,
                LooksInDocker, RequireEmulator, LookPath, TerraformSetup, EnsureSafeToWrite, TerraformDryRun,
                GenerateOverride, DiscoverEndpointKeys, ProvisionBackend, ToolExits,
                NotifySignals, CancelContext, RelaySignal, ProxyKilled, Signalled
  <2>2. pxAt[p] = "running" => pxAt' = pxAt /\ pxArgs' = pxArgs
    BY DEF ProxyStep, AwsInstalled, TakeFlags, AzNotReady, RunsWithoutEndpoint, TakesTarget, RunsOffline,
           LooksInDocker, RequireEmulator, LookPath, TerraformSetup, EnsureSafeToWrite, TerraformDryRun,
           GenerateOverride, DiscoverEndpointKeys, ProvisionBackend, ToolExits, StartTool, ProxyEnds,
           NotifySignals, CancelContext, RelaySignal, ProxyKilled, Signalled
  <2> QED BY <2>1, <2>2, ChildKept
<1> QED BY <1>1, <1>2

\* Of another command: it is where it was, and if it is alone with its file
\* nobody wrote there.
LEMMA TargetsOfOthers ==
  ASSUME Types, TargetInv, NEW p \in ProxyProcs, ProxyStep(p), NEW q \in ProxyProcs, q # p
  PROVE  RouteInv(q)' /\ OwnFileInv(q)' /\ ChildInv(q)'
<1>1. /\ pxReq' = pxReq /\ pxAt'[q] = pxAt[q] /\ pxArgs'[q] = pxArgs[q] /\ pxUrl'[q] = pxUrl[q]
      /\ pxAccount'[q] = pxAccount[q] /\ pxChild'[q] = pxChild[q] /\ pxEnd'[q] = pxEnd[q]
      /\ buckets \subseteq buckets'
  BY OthersUntouched, OthersKept DEF TargetInv
<1>2. RouteInv(q) /\ OwnFileInv(q) /\ ChildInv(q)
  BY DEF TargetInv
<1>3. RouteInv(q)'
  BY <1>1, <1>2 DEF RouteInv, NeedsEmulator
<1>4. ChildInv(q)'
  BY <1>1, <1>2, ChildKept
<1>5. OwnFileInv(q)'
  <2>1. (HasOverride(q)' <=> HasOverride(q)) /\ (Alone(q)' <=> Alone(q))
        /\ Override(q, q, ~IsInit(pxArgs[q]))' = Override(q, q, ~IsInit(pxArgs[q]))
    BY <1>1 DEF HasOverride, Alone, Override
  <2>2. Alone(q) => override' = override
    BY OnlyTerraformWrites DEF Alone, TargetInv
  <2> QED BY <1>1, <1>2, <2>1, <2>2 DEF OwnFileInv
<1> QED BY <1>3, <1>4, <1>5

LEMMA TargetInit == ProxyInit => TargetInv
<1> SUFFICES ASSUME ProxyInit PROVE TargetInv
  OBVIOUS
<1>1. RouteTypes
  BY DEF ProxyInit, RouteTypes
<1>2. ASSUME NEW p \in ProxyProcs PROVE RouteInv(p) /\ OwnFileInv(p) /\ ChildInv(p)
  <2>1. pxAt[p] \in {"installed", "flags"} /\ pxUrl[p] = "" /\ pxChild[p] = NoChild
    BY DEF ProxyInit
  <2>2. RouteInv(p)
    BY <2>1 DEF RouteInv, ToolStages, TerraformStages
  <2>3. OwnFileInv(p)
    BY <2>1 DEF OwnFileInv, OwnStages
  <2>4. ChildInv(p)
    <3>1. NoChild.url = "none"
      BY DEF NoChild
    <3> QED BY <2>1, <3>1 DEF ChildInv
  <2> QED BY <2>2, <2>3, <2>4
<1> QED BY <1>1, <1>2 DEF TargetInv

LEMMA TargetNext == ProxyInv /\ TargetInv /\ [ProxyNext]_pxVars => TargetInv'
<1> SUFFICES ASSUME ProxyInv, TargetInv, [ProxyNext]_pxVars PROVE TargetInv'
  OBVIOUS
<1>1. ASSUME NEW p \in ProxyProcs, ProxyStep(p) PROVE TargetInv'
  <2>1. RouteTypes' /\ pxReq' = pxReq /\ buckets \subseteq buckets'
    <3>1. pxReq' = pxReq
      BY <1>1 DEF ProxyStep, AwsInstalled, TakeFlags, AzNotReady, RunsWithoutEndpoint, TakesTarget, RunsOffline,
                  LooksInDocker, RequireEmulator, LookPath, TerraformSetup, EnsureSafeToWrite, GenerateOverride,
                  DiscoverEndpointKeys, TerraformDryRun, ProvisionBackend, NotifySignals, StartTool, ToolExits,
                  CancelContext, RelaySignal, ProxyKilled, Signalled, PxParsed
    <3> QED BY <1>1, <3>1, OthersKept DEF ProxyInv, TargetInv
  <2>2. RouteInv(p)' /\ OwnFileInv(p)' /\ ChildInv(p)'
    BY <1>1, <2>1, RouteStep, OwnFileStep, ChildStep DEF ProxyInv, TargetInv
  <2>3. \A q \in ProxyProcs : q # p => RouteInv(q)' /\ OwnFileInv(q)' /\ ChildInv(q)'
    BY <1>1, TargetsOfOthers DEF ProxyInv
  <2> QED BY <2>1, <2>2, <2>3 DEF TargetInv
<1>2. CASE UserWritesOverride
  <2>0. override.author = "none" /\ UNCHANGED <<pxReq, pxArgs, pxAccount, pxAt, pxEnd, pxUrl, pxChild, buckets>>
    BY <1>2 DEF UserWritesOverride, PxParsed
  <2>1. ASSUME NEW p \in ProxyProcs PROVE OwnFileInv(p)'
    <3>1. Override(p, p, ~IsInit(pxArgs[p])).author = p /\ p # "none"
      BY ProxyConstants DEF Override
    <3>2. override # Override(p, p, ~IsInit(pxArgs[p]))
      BY <2>0, <3>1
    <3> QED BY <2>0, <3>2 DEF TargetInv, OwnFileInv, HasOverride, Alone
  <2>2. RouteTypes' /\ \A p \in ProxyProcs : RouteInv(p)'
    BY <2>0 DEF TargetInv, RouteTypes, RouteInv, NeedsEmulator
  <2>3. ASSUME NEW p \in ProxyProcs PROVE ChildInv(p)'
    BY <2>0, ChildKept DEF TargetInv
  <2> QED BY <2>1, <2>2, <2>3 DEF TargetInv
<1>3. CASE UNCHANGED pxVars
  <2>0. UNCHANGED <<pxReq, pxArgs, pxAccount, pxAt, pxEnd, pxUrl, pxChild, buckets, override>>
    BY <1>3 DEF pxVars
  <2>1. RouteTypes' /\ \A p \in ProxyProcs : RouteInv(p)' /\ OwnFileInv(p)'
    BY <2>0 DEF TargetInv, RouteTypes, RouteInv, NeedsEmulator, OwnFileInv, HasOverride, Alone, Override
  <2>2. ASSUME NEW p \in ProxyProcs PROVE ChildInv(p)'
    BY <2>0, ChildKept DEF TargetInv
  <2> QED BY <2>1, <2>2 DEF TargetInv
<1> QED BY <1>1, <1>2, <1>3 DEF ProxyNext

\* Whatever the command line, the environment, what answers at the endpoint
\* and what else runs: a tool that is pointed at an emulator cannot reach the
\* cloud with the user's key, and terraform, alone in its directory, has
\* provider and backend redirected to an account whose bucket is there.
\* (credentials.go, override.go, backend.go, provision.go)
THEOREM ToolsTargetEmulator == ProxySpec => []ToolTargetsEmulator
<1>1. ProxySpec => [](ProxyInv /\ TargetInv)
  <2>1. ProxyInit => ProxyInv /\ TargetInv
    BY ProxyInitInv, TargetInit
  <2>2. ProxyInv /\ TargetInv /\ [ProxyNext]_pxVars => (ProxyInv /\ TargetInv)'
    BY ProxyNextInv, TargetNext
  <2> QED BY <2>1, <2>2, PTL DEF ProxySpec
<1>2. ProxyInv /\ TargetInv => ToolTargetsEmulator
  BY DEF TargetInv, ChildInv, ToolTargetsEmulator
<1> QED BY <1>1, <1>2, PTL
-----------------------------------------------------------------------------
\* Induction over the natural numbers, for a set.
Below == {ss \in Nat \X Nat : ss[1] < ss[2]}
LEMMA BelowWF == IsWellFoundedOn(Below, Nat)
<1>1. OpToRel(<, Nat) = Below
  BY DEF OpToRel, Below
<1> QED BY <1>1, NatLessThanWellFounded

LEMMA SetInduction ==
  ASSUME NEW S, 0 \in S, \A n \in Nat : n \in S => n + 1 \in S
  PROVE  Nat \subseteq S
<1> DEFINE T == Nat \ S
<1> SUFFICES ASSUME T # {} PROVE FALSE
  OBVIOUS
<1>1. T \subseteq Nat
  OBVIOUS
<1>2. PICK x \in T : \A y \in T : ~ (<<y, x>> \in Below)
  <2> HIDE DEF T
  <2> QED BY <1>1, BelowWF, WFMin
<1>3. \A y \in T : ~(y < x)
  BY <1>1, <1>2 DEF Below
<1>4. x # 0 /\ x \in Nat /\ x - 1 \in Nat /\ x - 1 < x
  OBVIOUS
<1>5. x - 1 \in S
  BY <1>3, <1>4
<1> QED BY <1>4, <1>5

\* The roles of the first n tokens.
IsRoles(args, own, n, r) ==
  r = [i \in 1..n |-> RoleAfter(args, own, i, IF i = 1 THEN "start" ELSE r[i - 1])]

LEMMA RolesExist ==
  ASSUME NEW args \in Seq(Tokens), NEW own
  PROVE  \A n \in Nat : \E r : IsRoles(args, own, n, r)
<1> DEFINE S == {n \in Nat : \E r : IsRoles(args, own, n, r)}
<1>1. 0 \in S
  <2>1. IsRoles(args, own, 0, [i \in 1..0 |-> "start"])
    BY DEF IsRoles
  <2> QED BY <2>1
<1>2. ASSUME NEW n \in Nat, n \in S PROVE n + 1 \in S
  <2>1. PICK r : IsRoles(args, own, n, r)
    BY <1>2
  <2> DEFINE q == [i \in 1..(n + 1) |->
                     IF i <= n THEN r[i] ELSE RoleAfter(args, own, i, IF i = 1 THEN "start" ELSE r[i - 1])]
  <2>2. ASSUME NEW i \in 1..(n + 1)
        PROVE  q[i] = RoleAfter(args, own, i, IF i = 1 THEN "start" ELSE q[i - 1])
    <3>1. i = 1 \/ (i - 1 \in 1..(n + 1) /\ i - 1 <= n)
      OBVIOUS
    <3>2. i = 1 \/ q[i - 1] = r[i - 1]
      BY <3>1
    <3>3. CASE i <= n
      <4>1. r[i] = RoleAfter(args, own, i, IF i = 1 THEN "start" ELSE r[i - 1])
        BY <2>1, <3>3 DEF IsRoles
      <4>2. q[i] = r[i]
        BY <3>3
      <4> HIDE DEF q
      <4> QED BY <3>2, <4>1, <4>2
    <3>4. CASE ~(i <= n)
      <4>2. q[i] = RoleAfter(args, own, i, IF i = 1 THEN "start" ELSE r[i - 1])
        BY <3>4
      <4> HIDE DEF q
      <4> QED BY <3>2, <4>2
    <3> QED BY <3>3, <3>4
  <2>3. q = [i \in 1..(n + 1) |-> q[i]]
    OBVIOUS
  <2> HIDE DEF q
  <2>4. IsRoles(args, own, n + 1, q)
    BY <2>2, <2>3 DEF IsRoles
  <2> QED BY <2>4
<1> HIDE DEF S
<1>3. Nat \subseteq S
  BY <1>1, <1>2, SetInduction
<1> QED BY <1>3 DEF S

LEMMA RolesAre ==
  ASSUME NEW args \in Seq(Tokens), NEW own
  PROVE  IsRoles(args, own, Len(args), Roles(args, own))
<1>1. \E r : IsRoles(args, own, Len(args), r)
  BY RolesExist
<1> QED BY <1>1 DEF Roles, IsRoles

\* What follows an action is the tool's, and the first action is a word; so
\* is the second of two words in a row.
LEMMA RoleFacts ==
  ASSUME NEW args \in Seq(Tokens), NEW own, NEW r, IsRoles(args, own, Len(args), r), NEW i \in 1..Len(args)
  PROVE  /\ r[i] \in {"own", "ownValue", "flag", "flagValue", "action"}
         /\ r[i] = "flag" => args[i].name \notin own
         /\ r[i] = "flagValue" => Bare(args[i])
         /\ r[i] = "action" => Bare(args[i]) \/ (i > 1 /\ r[i - 1] = "action")
         /\ i > 1 /\ r[i - 1] = "action" => r[i] = "action"
         /\ Bare(args[i]) => r[i] \in {"ownValue", "flagValue", "action"}
         /\ i > 1 /\ r[i - 1] \in {"ownValue", "flagValue", "action"} /\ Bare(args[i]) => r[i] = "action"
<1>1. PICK prev : prev = IF i = 1 THEN "start" ELSE r[i - 1]
  OBVIOUS
<1>2. r[i] = RoleAfter(args, own, i, prev)
  BY <1>1 DEF IsRoles
<1>3. CASE prev = "action"
  BY <1>1, <1>2, <1>3 DEF RoleAfter
<1>4. CASE prev = "own" /\ ~Attached(args[i - 1])
  BY <1>1, <1>2, <1>4 DEF RoleAfter
<1>5. CASE prev # "action" /\ (prev = "own" => Attached(args[i - 1])) /\ ~Bare(args[i])
  BY <1>1, <1>2, <1>5 DEF RoleAfter
<1>6. CASE prev = "flag" /\ Bare(args[i])
  BY <1>1, <1>2, <1>6 DEF RoleAfter
<1>7. CASE prev \notin {"action", "flag"} /\ (prev = "own" => Attached(args[i - 1])) /\ Bare(args[i])
  BY <1>1, <1>2, <1>7 DEF RoleAfter
<1> QED BY <1>3, <1>4, <1>5, <1>6, <1>7

LEMMA ActionStays ==
  ASSUME NEW args \in Seq(Tokens), NEW own, NEW r, IsRoles(args, own, Len(args), r),
         NEW i \in 1..Len(args), r[i] = "action"
  PROVE  \A j \in i..Len(args) : r[j] = "action"
<1> DEFINE S == {n \in Nat : i + n <= Len(args) => r[i + n] = "action"}
<1>1. 0 \in S
  OBVIOUS
<1>2. ASSUME NEW n \in Nat, n \in S PROVE n + 1 \in S
  <2> SUFFICES ASSUME i + (n + 1) <= Len(args) PROVE r[i + (n + 1)] = "action"
    OBVIOUS
  <2>1. r[i + n] = "action"
    BY <1>2
  <2>2. PICK h \in 1..Len(args) : h = i + (n + 1)
    OBVIOUS
  <2>3. h > 1 /\ h - 1 = i + n
    BY <2>2
  <2>4. h > 1 /\ r[h - 1] = "action" => r[h] = "action"
    BY RoleFacts
  <2> QED BY <2>1, <2>2, <2>3, <2>4
<1> HIDE DEF S
<1>3. Nat \subseteq S
  BY <1>1, <1>2, SetInduction
<1>4. ASSUME NEW j \in i..Len(args) PROVE r[j] = "action"
  <2>1. PICK n \in Nat : j = i + n
    <3>1. j - i \in Nat /\ j = i + (j - i)
      OBVIOUS
    <3> QED BY <3>1
  <2>2. n \in S
    BY <1>3
  <2> QED BY <2>1, <2>2 DEF S
<1> QED BY <1>4

LEMMA FirstActionIsWord ==
  ASSUME NEW args \in Seq(Tokens), NEW own, NEW r, IsRoles(args, own, Len(args), r)
  PROVE  \A i \in 1..Len(args) : r[i] = "action" => \E h \in 1..i : r[h] = "action" /\ Bare(args[h])
<1> DEFINE S == {n \in Nat : n \in 1..Len(args) /\ r[n] = "action" => \E h \in 1..n : r[h] = "action" /\ Bare(args[h])}
<1>1. 0 \in S
  OBVIOUS
<1>2. ASSUME NEW n \in Nat, n \in S PROVE n + 1 \in S
  <2> SUFFICES ASSUME n + 1 \in 1..Len(args), r[n + 1] = "action"
               PROVE  \E h \in 1..(n + 1) : r[h] = "action" /\ Bare(args[h])
    OBVIOUS
  <2>1. PICK i \in 1..Len(args) : i = n + 1
    OBVIOUS
  <2>2. r[i] = "action" => Bare(args[i]) \/ (i > 1 /\ r[i - 1] = "action")
    BY RoleFacts
  <2>3. CASE Bare(args[i])
    BY <2>1, <2>3
  <2>4. CASE i > 1 /\ r[i - 1] = "action"
    <3>1. i - 1 = n /\ n \in 1..Len(args)
      BY <2>1, <2>4
    <3>2. PICK h \in 1..n : r[h] = "action" /\ Bare(args[h])
      BY <1>2, <2>4, <3>1
    <3>3. h \in 1..(n + 1)
      OBVIOUS
    <3> QED BY <3>2, <3>3
  <2> QED BY <2>1, <2>2, <2>3, <2>4
<1> HIDE DEF S
<1>3. Nat \subseteq S
  BY <1>1, <1>2, SetInduction
<1>4. ASSUME NEW i \in 1..Len(args), r[i] = "action" PROVE \E h \in 1..i : r[h] = "action" /\ Bare(args[h])
  <2>1. i \in S
    BY <1>3
  <2> QED BY <1>4, <2>1 DEF S
<1> QED BY <1>4

\* What is kept of the first n tokens.
IsKept(args, drop, n, k) ==
  k = [m \in 0..n |-> IF m = 0 THEN <<>>
                      ELSE IF m \in drop THEN k[m - 1] ELSE Append(k[m - 1], args[m])]

LEMMA KeptExist ==
  ASSUME NEW args \in Seq(Tokens), NEW drop
  PROVE  \A n \in Nat : \E k : IsKept(args, drop, n, k)
<1> DEFINE S == {n \in Nat : \E k : IsKept(args, drop, n, k)}
<1>1. 0 \in S
  <2>1. IsKept(args, drop, 0, [m \in 0..0 |-> <<>>])
    BY DEF IsKept
  <2> QED BY <2>1
<1>2. ASSUME NEW n \in Nat, n \in S PROVE n + 1 \in S
  <2>1. PICK k : IsKept(args, drop, n, k)
    BY <1>2
  <2> DEFINE q == [m \in 0..(n + 1) |->
                     IF m <= n THEN k[m] ELSE IF m \in drop THEN k[m - 1] ELSE Append(k[m - 1], args[m])]
  <2>2. ASSUME NEW m \in 0..(n + 1)
        PROVE  q[m] = IF m = 0 THEN <<>> ELSE IF m \in drop THEN q[m - 1] ELSE Append(q[m - 1], args[m])
    <3>1. m = 0 \/ (m - 1 \in 0..(n + 1) /\ m - 1 <= n)
      OBVIOUS
    <3>2. m = 0 \/ q[m - 1] = k[m - 1]
      BY <3>1
    <3>3. CASE m <= n
      <4>1. k[m] = IF m = 0 THEN <<>> ELSE IF m \in drop THEN k[m - 1] ELSE Append(k[m - 1], args[m])
        <5>1. m \in 0..n
          BY <3>3
        <5> QED BY <2>1, <5>1 DEF IsKept
      <4>2. q[m] = k[m]
        BY <3>3
      <4> HIDE DEF q
      <4> QED BY <3>2, <4>1, <4>2
    <3>4. CASE ~(m <= n)
      <4>2. q[m] = (IF m \in drop THEN k[m - 1] ELSE Append(k[m - 1], args[m])) /\ m # 0
        BY <3>4
      <4> HIDE DEF q
      <4> QED BY <3>2, <4>2
    <3> QED BY <3>3, <3>4
  <2>3. q = [m \in 0..(n + 1) |-> q[m]]
    OBVIOUS
  <2> HIDE DEF q
  <2>4. IsKept(args, drop, n + 1, q)
    BY <2>2, <2>3 DEF IsKept
  <2> QED BY <2>4
<1> HIDE DEF S
<1>3. Nat \subseteq S
  BY <1>1, <1>2, SetInduction
<1> QED BY <1>3 DEF S

LEMMA WithoutIs ==
  ASSUME NEW args \in Seq(Tokens), NEW drop
  PROVE  \E k : IsKept(args, drop, Len(args), k) /\ Without(args, drop) = k[Len(args)]
<1>1. \E k : IsKept(args, drop, Len(args), k)
  BY KeptExist
<1> QED BY <1>1 DEF Without, IsKept

\* The tokens kept of the first n: none is lost, none comes before one that
\* was before it, and a stretch at the end of which none is dropped is at
\* the end of what is kept.
Origin(args, drop, s, j, i) ==
  s[j] = args[i] /\ i \notin drop /\ \A h \in 1..(i - 1) : h \notin drop => \E g \in 1..(j - 1) : s[g] = args[h]
Intact(args, s, n, a) == \A t \in a..n : t + Len(s) - n \in 1..Len(s) /\ s[t + Len(s) - n] = args[t]
KeptTokens(args, drop, n, s) ==
  /\ s \in Seq(Tokens)
  /\ \A h \in 1..n : h \notin drop => \E g \in 1..Len(s) : s[g] = args[h]
  /\ \A j \in 1..Len(s) : \E i \in 1..n : Origin(args, drop, s, j, i)
  /\ \A a \in 1..n : a..n \cap drop = {} => Intact(args, s, n, a)

LEMMA KeptOneMore ==
  ASSUME NEW args \in Seq(Tokens), NEW drop, NEW n \in Nat, NEW m \in 1..Len(args), m = n + 1,
         NEW s, KeptTokens(args, drop, n, s), NEW u, u = IF m \in drop THEN s ELSE Append(s, args[m])
  PROVE  KeptTokens(args, drop, m, u)
<1>1. /\ s \in Seq(Tokens) /\ Len(s) \in Nat
      /\ \A h \in 1..n : h \notin drop => \E g \in 1..Len(s) : s[g] = args[h]
      /\ \A j \in 1..Len(s) : \E i \in 1..n : Origin(args, drop, s, j, i)
      /\ \A a \in 1..n : a..n \cap drop = {} => Intact(args, s, n, a)
  BY DEF KeptTokens
<1>2. CASE m \in drop
  <2>1. u = s
    BY <1>2
  <2>2. \A h \in 1..m : h \notin drop => \E g \in 1..Len(s) : s[g] = args[h]
    BY <1>1, <1>2
  <2>3. \A j \in 1..Len(s) : \E i \in 1..m : Origin(args, drop, s, j, i)
    <3>1. 1..n \subseteq 1..m
      OBVIOUS
    <3> QED BY <1>1, <3>1
  <2>4. \A a \in 1..m : m \in a..m
    OBVIOUS
  <2> QED BY <1>1, <1>2, <2>1, <2>2, <2>3, <2>4 DEF KeptTokens
<1>3. CASE m \notin drop
  <2>1. u = Append(s, args[m])
    BY <1>3
  <2>2. /\ u \in Seq(Tokens) /\ Len(u) = Len(s) + 1 /\ u[Len(u)] = args[m]
        /\ \A g \in 1..Len(s) : g \in 1..Len(u) /\ u[g] = s[g]
    BY <1>1, <2>1
  <2>3. ASSUME NEW h \in 1..m, h \notin drop PROVE \E g \in 1..Len(u) : u[g] = args[h]
    <3>1. CASE h = m
      <4>1. Len(u) \in 1..Len(u)
        BY <1>1, <2>2
      <4> QED BY <2>2, <3>1, <4>1
    <3>2. CASE h # m
      <4>1. h \in 1..n
        BY <3>2
      <4>2. PICK g \in 1..Len(s) : s[g] = args[h]
        BY <1>1, <2>3, <4>1
      <4> QED BY <2>2, <4>2
    <3> QED BY <3>1, <3>2
  <2>4. ASSUME NEW j \in 1..Len(u) PROVE \E i \in 1..m : Origin(args, drop, u, j, i)
    <3>1. CASE j = Len(u)
      <4>1. ASSUME NEW h \in 1..(m - 1), h \notin drop PROVE \E g \in 1..(j - 1) : u[g] = args[h]
        <5>1. h \in 1..n /\ 1..(j - 1) = 1..Len(s)
          BY <1>1, <2>2, <3>1
        <5>2. PICK g \in 1..Len(s) : s[g] = args[h]
          BY <1>1, <4>1, <5>1
        <5> QED BY <2>2, <5>1, <5>2
      <4>2. Origin(args, drop, u, j, m)
        BY <1>3, <2>2, <3>1, <4>1 DEF Origin
      <4> QED BY <4>2
    <3>2. CASE j # Len(u)
      <4>1. j \in 1..Len(s)
        BY <1>1, <2>2, <3>2
      <4>2. PICK i \in 1..n : Origin(args, drop, s, j, i)
        BY <1>1, <4>1
      <4>3. u[j] = args[i] /\ i \notin drop
        BY <2>2, <4>1, <4>2 DEF Origin
      <4>4. ASSUME NEW h \in 1..(i - 1), h \notin drop PROVE \E g \in 1..(j - 1) : u[g] = args[h]
        <5>1. PICK g \in 1..(j - 1) : s[g] = args[h]
          BY <4>2, <4>4 DEF Origin
        <5>2. g \in 1..Len(s)
          BY <4>1
        <5> QED BY <2>2, <5>1, <5>2
      <4>5. Origin(args, drop, u, j, i)
        BY <4>3, <4>4 DEF Origin
      <4>6. i \in 1..m
        OBVIOUS
      <4> QED BY <4>5, <4>6
    <3> QED BY <3>1, <3>2
  <2>5. ASSUME NEW a \in 1..m, a..m \cap drop = {} PROVE Intact(args, u, m, a)
    <3>1. ASSUME NEW t \in a..m PROVE t + Len(u) - m \in 1..Len(u) /\ u[t + Len(u) - m] = args[t]
      <4>1. CASE t = m
        <5>1. t + Len(u) - m = Len(u) /\ Len(u) \in 1..Len(u)
          <6>1. PICK l \in Nat : l = Len(s)
            BY <1>1
          <6>2. Len(u) = l + 1 /\ t + (l + 1) - m = l + 1 /\ l + 1 \in 1..(l + 1)
            BY <2>2, <4>1, <6>1
          <6> QED BY <6>2
        <5> QED BY <2>2, <4>1, <5>1
      <4>2. CASE t # m
        <5>1. t \in a..n /\ a \in 1..n
          BY <4>2
        <5>2. a..n \subseteq a..m
          BY <5>1
        <5>3. Intact(args, s, n, a)
          BY <1>1, <2>5, <5>1, <5>2
        <5>4. t + Len(s) - n \in 1..Len(s) /\ s[t + Len(s) - n] = args[t]
          BY <5>1, <5>3 DEF Intact
        <5>5. t + Len(u) - m = t + Len(s) - n
          BY <1>1, <2>2, <5>1
        <5> QED BY <2>2, <5>4, <5>5
      <4> QED BY <4>1, <4>2
    <3> QED BY <3>1 DEF Intact
  <2> QED BY <2>2, <2>3, <2>4, <2>5 DEF KeptTokens
<1> QED BY <1>2, <1>3

LEMMA WithoutKeeps ==
  ASSUME NEW args \in Seq(Tokens), NEW drop
  PROVE  KeptTokens(args, drop, Len(args), Without(args, drop))
<1>1. PICK k : IsKept(args, drop, Len(args), k) /\ Without(args, drop) = k[Len(args)]
  BY WithoutIs
<1> DEFINE S == {n \in Nat : n <= Len(args) => KeptTokens(args, drop, n, k[n])}
<1>2. 0 \in S
  <2>1. k[0] = <<>>
    BY <1>1 DEF IsKept
  <2>2. KeptTokens(args, drop, 0, <<>>)
    BY DEF KeptTokens
  <2> QED BY <2>1, <2>2
<1>3. ASSUME NEW n \in Nat, n \in S PROVE n + 1 \in S
  <2> SUFFICES ASSUME n + 1 <= Len(args) PROVE KeptTokens(args, drop, n + 1, k[n + 1])
    OBVIOUS
  <2>1. PICK m \in 1..Len(args) : m = n + 1
    OBVIOUS
  <2>2. k[m] = IF m \in drop THEN k[m - 1] ELSE Append(k[m - 1], args[m])
    <3>1. m \in 0..Len(args) /\ m # 0
      OBVIOUS
    <3> QED BY <1>1, <3>1 DEF IsKept
  <2>3. m - 1 = n /\ KeptTokens(args, drop, n, k[n])
    BY <1>3, <2>1
  <2>4. k[m] = IF m \in drop THEN k[n] ELSE Append(k[n], args[m])
    BY <2>2, <2>3
  <2>5. KeptTokens(args, drop, m, k[m])
    BY <2>1, <2>3, <2>4, KeptOneMore
  <2> QED BY <2>1, <2>5
<1> HIDE DEF S
<1>4. Nat \subseteq S
  BY <1>2, <1>3, SetInduction
<1>5. Len(args) \in S
  BY <1>4
<1> QED BY <1>1, <1>5 DEF S

\* What lstk leaves of a command line.
TheirOwn(args, own, left) ==
  /\ \A j \in DOMAIN left : left[j].is = "flag" /\ left[j].name \in own =>
       \E i \in 1..(j - 1) : Bare(left[i])
  /\ \A i, k \in DOMAIN args : i + 1 < k /\ Bare(args[i]) /\ Bare(args[i + 1]) =>
       SubSeq(args, k, Len(args)) = SubSeq(left, k + Len(left) - Len(args), Len(left))

LEMMA StripLeavesTheirOwn ==
  ASSUME NEW args \in Seq(Tokens), NEW own
  PROVE  TheirOwn(args, own, StripLeadingProxyFlags(args, own))
<1>1. PICK drop : drop = OwnAt(args, own)
  OBVIOUS
<1>2. PICK left : left = Without(args, drop)
  OBVIOUS
<1>3. PICK r : r = Roles(args, own)
  OBVIOUS
<1>4. IsRoles(args, own, Len(args), r)
  BY <1>3, RolesAre
<1>5. drop = {i \in 1..Len(args) : r[i] \in {"own", "ownValue"}}
  BY <1>1, <1>3 DEF OwnAt
<1>6. KeptTokens(args, drop, Len(args), left)
  BY <1>2, WithoutKeeps
<1>7. left \in Seq(Tokens) /\ DOMAIN left = 1..Len(left) /\ Len(left) \in Nat
  BY <1>6 DEF KeptTokens
<1>8. ASSUME NEW j \in DOMAIN left, left[j].is = "flag", left[j].name \in own
      PROVE  \E i \in 1..(j - 1) : Bare(left[i])
  <2>1. PICK i \in 1..Len(args) : Origin(args, drop, left, j, i)
    BY <1>6, <1>7 DEF KeptTokens
  <2>2. left[j] = args[i] /\ i \notin drop
    BY <2>1 DEF Origin
  <2>3. ~Bare(args[i]) /\ args[i].name \in own
    BY <1>8, <2>2 DEF Bare
  <2>4. r[i] = "action"
    BY <1>4, <1>5, <2>2, <2>3, RoleFacts
  <2>5. PICK h \in 1..i : r[h] = "action" /\ Bare(args[h])
    BY <1>4, <2>4, FirstActionIsWord
  <2>6. h \in 1..(i - 1) /\ h \notin drop
    BY <1>5, <2>3, <2>5
  <2>7. PICK g \in 1..(j - 1) : left[g] = args[h]
    BY <2>1, <2>6 DEF Origin
  <2> QED BY <2>5, <2>7
<1>9. ASSUME NEW i \in DOMAIN args, NEW k \in DOMAIN args, i + 1 < k, Bare(args[i]), Bare(args[i + 1])
      PROVE  SubSeq(args, k, Len(args)) = SubSeq(left, k + Len(left) - Len(args), Len(left))
  <2>1. PICK n \in 1..Len(args) : n = i + 1 /\ n > 1 /\ n - 1 = i /\ n < k
    BY <1>9
  <2>2. r[i] \in {"ownValue", "flagValue", "action"}
    BY <1>4, <1>9, RoleFacts
  <2>3. n > 1 /\ r[n - 1] \in {"ownValue", "flagValue", "action"} /\ Bare(args[n]) => r[n] = "action"
    BY <1>4, RoleFacts
  <2>4. r[n] = "action"
    BY <1>9, <2>1, <2>2, <2>3
  <2>5. \A t \in n..Len(args) : r[t] = "action"
    BY <1>4, <2>4, ActionStays
  <2>6. k..Len(args) \cap drop = {}
    BY <1>5, <2>1, <2>5
  <2>7. k \in 1..Len(args) /\ Len(args) \in Nat
    OBVIOUS
  <2>8. Intact(args, left, Len(args), k)
    BY <1>6, <2>6, <2>7 DEF KeptTokens
  <2>a. PICK la \in Nat, ll \in Nat : la = Len(args) /\ ll = Len(left)
    BY <1>7, <2>7
  <2>9. PICK b : la = Len(args) /\ ll = Len(left) /\ b = k + ll - la
    BY <2>a
  <2>10. \A t \in k..la : t + ll - la \in 1..ll /\ left[t + ll - la] = args[t]
    BY <2>8, <2>9 DEF Intact
  <2>11. b \in 1..ll /\ ll - b = la - k /\ k \in 1..la
    <3>1. k \in 1..la /\ la \in Nat /\ ll \in Nat
      BY <2>7, <2>9, <2>a
    <3>2. k \in k..la
      BY <3>1
    <3>3. k + ll - la \in 1..ll
      BY <2>10, <3>2
    <3> QED
      BY <3>1, <3>3, <2>9
  <2>12. PICK x, y : x = SubSeq(args, k, la) /\ y = SubSeq(left, b, ll)
    OBVIOUS
  <2>13. /\ x \in Seq(Tokens) /\ Len(x) = la - k + 1
         /\ \A m \in 1..(la - k + 1) : x[m] = args[k + m - 1]
    <3>1. k \in Int /\ la \in Int /\ k <= la /\ \A t \in k..la : args[t] \in Tokens
      BY <2>9, <2>11
    <3>2. /\ x \in Seq(Tokens) /\ Len(x) = IF k <= la THEN la - k + 1 ELSE 0
          /\ \A m \in 1..(la - k + 1) : x[m] = args[k + m - 1]
      BY <2>12, <3>1, SubSeqProperties
    <3> QED BY <3>1, <3>2
  <2>14. /\ y \in Seq(Tokens) /\ Len(y) = ll - b + 1
         /\ \A m \in 1..(ll - b + 1) : y[m] = left[b + m - 1]
    <3>1. b \in Int /\ ll \in Int /\ b <= ll /\ \A t \in b..ll : left[t] \in Tokens
      BY <1>7, <2>9, <2>11
    <3>2. /\ y \in Seq(Tokens) /\ Len(y) = IF b <= ll THEN ll - b + 1 ELSE 0
          /\ \A m \in 1..(ll - b + 1) : y[m] = left[b + m - 1]
      BY <2>12, <3>1, SubSeqProperties
    <3> QED BY <3>1, <3>2
  <2>15. ASSUME NEW m \in 1..Len(x) PROVE x[m] = y[m]
    <3>1. PICK t \in k..la : t = k + m - 1
      BY <2>11, <2>13
    <3>2. b + m - 1 = t + ll - la
      BY <2>9, <3>1
    <3> QED BY <2>10, <2>11, <2>13, <2>14, <3>1, <3>2
  <2>16. x = y
    BY <2>11, <2>13, <2>14, <2>15, SeqEqual
  <2> QED BY <2>9, <2>12, <2>16
<1> QED BY <1>1, <1>2, <1>8, <1>9 DEF TheirOwn, StripLeadingProxyFlags

\* Past its flags, a command has of the line what the tool is to get.
LineInv ==
  /\ pxReq \in [ProxyProcs -> ProxyRequests] /\ DOMAIN pxArgs = ProxyProcs /\ DOMAIN pxAt = ProxyProcs
  /\ \A p \in ProxyProcs :
       pxAt[p] \notin {"installed", "flags"} =>
         TheirOwn(StripGlobalFlags(pxReq[p].args), LeadingFlags(pxReq[p].tool), pxArgs[p])

LEMMA GlobalsStripped ==
  ASSUME NEW args \in Seq(Tokens)
  PROVE  StripGlobalFlags(args) \in Seq(Tokens)
<1>1. KeptTokens(args, GlobalFlagsAt(args), Len(args), Without(args, GlobalFlagsAt(args)))
  BY WithoutKeeps
<1> QED BY <1>1 DEF KeptTokens, StripGlobalFlags

LEMMA LineStep ==
  ASSUME LineInv, NEW p \in ProxyProcs, ProxyStep(p)
  PROVE  LineInv'
<1>0. pxReq' = pxReq
  BY DEF ProxyStep, AwsInstalled, TakeFlags, AzNotReady, RunsWithoutEndpoint, TakesTarget, RunsOffline,
         LooksInDocker, RequireEmulator, LookPath, TerraformSetup, EnsureSafeToWrite, GenerateOverride,
         DiscoverEndpointKeys, TerraformDryRun, ProvisionBackend, NotifySignals, StartTool, ToolExits,
         CancelContext, RelaySignal, ProxyKilled, Signalled, PxParsed
<1>1. CASE TakeFlags(p)
  <2>1. PICK own, args, account : /\ own = LeadingFlags(pxReq[p].tool) /\ args = StripGlobalFlags(pxReq[p].args)
                                  /\ account = FlagValue(args, own, "--account")
    OBVIOUS
  <2>2. /\ pxArgs' = [pxArgs EXCEPT ![p] = IF MissingValue(args, own) THEN args
                                           ELSE StripLeadingProxyFlags(args, own)]
        /\ pxAt[p] = "flags"
        /\ UNCHANGED pxAt \/ (~MissingValue(args, own) /\ pxAt' = [pxAt EXCEPT ![p] = "route"])
    BY <1>1, <2>1 DEF TakeFlags, PxAt, PxGo, PxEnd
  <2>3. args \in Seq(Tokens)
    <3>1. pxReq[p].args \in Seq(Tokens)
      BY ProxyConstants DEF LineInv, RequestTyped
    <3> QED BY <2>1, <3>1, GlobalsStripped
  <2>4. TheirOwn(args, own, StripLeadingProxyFlags(args, own))
    BY <2>3, StripLeavesTheirOwn
  <2>5. pxAt'[p] \notin {"installed", "flags"} => TheirOwn(args, own, pxArgs'[p])
    BY <2>2, <2>4 DEF LineInv
  <2>6. \A q \in ProxyProcs : q # p => pxArgs'[q] = pxArgs[q] /\ pxAt'[q] = pxAt[q]
    BY <2>2 DEF LineInv
  <2>7. DOMAIN pxArgs' = ProxyProcs /\ DOMAIN pxAt' = ProxyProcs
    BY <2>2 DEF LineInv
  <2> QED BY <1>0, <2>1, <2>5, <2>6, <2>7 DEF LineInv
<1>2. CASE ~TakeFlags(p)
  <2>0. DOMAIN pxAt = ProxyProcs
    BY DEF LineInv
  <2>1. /\ pxArgs' = pxArgs /\ DOMAIN pxAt' = ProxyProcs
        /\ \A q \in ProxyProcs : pxAt[q] \in {"installed", "flags"} => pxAt'[q] \in {"installed", "flags"}
    <3> USE <2>0 DEF PxAt, PxGo, PxEnd, PxParsed
    <3>1. CASE AwsInstalled(p) \/ AzNotReady(p) \/ RunsWithoutEndpoint(p) \/ TakesTarget(p)
      BY <3>1 DEF AwsInstalled, AzNotReady, RunsWithoutEndpoint, TakesTarget
    <3>2. CASE RunsOffline(p) \/ LooksInDocker(p) \/ RequireEmulator(p) \/ LookPath(p)
      BY <3>2 DEF RunsOffline, LooksInDocker, RequireEmulator, LookPath
    <3>3. CASE TerraformSetup(p) \/ EnsureSafeToWrite(p) \/ GenerateOverride(p)
      BY <3>3 DEF TerraformSetup, EnsureSafeToWrite, GenerateOverride
    <3>4. CASE DiscoverEndpointKeys(p) \/ TerraformDryRun(p) \/ ProvisionBackend(p)
      BY <3>4 DEF DiscoverEndpointKeys, TerraformDryRun, ProvisionBackend
    <3>5. CASE NotifySignals(p) \/ StartTool(p) \/ ToolExits(p)
      BY <3>5 DEF NotifySignals, StartTool, ToolExits, ProxyEnds
    <3>6. CASE CancelContext(p) \/ ProxyKilled(p)
      BY <3>6 DEF CancelContext, ProxyKilled
    <3>7. CASE RelaySignal(p)
      BY <3>7 DEF RelaySignal
    <3>8. CASE \E sig \in ChildSignals : Signalled(p, sig)
      BY <3>8 DEF Signalled
    <3> QED BY <1>2, <3>1, <3>2, <3>3, <3>4, <3>5, <3>6, <3>7, <3>8 DEF ProxyStep
  <2>2. ASSUME NEW q \in ProxyProcs, pxAt'[q] \notin {"installed", "flags"}
        PROVE  pxAt[q] \notin {"installed", "flags"}
    BY <2>1, <2>2
  <2> QED BY <1>0, <2>1, <2>2 DEF LineInv
<1> QED BY <1>1, <1>2

\* Whatever the command line: a flag of lstk's before the tool's action never
\* reaches the tool, and what follows two words in a row reaches it
\* unchanged, --account and all. (stripLeadingProxyFlags)
THEOREM FlagsReach == ProxySpec => []FlagsReachTheirOwner
<1>1. ProxyInit => LineInv
  <2> SUFFICES ASSUME ProxyInit PROVE LineInv
    OBVIOUS
  <2>1. /\ pxReq \in [ProxyProcs -> ProxyRequests]
        /\ pxAt = [p \in ProxyProcs |-> IF pxReq[p].tool = "aws" THEN "installed" ELSE "flags"]
        /\ pxArgs = [p \in ProxyProcs |-> <<>>]
    BY DEF ProxyInit
  <2>2. \A p \in ProxyProcs : pxAt[p] \in {"installed", "flags"}
    BY <2>1
  <2>3. DOMAIN pxAt = ProxyProcs /\ DOMAIN pxArgs = ProxyProcs
    BY <2>1
  <2> QED BY <2>1, <2>2, <2>3 DEF LineInv
<1>2. LineInv /\ [ProxyNext]_pxVars => LineInv'
  <2> SUFFICES ASSUME LineInv, [ProxyNext]_pxVars PROVE LineInv'
    OBVIOUS
  <2>1. CASE UNCHANGED <<pxReq, pxArgs, pxAt>>
    BY <2>1 DEF LineInv
  <2>2. CASE UserWritesOverride
    BY <2>1, <2>2 DEF UserWritesOverride, PxParsed
  <2>3. CASE UNCHANGED pxVars
    BY <2>1, <2>3 DEF pxVars
  <2> QED BY <2>2, <2>3, LineStep DEF ProxyNext
<1>3. LineInv => FlagsReachTheirOwner
  BY DEF LineInv, TheirOwn, FlagsReachTheirOwner
<1> QED BY <1>1, <1>2, <1>3, PTL DEF ProxySpec
-----------------------------------------------------------------------------
\* ProxyTypeOK. What ProxyInv leaves open.
PxTypes ==
  /\ pxReq \in [ProxyProcs -> ProxyRequests]
  /\ pxUrl \in [ProxyProcs -> {"", "docker", "target"}]
  /\ override.author \in Authors
  /\ stat \in [ProxyProcs -> Authors \cup {"unseen"}]
  /\ ctxDone \in [ProxyProcs -> BOOLEAN] /\ notified \in [ProxyProcs -> BOOLEAN]
SentBounded == \A p \in ProxyProcs : \A sig \in ChildSignals : sent[p][sig] <= MaxSignals

\* A command's step keeps them. (internal/proxy, proc/run.go)
LEMMA PxTypesStep ==
  ASSUME PxTypes, NEW p \in ProxyProcs, ProxyStep(p)
  PROVE  PxTypes'
<1> USE DEF PxTypes, PxGo, PxEnd, PxParsed, TerraformFile, Signals
<1>0. NoOverride.author \in Authors /\ \A x : Override(p, p, x).author \in Authors
  BY DEF Authors, NoOverride, Override
<1>1. CASE AwsInstalled(p) \/ TakeFlags(p) \/ AzNotReady(p) \/ RunsWithoutEndpoint(p) \/ TakesTarget(p)
  BY <1>1 DEF AwsInstalled, TakeFlags, AzNotReady, RunsWithoutEndpoint, TakesTarget
<1>2. CASE RunsOffline(p) \/ LooksInDocker(p) \/ RequireEmulator(p) \/ LookPath(p)
  BY <1>2 DEF RunsOffline, LooksInDocker, RequireEmulator, LookPath
<1>3. CASE TerraformSetup(p)
  BY <1>3 DEF TerraformSetup
<1>4. CASE EnsureSafeToWrite(p)
  BY <1>4 DEF EnsureSafeToWrite
<1>5. CASE GenerateOverride(p)
  <2>1. /\ UNCHANGED <<pxReq, pxUrl, stat, ctxDone, notified>>
        /\ override' = override \/ \E x : override' = Override(p, p, x)
    BY <1>5, Zenon DEF GenerateOverride
  <2> QED BY <1>0, <2>1
<1>6. CASE DiscoverEndpointKeys(p) \/ TerraformDryRun(p) \/ ProvisionBackend(p)
  BY <1>0, <1>6 DEF DiscoverEndpointKeys, TerraformDryRun, ProvisionBackend, RemoveOverride
<1>7. CASE NotifySignals(p) \/ CancelContext(p) \/ ProxyKilled(p)
  BY <1>7 DEF NotifySignals, CancelContext, ProxyKilled
<1>8. CASE StartTool(p) \/ ToolExits(p)
  BY <1>0, <1>8 DEF StartTool, ToolExits, ProxyEnds, RemoveOverride
<1>9. CASE RelaySignal(p)
  BY <1>9 DEF RelaySignal
<1>10. CASE \E sig \in ChildSignals : Signalled(p, sig)
  BY <1>10 DEF Signalled
<1> QED BY <1>1, <1>2, <1>3, <1>4, <1>5, <1>6, <1>7, <1>8, <1>9, <1>10 DEF ProxyStep

\* Nobody is sent more signals than the bound. (the bound of the model)
LEMMA SentStep ==
  ASSUME Types, SentBounded, NEW p \in ProxyProcs, ProxyStep(p)
  PROVE  SentBounded'
<1>1. CASE UNCHANGED sent
  BY <1>1 DEF SentBounded
<1>2. CASE RelaySignal(p)
  BY <1>2, <1>1 DEF RelaySignal
<1>3. ASSUME NEW sig \in ChildSignals, Signalled(p, sig) PROVE SentBounded'
  <2>1. sent[p][sig] < MaxSignals /\ sent' = [sent EXCEPT ![p][sig] = @ + 1]
    BY <1>3 DEF Signalled
  <2>2. sent[p][sig] + 1 <= MaxSignals
    BY <2>1, ProxyConstants DEF Types
  <2> QED BY <2>1, <2>2 DEF SentBounded, Types
<1> QED BY <1>1, <1>2, <1>3, SignalsUntouched DEF Relays

LEMMA PxTypesNext ==
  ASSUME ProxyInv, PxTypes, SentBounded, [ProxyNext]_pxVars
  PROVE  PxTypes' /\ SentBounded'
<1>1. CASE \E p \in ProxyProcs : ProxyStep(p)
  BY <1>1, PxTypesStep, SentStep DEF ProxyInv
<1>2. CASE UserWritesOverride
  <2>1. override'.author \in Authors
    BY <1>2 DEF UserWritesOverride, UserOverride, NoOverride, Authors
  <2> QED BY <1>2, <2>1 DEF UserWritesOverride, PxParsed, Signals, PxTypes, SentBounded
<1>3. CASE UNCHANGED pxVars
  BY <1>3 DEF pxVars, PxTypes, SentBounded
<1> QED BY <1>1, <1>2, <1>3 DEF ProxyNext

\* The proxy commands' variables keep their types, and no signal is counted
\* beyond the bound. (internal/proxy, proc/run.go)
THEOREM ProxyTyped == ProxySpec => []ProxyTypeOK
<1>1. ProxyInit => PxTypes /\ SentBounded
  <2> SUFFICES ASSUME ProxyInit PROVE PxTypes /\ SentBounded
    OBVIOUS
  <2>1. override.author \in Authors
    BY DEF ProxyInit, NoOverride, Authors
  <2>2. \A p \in ProxyProcs : \A sig \in ChildSignals : sent[p][sig] = 0
    BY DEF ProxyInit
  <2>3. SentBounded
    BY <2>2, ProxyConstants DEF SentBounded
  <2>4. PxTypes
    BY <2>1 DEF ProxyInit, PxTypes
  <2> QED BY <2>3, <2>4
<1>2. ProxyInv /\ PxTypes /\ SentBounded => ProxyTypeOK
  <2> SUFFICES ASSUME ProxyInv, PxTypes, SentBounded PROVE ProxyTypeOK
    OBVIOUS
  <2>1. ASSUME NEW p \in ProxyProcs, NEW sig \in ChildSignals
        PROVE  sent[p][sig] \in 0..MaxSignals /\ got[p][sig] \in 0..MaxSignals
    <3>1. sent[p][sig] \in Nat /\ got[p][sig] \in Nat
      BY DEF ProxyInv, Types
    <3>2. Pending(sigCh[p], sig) \in Nat
      BY PendingNat DEF ProxyInv, Types
    <3>3. sent[p][sig] <= MaxSignals
      BY DEF SentBounded
    <3>4. got[p][sig] + (IF ShouldForward(p, sig) THEN Pending(sigCh[p], sig) ELSE 0) <= sent[p][sig]
      BY DEF ProxyInv, SignalInv
    <3> QED BY <3>1, <3>2, <3>3, <3>4, ProxyConstants
  <2>2. /\ sent \in [ProxyProcs -> [ChildSignals -> 0..MaxSignals]]
        /\ got \in [ProxyProcs -> [ChildSignals -> 0..MaxSignals]]
    BY <2>1 DEF ProxyInv, Types
  <2> QED BY <2>2 DEF ProxyInv, Types, PxTypes, ProxyTypeOK
<1> QED BY <1>1, <1>2, PxTypesNext, ProxyInvHolds, PTL DEF ProxySpec
=============================================================================
