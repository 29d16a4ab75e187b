-------------------------- MODULE StartFlowProofs --------------------------
(***************************************************************************)
(* The safety properties of StartFlow, proved for any number of commands,  *)
(* any way to run them and any world they find, from one inductive         *)
(* invariant. Its history part says what the properties rest on: whose     *)
(* license the cache holds, and which mounted license may be blamed.       *)
(***************************************************************************)
EXTENDS StartFlow, TLAPS

\* Only a command that is done has an outcome.
OutcomeInv == \A p \in Procs : pc[p] # "done" => outcome[p] = "none"

\* A command whose license is the cached one fetched it in this very attempt, and
\* the one it blames a failed start on is not its own.
LicenseInv ==
  /\ \A p \in Procs : license = p => writable /\ refreshed[p] /\ pc[p] # "relogin"
  /\ \A p \in Procs : retryCandidate[p] => mounted[p] \notin {"none", p}
  /\ \A p \in Procs : pc[p] = "dropLicense" => retryCandidate[p]

\* The fresh login is offered to a first attempt only.
AttemptInv == \A p \in Procs : pc[p] = "relogin" => attempt[p] = 1

HistoryInv ==
  /\ OutcomeInv
  /\ AttemptInv
  /\ LicenseInv
  /\ RejectionIsVerdict
  /\ StaleLicenseDropped
  /\ OnlyOthersTakeName

Inv == TypeOK /\ HistoryInv

\* Every step keeps the variables in their types. A second login would be a third
\* attempt: AttemptInv is what rules it out.
LEMMA TypeStep == Inv /\ [Next]_vars => TypeOK'
<1> SUFFICES ASSUME Inv, [Next]_vars PROVE TypeOK'
  OBVIOUS
<1> USE DEF Inv, HistoryInv, AttemptInv, TypeOK, Working, Outcomes, shared,
  locals, world, Goto, Finish, Slots, Licenses, Owners, Managed, Free, States
<1>1. ASSUME NEW p \in Procs, Selects(p) PROVE TypeOK'
  <2>1. CASE HasToken(p)
    BY <2>1, CommandsAssumption DEF HasToken, Command
  <2>2. CASE LogsIn(p)
    BY <2>2 DEF LogsIn, StoreOrWarn, Tokens
  <2>3. CASE HasNoToken(p)
    BY <2>3 DEF HasNoToken
  <2>4. CASE InspectRunning(p)
    BY <2>4 DEF InspectRunning
  <2>5. CASE InspectLeftover(p)
    BY <2>5 DEF InspectLeftover
  <2>6. CASE InspectFree(p)
    BY <2>6 DEF InspectFree
  <2>7. CASE HealRefuses(p)
    BY <2>7 DEF HealRefuses, Removable
  <2>8. CASE HealRemoves(p)
    BY <2>8 DEF HealRemoves, RemoveByName
  <2>9. CASE NameGone(p)
    BY <2>9 DEF NameGone
  <2>10. CASE NameNotGone(p)
    <3>1. CASE Finish(p, "healGone", "notRemoved")
      BY <2>10, <3>1 DEF NameNotGone
    <3>2. CASE Finish(p, "clearGone", "notRemoved")
      BY <2>10, <3>2 DEF NameNotGone
    <3>3. CASE Finish(p, "unbindGone", "startFailed")
      BY <2>10, <3>3 DEF NameNotGone
    <3> QED
      BY <2>10, <3>1, <3>2, <3>3 DEF NameNotGone
  <2>11. CASE ScanFindsEmulator(p)
    BY <2>11 DEF ScanFindsEmulator
  <2>12. CASE ScanFindsConflict(p)
    BY <2>12 DEF ScanFindsConflict
  <2>13. CASE ScanFindsNothing(p)
    BY <2>13 DEF ScanFindsNothing
  <2> QED
    BY <1>1, <2>1, <2>2, <2>3, <2>4, <2>5, <2>6, <2>7, <2>8, <2>9, <2>10, <2>11,
      <2>12, <2>13 DEF Selects
<1>2. ASSUME NEW p \in Procs, Prepares(p) PROVE TypeOK'
  <2>1. CASE PreflightSkips(p)
    BY <2>1 DEF PreflightSkips
  <2>2. CASE PreflightChecks(p)
    BY <2>2 DEF PreflightChecks
  <2>3. CASE LicenseAccepted(p)
    BY <2>3 DEF LicenseAccepted, AfterValidation
  <2>4. CASE LicenseUndecided(p)
    BY <2>4 DEF LicenseUndecided, AfterValidation
  <2>5. CASE LicenseRejected(p)
    BY <2>5 DEF LicenseRejected, DropLicense
  <2>6. CASE VersionResolved(p)
    BY <2>6 DEF VersionResolved
  <2>7. CASE VersionUnknown(p)
    BY <2>7 DEF VersionUnknown
  <2>8. CASE ClearRemoves(p)
    BY <2>8 DEF ClearRemoves, RemoveByName
  <2>9. CASE ImageReused(p)
    BY <2>9 DEF ImageReused, AfterPull
  <2>10. CASE ImageToPull(p)
    BY <2>10 DEF ImageToPull
  <2>11. CASE PullSucceeds(p)
    BY <2>11 DEF PullSucceeds, AfterPull
  <2>12. CASE PullFails(p)
    BY <2>12 DEF PullFails, AfterPull
  <2> QED
    BY <1>2, <2>1, <2>2, <2>3, <2>4, <2>5, <2>6, <2>7, <2>8, <2>9, <2>10, <2>11, <2>12
      DEF Prepares
<1>3. ASSUME NEW p \in Procs, Launches(p) PROVE TypeOK'
  <2>1. CASE MountsLicense(p)
    <3>1. CASE Mounts(p, TRUE)
      BY <3>1 DEF Mounts
    <3>2. CASE Mounts(p, FALSE)
      BY <3>2 DEF Mounts
    <3> QED
      BY <2>1, <3>1, <3>2 DEF MountsLicense
  <2>2. CASE Creates(p)
    BY <2>2 DEF Creates
  <2>3. CASE CreateConflicts(p)
    BY <2>3 DEF CreateConflicts
  <2>4. CASE Runs(p)
    BY <2>4 DEF Runs
  <2>5. CASE OptionalBindFails(p)
    BY <2>5 DEF OptionalBindFails
  <2>6. CASE UnbindRemoves(p)
    BY <2>6 DEF UnbindRemoves, RemoveByName
  <2>7. CASE RunFails(p)
    BY <2>7 DEF RunFails
  <2>8. CASE AwaitReady(p)
    BY <2>8 DEF AwaitReady
  <2>9. CASE AwaitExited(p)
    BY <2>9 DEF AwaitExited
  <2>10. CASE AwaitTimesOut(p)
    BY <2>10 DEF AwaitTimesOut
  <2>11. CASE AwaitStops(p)
    BY <2>11 DEF AwaitStops
  <2>12. CASE DropsLicense(p)
    BY <2>12 DEF DropsLicense, DropLicense
  <2>13. CASE Declines(p)
    BY <2>13 DEF Declines
  <2>14. CASE AcceptsRelogin(p)
    BY <2>14 DEF AcceptsRelogin, StoreOrWarn, DropLicense, Tokens
  <2>15. CASE ReloginSucceeds(p)
    BY <2>15 DEF ReloginSucceeds, StoreOrWarn, Tokens
  <2>16. CASE ReloginFails(p)
    BY <2>16 DEF ReloginFails
  <2> QED
    BY <1>3, <2>1, <2>2, <2>3, <2>4, <2>5, <2>6, <2>7, <2>8, <2>9, <2>10, <2>11,
      <2>12, <2>13, <2>14, <2>15, <2>16 DEF Launches
<1>4. ASSUME NEW p \in Procs, Aborts(p) PROVE TypeOK'
  BY <1>4 DEF Aborts
<1>5. CASE ContainerExits
  BY <1>5 DEF ContainerExits
<1>6. CASE SelfRemoves
  BY <1>6 DEF SelfRemoves
<1>7. CASE OthersTakeName
  BY <1>7, WorldAssumption DEF OthersTakeName
<1>8. CASE UNCHANGED vars
  BY <1>8 DEF vars
<1> QED
  BY <1>1, <1>2, <1>3, <1>4, <1>5, <1>6, <1>7, <1>8 DEF Next, Proceeds, Rest

\* Every step keeps the history part, one action at a time.
LEMMA HistoryStep == Inv /\ [Next]_vars => HistoryInv'
<1> SUFFICES ASSUME Inv, [Next]_vars PROVE HistoryInv'
  OBVIOUS
<1> USE DEF Inv, TypeOK, HistoryInv, OutcomeInv, AttemptInv, LicenseInv,
  RejectionIsVerdict, StaleLicenseDropped,
  OnlyOthersTakeName, shared, locals, world, Goto, Finish
<1>1. ASSUME NEW p \in Procs, Selects(p) PROVE HistoryInv'
  <2>1. CASE HasToken(p)
    BY <2>1 DEF HasToken
  <2>2. CASE LogsIn(p)
    BY <2>2 DEF LogsIn, StoreOrWarn, Tokens
  <2>3. CASE HasNoToken(p)
    BY <2>3 DEF HasNoToken
  <2>4. CASE InspectRunning(p)
    BY <2>4 DEF InspectRunning
  <2>5. CASE InspectLeftover(p)
    BY <2>5 DEF InspectLeftover
  <2>6. CASE InspectFree(p)
    BY <2>6 DEF InspectFree
  <2>7. CASE HealRefuses(p)
    BY <2>7 DEF HealRefuses, Removable
  <2>8. CASE HealRemoves(p)
    BY <2>8 DEF HealRemoves, RemoveByName
  <2>9. CASE NameGone(p)
    BY <2>9 DEF NameGone
  <2>10. CASE NameNotGone(p)
    BY <2>10 DEF NameNotGone
  <2>11. CASE ScanFindsEmulator(p)
    BY <2>11 DEF ScanFindsEmulator
  <2>12. CASE ScanFindsConflict(p)
    BY <2>12 DEF ScanFindsConflict
  <2>13. CASE ScanFindsNothing(p)
    BY <2>13 DEF ScanFindsNothing
  <2> QED
    BY <1>1, <2>1, <2>2, <2>3, <2>4, <2>5, <2>6, <2>7, <2>8, <2>9, <2>10, <2>11,
      <2>12, <2>13 DEF Selects
<1>2. ASSUME NEW p \in Procs, Prepares(p) PROVE HistoryInv'
  <2>1. CASE PreflightSkips(p)
    BY <2>1 DEF PreflightSkips
  <2>2. CASE PreflightChecks(p)
    BY <2>2 DEF PreflightChecks
  <2>3. CASE LicenseAccepted(p)
    BY <2>3, ProcsAssumption DEF LicenseAccepted, AfterValidation
  <2>4. CASE LicenseUndecided(p)
    BY <2>4 DEF LicenseUndecided, AfterValidation
  <2>5. CASE LicenseRejected(p)
    BY <2>5, ProcsAssumption DEF LicenseRejected, DropLicense
  <2>6. CASE VersionResolved(p)
    BY <2>6 DEF VersionResolved
  <2>7. CASE VersionUnknown(p)
    BY <2>7 DEF VersionUnknown
  <2>8. CASE ClearRemoves(p)
    BY <2>8 DEF ClearRemoves, RemoveByName
  <2>9. CASE ImageReused(p)
    BY <2>9 DEF ImageReused, AfterPull
  <2>10. CASE ImageToPull(p)
    BY <2>10 DEF ImageToPull
  <2>11. CASE PullSucceeds(p)
    BY <2>11 DEF PullSucceeds, AfterPull
  <2>12. CASE PullFails(p)
    BY <2>12 DEF PullFails, AfterPull
  <2> QED
    BY <1>2, <2>1, <2>2, <2>3, <2>4, <2>5, <2>6, <2>7, <2>8, <2>9, <2>10, <2>11, <2>12
      DEF Prepares
<1>3. ASSUME NEW p \in Procs, Launches(p) PROVE HistoryInv'
  <2>1. CASE MountsLicense(p)
    BY <2>1 DEF MountsLicense, Mounts
  <2>2. CASE Creates(p)
    BY <2>2 DEF Creates
  <2>3. CASE CreateConflicts(p)
    BY <2>3 DEF CreateConflicts
  <2>4. CASE Runs(p)
    BY <2>4 DEF Runs
  <2>5. CASE OptionalBindFails(p)
    BY <2>5 DEF OptionalBindFails
  <2>6. CASE UnbindRemoves(p)
    BY <2>6 DEF UnbindRemoves, RemoveByName
  <2>7. CASE RunFails(p)
    BY <2>7 DEF RunFails
  <2>8. CASE AwaitReady(p)
    BY <2>8 DEF AwaitReady
  <2>9. CASE AwaitExited(p)
    BY <2>9 DEF AwaitExited
  <2>10. CASE AwaitTimesOut(p)
    BY <2>10 DEF AwaitTimesOut
  <2>11. CASE AwaitStops(p)
    BY <2>11 DEF AwaitStops
  <2>12. CASE DropsLicense(p)
    BY <2>12, ProcsAssumption DEF DropsLicense, DropLicense
  <2>13. CASE Declines(p)
    BY <2>13 DEF Declines
  <2>14. CASE AcceptsRelogin(p)
    BY <2>14, ProcsAssumption DEF AcceptsRelogin, StoreOrWarn, DropLicense, Tokens
  <2>15. CASE ReloginSucceeds(p)
    BY <2>15 DEF ReloginSucceeds, StoreOrWarn, Tokens
  <2>16. CASE ReloginFails(p)
    BY <2>16 DEF ReloginFails
  <2> QED
    BY <1>3, <2>1, <2>2, <2>3, <2>4, <2>5, <2>6, <2>7, <2>8, <2>9, <2>10, <2>11,
      <2>12, <2>13, <2>14, <2>15, <2>16 DEF Launches
<1>4. ASSUME NEW p \in Procs, Aborts(p) PROVE HistoryInv'
  BY <1>4 DEF Aborts
<1>5. CASE ContainerExits
  BY <1>5 DEF ContainerExits
<1>6. CASE SelfRemoves
  BY <1>6 DEF SelfRemoves
<1>7. CASE OthersTakeName
  BY <1>7, WorldAssumption DEF OthersTakeName
<1>8. CASE UNCHANGED vars
  BY <1>8 DEF vars
<1> QED
  BY <1>1, <1>2, <1>3, <1>4, <1>5, <1>6, <1>7, <1>8 DEF Next, Proceeds, Rest

\* The initial states satisfy the invariant.
LEMMA InitInv == Init => Inv
BY CommandsAssumption, ProcsAssumption, WorldAssumption
   DEF Init, Inv, TypeOK, HistoryInv, OutcomeInv, AttemptInv, LicenseInv,
     RejectionIsVerdict,
       StaleLicenseDropped, OnlyOthersTakeName, Working, Outcomes, Slots, Licenses,
         Tokens,
       Free

\* The inductive invariant of every start.
THEOREM InvHolds == Spec => []Inv
<1>1. Inv /\ [Next]_vars => Inv'
  BY TypeStep, HistoryStep DEF Inv
<1> QED
  BY <1>1, InitInv, PTL DEF Spec

\* Every variable keeps its type.
THEOREM TypeCorrect == Spec => []TypeOK
<1>1. Inv => TypeOK
  BY DEF Inv
<1> QED
  BY <1>1, InvHolds, PTL

\* No start is refused over anything but the license server's own verdict.
THEOREM RejectionsAreVerdicts == Spec => []RejectionIsVerdict
<1>1. Inv => RejectionIsVerdict
  BY DEF Inv, HistoryInv
<1> QED
  BY <1>1, InvHolds, PTL

\* A rejection leaves no license of an earlier run behind.
THEOREM StaleLicensesGo == Spec => []StaleLicenseDropped
<1>1. Inv => StaleLicenseDropped
  BY DEF Inv, HistoryInv
<1> QED
  BY <1>1, InvHolds, PTL

\* A license the attempt fetched itself is never fetched again.
THEOREM FreshLicensesStand == Spec => []FreshLicenseNotRetried
<1>1. Inv => FreshLicenseNotRetried
  BY DEF Inv, HistoryInv, LicenseInv, FreshLicenseNotRetried
<1> QED
  BY <1>1, InvHolds, PTL

\* The name is only ever refused to other software.
THEOREM NamesRefusedToOthers == Spec => []OnlyOthersTakeName
<1>1. Inv => OnlyOthersTakeName
  BY DEF Inv, HistoryInv
<1> QED
  BY <1>1, InvHolds, PTL

\* What one step may do to a running container.
Spared ==
  slot.state = "running" /\ slot' # slot =>
    \/ slot' = [slot EXCEPT !.state = "exited"]
    \/ \E p \in Procs : slot.owner = p /\ pc[p] = "await" /\ outcome'[p] = "stopped"

\* Of all the steps, only a container's own exit and the user's stop touch one that
\* runs: the removals by name are refused, every other one acts on a container
\* that does not run.
LEMMA SparedStep == Inv /\ [Next]_vars => Spared
<1> SUFFICES ASSUME Inv, [Next]_vars PROVE Spared
  OBVIOUS
<1> USE DEF Spared, Own, Free, shared, Goto, Finish
<1>1. ASSUME NEW p \in Procs, Selects(p) PROVE Spared
  <2>1. CASE HasToken(p)
    BY <2>1 DEF HasToken
  <2>2. CASE LogsIn(p)
    BY <2>2 DEF LogsIn, StoreOrWarn, Tokens
  <2>3. CASE HasNoToken(p)
    BY <2>3 DEF HasNoToken
  <2>4. CASE InspectRunning(p)
    BY <2>4 DEF InspectRunning
  <2>5. CASE InspectLeftover(p)
    BY <2>5 DEF InspectLeftover
  <2>6. CASE InspectFree(p)
    BY <2>6 DEF InspectFree
  <2>7. CASE HealRefuses(p)
    BY <2>7 DEF HealRefuses, Removable
  <2>8. CASE HealRemoves(p)
    BY <2>8 DEF HealRemoves, RemoveByName
  <2>9. CASE NameGone(p)
    BY <2>9 DEF NameGone
  <2>10. CASE NameNotGone(p)
    BY <2>10 DEF NameNotGone
  <2>11. CASE ScanFindsEmulator(p)
    BY <2>11 DEF ScanFindsEmulator
  <2>12. CASE ScanFindsConflict(p)
    BY <2>12 DEF ScanFindsConflict
  <2>13. CASE ScanFindsNothing(p)
    BY <2>13 DEF ScanFindsNothing
  <2> QED
    BY <1>1, <2>1, <2>2, <2>3, <2>4, <2>5, <2>6, <2>7, <2>8, <2>9, <2>10, <2>11,
      <2>12, <2>13 DEF Selects
<1>2. ASSUME NEW p \in Procs, Prepares(p) PROVE Spared
  <2>1. CASE PreflightSkips(p)
    BY <2>1 DEF PreflightSkips
  <2>2. CASE PreflightChecks(p)
    BY <2>2 DEF PreflightChecks
  <2>3. CASE LicenseAccepted(p)
    BY <2>3, ProcsAssumption DEF LicenseAccepted, AfterValidation
  <2>4. CASE LicenseUndecided(p)
    BY <2>4 DEF LicenseUndecided, AfterValidation
  <2>5. CASE LicenseRejected(p)
    BY <2>5, ProcsAssumption DEF LicenseRejected, DropLicense
  <2>6. CASE VersionResolved(p)
    BY <2>6 DEF VersionResolved
  <2>7. CASE VersionUnknown(p)
    BY <2>7 DEF VersionUnknown
  <2>8. CASE ClearRemoves(p)
    BY <2>8 DEF ClearRemoves, RemoveByName
  <2>9. CASE ImageReused(p)
    BY <2>9 DEF ImageReused, AfterPull
  <2>10. CASE ImageToPull(p)
    BY <2>10 DEF ImageToPull
  <2>11. CASE PullSucceeds(p)
    BY <2>11 DEF PullSucceeds, AfterPull
  <2>12. CASE PullFails(p)
    BY <2>12 DEF PullFails, AfterPull
  <2> QED
    BY <1>2, <2>1, <2>2, <2>3, <2>4, <2>5, <2>6, <2>7, <2>8, <2>9, <2>10, <2>11, <2>12
      DEF Prepares
<1>3. ASSUME NEW p \in Procs, Launches(p) PROVE Spared
  <2>1. CASE MountsLicense(p)
    BY <2>1 DEF MountsLicense, Mounts
  <2>2. CASE Creates(p)
    BY <2>2 DEF Creates
  <2>3. CASE CreateConflicts(p)
    BY <2>3 DEF CreateConflicts
  <2>4. CASE Runs(p)
    BY <2>4 DEF Runs
  <2>5. CASE OptionalBindFails(p)
    BY <2>5 DEF OptionalBindFails
  <2>6. CASE UnbindRemoves(p)
    BY <2>6 DEF UnbindRemoves, RemoveByName
  <2>7. CASE RunFails(p)
    BY <2>7 DEF RunFails
  <2>8. CASE AwaitReady(p)
    BY <2>8 DEF AwaitReady
  <2>9. CASE AwaitExited(p)
    BY <2>9 DEF AwaitExited
  <2>10. CASE AwaitTimesOut(p)
    BY <2>10 DEF AwaitTimesOut
  <2>11. CASE AwaitStops(p)
    BY <2>11 DEF AwaitStops, Inv, TypeOK
  <2>12. CASE DropsLicense(p)
    BY <2>12, ProcsAssumption DEF DropsLicense, DropLicense
  <2>13. CASE Declines(p)
    BY <2>13 DEF Declines
  <2>14. CASE AcceptsRelogin(p)
    BY <2>14, ProcsAssumption DEF AcceptsRelogin, StoreOrWarn, DropLicense, Tokens
  <2>15. CASE ReloginSucceeds(p)
    BY <2>15 DEF ReloginSucceeds, StoreOrWarn, Tokens
  <2>16. CASE ReloginFails(p)
    BY <2>16 DEF ReloginFails
  <2> QED
    BY <1>3, <2>1, <2>2, <2>3, <2>4, <2>5, <2>6, <2>7, <2>8, <2>9, <2>10, <2>11,
      <2>12, <2>13, <2>14, <2>15, <2>16 DEF Launches
<1>4. ASSUME NEW p \in Procs, Aborts(p) PROVE Spared
  BY <1>4 DEF Aborts
<1>5. CASE ContainerExits
  BY <1>5 DEF ContainerExits
<1>6. CASE SelfRemoves
  BY <1>6 DEF SelfRemoves
<1>7. CASE OthersTakeName
  BY <1>7, WorldAssumption DEF OthersTakeName
<1>8. CASE UNCHANGED vars
  BY <1>8 DEF vars
<1> QED
  BY <1>1, <1>2, <1>3, <1>4, <1>5, <1>6, <1>7, <1>8 DEF Next, Proceeds, Rest

\* However many starts run at once, a running container is taken down by nobody
\* but the start that launched it, and then because its user said so.
THEOREM RunningContainersSpared == Spec => RunningContainerSpared
<1>1. Inv /\ [Next]_vars => [Spared]_vars
  BY SparedStep
<1> QED
  BY <1>1, InvHolds, PTL DEF Spec, RunningContainerSpared, Spared
=============================================================================
