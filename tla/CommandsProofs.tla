---------------------------- MODULE CommandsProofs ----------------------------
(***************************************************************************)
(* The commands that are not a start, together. Each is proved alone, in   *)
(* the modules extended here. Played beside each other, under whatever     *)
(* restrictions the scenes add, every step is one of one component's or    *)
(* leaves its state alone; so what each keeps alone it keeps among the     *)
(* others.                                                                 *)
(***************************************************************************)
EXTENDS MCCommands, EmulatorProofs, SnapshotsProofs, UserFilesProofs

\* The start states are start states of each component. (the scenes)
LEMMA CommandsStart ==
  ASSUME CommandsInit
  PROVE  SnapInit /\ ProxyInit /\ ConfigInit /\ ProfileInit /\ LifeInit /\ LogInit /\ UpdateInit
<1>1. SnapInit
  BY DEF CommandsInit, SnapshotsInit
<1>2. ProxyInit
  BY DEF CommandsInit, ProxiesInit
<1>3. ConfigInit
  BY DEF CommandsInit, ConfigFilesInit
<1>4. ProfileInit
  BY DEF CommandsInit, CloudProfilesInit
<1>5. LifeInit
  BY DEF CommandsInit, LifecycleInit
<1>6. LogInit
  BY DEF CommandsInit, LogTailInit
<1>7. UpdateInit
  BY DEF CommandsInit, SelfUpdateInit
<1> QED
  BY <1>1, <1>2, <1>3, <1>4, <1>5, <1>6, <1>7

\* A step is a step of one component and leaves the others alone.
LEMMA CommandsStep ==
  ASSUME [CommandsNext]_commandsVars
  PROVE  /\ [SnapNext]_snapVars /\ [ProxyNext]_pxVars /\ [ConfigNext]_cfVars /\ [ProfileNext]_cpVars
         /\ [LifeNext]_lcVars /\ [LogNext]_ltVars /\ [UpdateNext]_suVars
BY DEF CommandsNext, commandsVars

\* What the commands together do is what each of them does.
LEMMA CommandsProject ==
  CommandsSpec => /\ SnapSpec /\ ProxySpec /\ ConfigSpec /\ ProfileSpec
                  /\ LifeSpec /\ LogSpec /\ UpdateSpec
BY CommandsStart, CommandsStep, PTL
   DEF CommandsSpec, SnapSpec, ProxySpec, ConfigSpec, ProfileSpec, LifeSpec, LogSpec, UpdateSpec

\* Every component's state stays of its type, whatever commands run and
\* whatever scenes are played. (the state of each command)
THEOREM CommandsTyped == CommandsSpec => []CommandsTypeOK
BY CommandsProject, SnapTyped, ProxyTyped, ConfigTyped, ProfileTyped, LifeTyped, TailsTyped, UpdateTyped, PTL
   DEF CommandsTypeOK
\* What is proved of each command alone it keeps among the others: the
\* snapshots what was saved, the proxies the emulator they target, the files
\* what is the user's, the emulators their persistence, the logs the lines,
\* and an update the executable. (the properties of the commands)
THEOREM CommandsKeep ==
  CommandsSpec =>
    /\ []SavedIsFound /\ RemovalConfirmed /\ StateLostOnlyByLoad
    /\ []ToolTargetsEmulator /\ []FlagsReachTheirOwner /\ []SignalsAtMostOnce /\ ForeignOverrideKept
    /\ []UserConfigKept /\ []StartsWhatWasChosen /\ []PlannedAsAsked
    /\ []ProfileNotTakenOver /\ []MarkerMeansReady /\ InterceptionUndone
    /\ []RestartKeepsPersistence /\ []OutcomeReportedOnce /\ []TailExact /\ []ExecutableSound
<1>1. SnapSpec => []SavedIsFound /\ RemovalConfirmed /\ StateLostOnlyByLoad
  BY SavesAreFound, RemovalsConfirmed, StateLostByLoads
<1>2. ProxySpec => []ToolTargetsEmulator /\ []FlagsReachTheirOwner /\ []SignalsAtMostOnce /\ ForeignOverrideKept
  BY ToolsTargetEmulator, FlagsReach, SignalsOnce, ForeignOverridesKept
<1>3. ConfigSpec => []UserConfigKept /\ []StartsWhatWasChosen /\ []PlannedAsAsked
  BY UserConfigsKept, ChosenIsStarted, PlansAreAsAsked
<1>4. ProfileSpec => []ProfileNotTakenOver /\ []MarkerMeansReady /\ InterceptionUndone
  BY ProfilesNotTakenOver, MarkersMeanReady, InterceptionsUndone
<1>5. /\ LifeSpec => []RestartKeepsPersistence /\ []OutcomeReportedOnce
      /\ LogSpec => []TailExact
      /\ UpdateSpec => []ExecutableSound
  BY RestartKeeps, OutcomesHonest, TailsAreExact, ExecutableStaysSound
<1> QED
  BY <1>1, <1>2, <1>3, <1>4, <1>5, CommandsProject
=============================================================================
