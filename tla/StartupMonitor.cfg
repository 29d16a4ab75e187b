CONSTANT ExitCodes <- MCExitCodes
SPECIFICATION FairSpec
INVARIANTS TypeOK NoReadyEmulatorGivenUp NoOrphanPrompt
PROPERTIES PromptNeverReplaced AwaitIsOneWait AwaitSettles
