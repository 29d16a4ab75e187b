CONSTANT ExitCodes <- MCExitCodes
SPECIFICATION Spec
INVARIANT StoppedIsRecorded
