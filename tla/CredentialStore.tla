-------------------------- MODULE CredentialStore --------------------------
(***************************************************************************)
(* The stored auth token of internal/auth, as the lstk commands of one     *)
(* user share it: the system keyring first, the auth-token file when the   *)
(* keyring has no answer. Each call on the keyring or the file is one      *)
(* action (the file's are under auth-token.lock); login, logout and start  *)
(* are the sequences of calls the code makes.                              *)
(***************************************************************************)
CONSTANTS
  Procs,         \* the lstk commands
  Kinds,         \* which of "login", "logout" and "start" they may be
  Tokens,        \* the tokens the platform may issue
  KeyringReturns \* a keyring that became unreachable may answer again

ASSUME KindsAssumption == Kinds \subseteq {"login", "logout", "start"}
ASSUME TokensAssumption == Tokens \cap {"none", "blank"} = {}
ASSUME ReturnsAssumption == KeyringReturns \in BOOLEAN

VARIABLES
  keyring,  \* the keyring's entry
  access,   \* whether the keyring answers: "reachable" or "unreachable"
  file,     \* the auth-token file: "blank" is an empty one, "none" no file
  kind,     \* what each command is, or "auth" once it only has to log in
  pc,       \* the call it makes next
  got,      \* the token it read
  issued    \* the token the platform issued to it

vars == <<keyring, access, file, kind, pc, got, issued>>

None == "none"

Calls == {"get", "getFile", "use", "delete", "deleteFile", "authorize", "set", "setFile"}
Ends == {"done", "loggedOut", "logoutFailed"}

TypeOK ==
  /\ keyring \in Tokens \cup {None}
  /\ access \in {"reachable", "unreachable"}
  /\ file \in Tokens \cup {None, "blank"}
  /\ kind \in [Procs -> {"login", "logout", "start", "auth"}]
  /\ pc \in [Procs -> Calls \cup Ends]
  /\ got \in [Procs -> Tokens \cup {None, "blank"}]
  /\ issued \in [Procs -> Tokens \cup {None}]

\* A keyring that answers, and always has, is the one place the token was stored.
Init ==
  /\ keyring \in Tokens \cup {None}
  /\ access \in {"reachable", "unreachable"}
  /\ file \in Tokens \cup {None, "blank"}
  /\ access = "reachable" => file = None
  /\ kind \in [Procs -> Kinds]
  /\ pc = [p \in Procs |-> "get"]
  /\ got = [p \in Procs |-> None]
  /\ issued = [p \in Procs |-> None]
-----------------------------------------------------------------------------
Step(p, from, to) == pc[p] = from /\ pc' = [pc EXCEPT ![p] = to]

\* GetAuthToken: no entry and no answer both lead to the file.
KeyringHit(p) ==
  /\ access = "reachable" /\ keyring # None
  /\ Step(p, "get", "use")
  /\ got' = [got EXCEPT ![p] = keyring]
  /\ UNCHANGED <<keyring, access, file, kind, issued>>

KeyringMiss(p) ==
  /\ access = "unreachable" \/ keyring = None
  /\ Step(p, "get", "getFile")
  /\ UNCHANGED <<keyring, access, file, kind, got, issued>>

FileRead(p) ==
  /\ Step(p, "getFile", "use")
  /\ got' = [got EXCEPT ![p] = file]
  /\ UNCHANGED <<keyring, access, file, kind, issued>>

\* A read error is a missing token to everyone but a logout, which reports it.
FileReadFails(p) ==
  /\ Step(p, "getFile", IF kind[p] = "logout" THEN "logoutFailed" ELSE "use")
  /\ got' = [got EXCEPT ![p] = None]
  /\ UNCHANGED <<keyring, access, file, kind, issued>>

-----------------------------------------------------------------------------
HasToken(p) == got[p] \notin {None, "blank"}

\* lstk login without a token resolves it once more before it logs in.
ChecksAgain(p) ==
  /\ kind[p] = "login" /\ ~HasToken(p)
  /\ Step(p, "use", "get")
  /\ kind' = [kind EXCEPT ![p] = "auth"]
  /\ UNCHANGED <<keyring, access, file, got, issued>>

\* A start, or a login on its second look, logs in when there is no token.
NeedsLogin(p) ==
  /\ kind[p] \in {"start", "auth"} /\ ~HasToken(p) /\ issued[p] = None
  /\ Step(p, "use", "authorize")
  /\ UNCHANGED <<keyring, access, file, kind, got, issued>>

\* The token is used as it is. A logout that found none has nothing to remove.
Settles(p) ==
  /\ \/ kind[p] # "logout" /\ (HasToken(p) \/ issued[p] # None)
     \/ kind[p] = "logout" /\ got[p] = None
  /\ Step(p, "use", "done")
  /\ UNCHANGED <<keyring, access, file, kind, got, issued>>

\* Relogin: the license server rejected the token of a start, and the user agrees.
Relogs(p) ==
  /\ kind[p] = "start" /\ (HasToken(p) \/ issued[p] # None)
  /\ Step(p, "use", "delete")
  /\ kind' = [kind EXCEPT ![p] = "auth"]
  /\ UNCHANGED <<keyring, access, file, got, issued>>

LogsOut(p) ==
  /\ kind[p] = "logout" /\ got[p] # None
  /\ Step(p, "use", "delete")
  /\ UNCHANGED <<keyring, access, file, kind, got, issued>>

-----------------------------------------------------------------------------
EmptiesKeyring(p) ==
  /\ Step(p, "delete", "deleteFile")
  /\ keyring' = IF access = "reachable" THEN "blank" ELSE keyring
  /\ UNCHANGED <<access, file, kind, got, issued>>

DeletesOnce(p) ==
  /\ Step(p, "delete", IF access = "reachable" THEN "loggedOut" ELSE "deleteFile")
  /\ keyring' = IF access = "reachable" THEN None ELSE keyring
  /\ UNCHANGED <<access, file, kind, got, issued>>

\* DeleteAuthToken: an unreachable keyring is a line in the log.
KeyringDelete(p) ==
  /\ Step(p, "delete", "deleteFile")
  /\ keyring' = IF access = "reachable" THEN None ELSE keyring
  /\ UNCHANGED <<access, file, kind, got, issued>>

AfterDelete(p) == IF kind[p] = "logout" THEN "loggedOut" ELSE "authorize"

FileDelete(p) ==
  /\ Step(p, "deleteFile", AfterDelete(p))
  /\ file' = None
  /\ UNCHANGED <<keyring, access, kind, got, issued>>

FileDeleteFails(p) ==
  /\ Step(p, "deleteFile", IF kind[p] = "logout" THEN "logoutFailed" ELSE "authorize")
  /\ UNCHANGED <<keyring, access, file, kind, got, issued>>

-----------------------------------------------------------------------------
\* loginAndStore: the browser flow, then SetAuthToken.
LoginSucceeds(p) ==
  /\ Step(p, "authorize", "set")
  /\ \E t \in Tokens : issued' = [issued EXCEPT ![p] = t]
  /\ UNCHANGED <<keyring, access, file, kind, got>>

LoginFails(p) ==
  /\ Step(p, "authorize", "done")
  /\ UNCHANGED <<keyring, access, file, kind, got, issued>>

AfterSet(p) == IF kind[p] = "start" THEN "use" ELSE "done"

StoresTwice(p) ==
  /\ access = "reachable"
  /\ Step(p, "set", AfterSet(p))
  /\ keyring' = issued[p]
  /\ file' = issued[p]
  /\ UNCHANGED <<access, kind, got, issued>>

KeyringSet(p) ==
  /\ access = "reachable"
  /\ Step(p, "set", AfterSet(p))
  /\ keyring' = issued[p]
  /\ UNCHANGED <<access, file, kind, got, issued>>

KeyringSetFails(p) ==
  /\ access = "unreachable"
  /\ Step(p, "set", "setFile")
  /\ UNCHANGED <<keyring, access, file, kind, got, issued>>

FileSet(p) ==
  /\ Step(p, "setFile", AfterSet(p))
  /\ file' = issued[p]
  /\ UNCHANGED <<keyring, access, kind, got, issued>>

\* A token that cannot be stored is a warning; the command goes on with it. The
\* write may fail after WriteFile truncated the file.
FileSetFails(p) ==
  /\ Step(p, "setFile", AfterSet(p))
  /\ file' \in {file, "blank"}
  /\ UNCHANGED <<keyring, access, kind, got, issued>>

\* A command may die before any call, and in the middle of that write.
Dies(p) ==
  /\ pc[p] \in Calls
  /\ pc' = [pc EXCEPT ![p] = "done"]
  /\ \/ UNCHANGED file
     \/ pc[p] = "setFile" /\ file' = "blank"
  /\ UNCHANGED <<keyring, access, kind, got, issued>>

\* The keyring service is locked or gone, and may be back later.
KeyringGoes ==
  /\ access = "reachable"
  /\ access' = "unreachable"
  /\ UNCHANGED <<keyring, file, kind, pc, got, issued>>

KeyringComesBack ==
  /\ KeyringReturns
  /\ access = "unreachable"
  /\ access' = "reachable"
  /\ UNCHANGED <<keyring, file, kind, pc, got, issued>>

Rest == (\A p \in Procs : pc[p] \in Ends) /\ UNCHANGED vars

Reads(p) == KeyringHit(p) \/ KeyringMiss(p) \/ FileRead(p) \/ FileReadFails(p)
Decides(p) ==
  ChecksAgain(p) \/ NeedsLogin(p) \/ Settles(p) \/ Relogs(p) \/ LogsOut(p)
Deletes(p) == KeyringDelete(p) \/ FileDelete(p) \/ FileDeleteFails(p)
Stores(p) ==
  \/ LoginSucceeds(p) \/ LoginFails(p)
  \/ KeyringSet(p) \/ KeyringSetFails(p) \/ FileSet(p) \/ FileSetFails(p)

Next ==
  \/ \E p \in Procs : Reads(p) \/ Decides(p) \/ Deletes(p) \/ Stores(p) \/ Dies(p)
  \/ KeyringGoes \/ KeyringComesBack
  \/ Rest

Spec == Init /\ [][Next]_vars

-----------------------------------------------------------------------------
(* Properties *)

\* The keyring and the file never both matter: a token in the file while the
\* keyring answers would surface the moment the keyring's entry is deleted.
OneCopy == access = "reachable" => file = None

\* The place the token is in, and what each command has read of it: a command
\* that found no entry in the keyring has its answer before it opens the file.
Held == IF access = "reachable" THEN keyring ELSE file
Seen == [p \in Procs |->
           IF access = "reachable" /\ pc[p] = "getFile" THEN None ELSE got[p]]

Register == INSTANCE TokenRegister WITH
  Values <- Tokens \cup {"blank"}, held <- Held, seen <- Seen

\* Two stores behave as one register: every read returns what was stored at one
\* moment of the read, whatever logins and logouts run beside it.
RegisterSpec == Register!Spec

\* Where commands only log out, one that reported success has left no token in the
\* file, not even behind a keyring that was away when the token was stored and is
\* back when it is deleted: it would be found as soon as the keyring is away again.
LogoutClearsFile == \A p \in Procs : pc[p] = "loggedOut" => file = None

\* logout.go: "Remove stored authentication credentials". A single logout that
\* reported success has left no token behind.
LogoutRemovesToken ==
  \A p \in Procs : pc[p] = "loggedOut" => keyring = None /\ file = None
=============================================================================
