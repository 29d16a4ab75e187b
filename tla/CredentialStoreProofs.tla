----------------------- MODULE CredentialStoreProofs -----------------------
(***************************************************************************)
(* With a keyring that never comes back once it is gone, the two places    *)
(* the token may be in are one register, for any number of commands. What  *)
(* needs no such keyring is proved without it: the types, and logout.      *)
(***************************************************************************)
EXTENDS CredentialStore, TLAPS

\* A command has a token of its own before it stores one.
IssuedInv == \A p \in Procs : pc[p] \in {"set", "setFile"} => issued[p] \in Tokens

\* Only a keyring that does not answer sends a token to the file.
FallbackInv == \A p \in Procs : pc[p] = "setFile" => access = "unreachable"

\* A command that is yet to read has read nothing it would use, and a keyring that
\* answers never yields the empty token of a spoilt file.
GotInv ==
  /\ \A p \in Procs : pc[p] \in {"get", "getFile"} => got[p] \in {None, "blank"}
  /\ access = "reachable" => \A p \in Procs : got[p] # "blank"

Inv == TypeOK /\ OneCopy /\ IssuedInv /\ FallbackInv /\ GotInv

\* A keyring that stops answering never starts again.
GoneForGood == KeyringReturns = FALSE

-----------------------------------------------------------------------------
\* The initial states satisfy the invariant.
LEMMA InitInv == Init => Inv
<1> SUFFICES ASSUME Init PROVE Inv
  OBVIOUS
<1>1. TypeOK
  BY KindsAssumption DEF Init, TypeOK, Calls, None
<1>2. OneCopy /\ IssuedInv /\ FallbackInv
  BY DEF Init, OneCopy, IssuedInv, FallbackInv
<1>3. GotInv
  BY DEF Init, GotInv, None
<1> QED
  BY <1>1, <1>2, <1>3 DEF Inv

\* Every step keeps the types, whatever the keyring does.
LEMMA TypeStep == TypeOK /\ IssuedInv /\ [Next]_vars => (TypeOK /\ IssuedInv)'
<1> SUFFICES ASSUME TypeOK, IssuedInv, [Next]_vars PROVE (TypeOK /\ IssuedInv)'
  OBVIOUS
<1> USE TokensAssumption DEF TypeOK, IssuedInv, Calls, Ends, None, Step
<1>1. ASSUME NEW p \in Procs, Reads(p) PROVE (TypeOK /\ IssuedInv)'
  BY <1>1 DEF Reads, KeyringHit, KeyringMiss, FileRead, FileReadFails
<1>2. ASSUME NEW p \in Procs, Decides(p) PROVE (TypeOK /\ IssuedInv)'
  BY <1>2 DEF Decides, ChecksAgain, NeedsLogin, Settles, Relogs, LogsOut
<1>3. ASSUME NEW p \in Procs, Deletes(p) PROVE (TypeOK /\ IssuedInv)'
  BY <1>3 DEF Deletes, KeyringDelete, FileDelete, FileDeleteFails, AfterDelete
<1>4. ASSUME NEW p \in Procs, Stores(p) PROVE (TypeOK /\ IssuedInv)'
  <2>1. CASE LoginSucceeds(p) \/ LoginFails(p)
    BY <2>1 DEF LoginSucceeds, LoginFails
  <2>2. CASE KeyringSet(p) \/ KeyringSetFails(p)
    BY <2>2 DEF KeyringSet, KeyringSetFails, AfterSet
  <2>3. CASE FileSet(p) \/ FileSetFails(p)
    BY <2>3 DEF FileSet, FileSetFails, AfterSet
  <2> QED
    BY <1>4, <2>1, <2>2, <2>3 DEF Stores
<1>5. ASSUME NEW p \in Procs, Dies(p) PROVE (TypeOK /\ IssuedInv)'
  BY <1>5 DEF Dies
<1>6. CASE KeyringGoes \/ KeyringComesBack \/ UNCHANGED vars
  BY <1>6 DEF KeyringGoes, KeyringComesBack, vars
<1> QED
  BY <1>1, <1>2, <1>3, <1>4, <1>5, <1>6 DEF Next, Rest

\* Every step keeps the invariant.
LEMMA InvStep == GoneForGood /\ Inv /\ [Next]_vars => Inv'
<1> SUFFICES ASSUME GoneForGood, Inv, [Next]_vars PROVE Inv'
  OBVIOUS
<1> USE TokensAssumption DEF Inv, TypeOK, OneCopy, IssuedInv, FallbackInv, GotInv,
  Calls, Ends, None, Step
<1>1. ASSUME NEW p \in Procs, Reads(p) PROVE Inv'
  <2>1. CASE KeyringHit(p)
    BY <2>1 DEF KeyringHit
  <2>2. CASE KeyringMiss(p)
    BY <2>2 DEF KeyringMiss
  <2>3. CASE FileRead(p)
    BY <2>3 DEF FileRead
  <2>4. CASE FileReadFails(p)
    BY <2>4 DEF FileReadFails
  <2> QED
    BY <1>1, <2>1, <2>2, <2>3, <2>4 DEF Reads
<1>2. ASSUME NEW p \in Procs, Decides(p) PROVE Inv'
  <2>1. CASE ChecksAgain(p)
    BY <2>1 DEF ChecksAgain, HasToken
  <2>2. CASE NeedsLogin(p)
    BY <2>2 DEF NeedsLogin
  <2>3. CASE Settles(p)
    BY <2>3 DEF Settles
  <2>4. CASE Relogs(p)
    BY <2>4 DEF Relogs
  <2>5. CASE LogsOut(p)
    BY <2>5 DEF LogsOut
  <2> QED
    BY <1>2, <2>1, <2>2, <2>3, <2>4, <2>5 DEF Decides
<1>3. ASSUME NEW p \in Procs, Deletes(p) PROVE Inv'
  <2>1. CASE KeyringDelete(p)
    BY <2>1 DEF KeyringDelete
  <2>2. CASE FileDelete(p)
    BY <2>2 DEF FileDelete, AfterDelete
  <2>3. CASE FileDeleteFails(p)
    BY <2>3 DEF FileDeleteFails
  <2> QED
    BY <1>3, <2>1, <2>2, <2>3 DEF Deletes
<1>4. ASSUME NEW p \in Procs, Stores(p) PROVE Inv'
  <2>1. CASE LoginSucceeds(p)
    BY <2>1 DEF LoginSucceeds
  <2>2. CASE LoginFails(p)
    BY <2>2 DEF LoginFails
  <2>3. CASE KeyringSet(p)
    BY <2>3 DEF KeyringSet, AfterSet
  <2>4. CASE KeyringSetFails(p)
    BY <2>4 DEF KeyringSetFails
  <2>5. CASE FileSet(p)
    BY <2>5 DEF FileSet, AfterSet
  <2>6. CASE FileSetFails(p)
    BY <2>6 DEF FileSetFails, AfterSet
  <2> QED
    BY <1>4, <2>1, <2>2, <2>3, <2>4, <2>5, <2>6 DEF Stores
<1>5. ASSUME NEW p \in Procs, Dies(p) PROVE Inv'
  BY <1>5 DEF Dies
<1>6. CASE KeyringGoes
  BY <1>6 DEF KeyringGoes
<1>7. CASE KeyringComesBack
  BY <1>7 DEF KeyringComesBack, GoneForGood
<1>8. CASE UNCHANGED vars
  BY <1>8 DEF vars
<1> QED
  BY <1>1, <1>2, <1>3, <1>4, <1>5, <1>6, <1>7, <1>8 DEF Next, Rest

\* The inductive invariant of a keyring that does not come back.
THEOREM InvHolds == GoneForGood => (Spec => []Inv)
<1> SUFFICES ASSUME GoneForGood PROVE Spec => []Inv
  OBVIOUS
<1>1. Inv /\ [Next]_vars => Inv'
  BY InvStep
<1> QED
  BY <1>1, InitInv, PTL DEF Spec

\* Every variable keeps its type, also with a keyring that comes and goes.
THEOREM TypeCorrect == Spec => []TypeOK
<1>1. Init => TypeOK /\ IssuedInv
  BY InitInv DEF Inv
<1> QED
  BY <1>1, TypeStep, PTL DEF Spec

\* While the keyring answers, no token is left in the file.
THEOREM OneCopyHolds == GoneForGood => (Spec => []OneCopy)
<1>1. Inv => OneCopy
  BY DEF Inv
<1> QED
  BY <1>1, InvHolds, PTL

-----------------------------------------------------------------------------
\* The initial states are the register's.
LEMMA RegisterInit == Init => Register!Init
BY DEF Init, Register!Init, Held, Seen, None

\* Every call is a step of the register, or none. The keyring's call is the one
\* that counts while the keyring answers, the file's when it does not; a read
\* that found no entry is over before it opens the file.
LEMMA RegisterStep ==
  GoneForGood /\ Inv /\ Inv' /\ [Next]_vars => [Register!Next]_<<Held, Seen>>
<1> SUFFICES ASSUME GoneForGood, Inv, Inv', [Next]_vars
             PROVE  Register!Next \/ UNCHANGED <<Held, Seen>>
  BY DEF Register!Next
<1> USE DEF Inv, TypeOK, OneCopy, IssuedInv, FallbackInv, GotInv, None, Step, Held, Seen
<1>r. ASSUME NEW p \in Procs, Register!Read(p) PROVE Register!Next
  BY <1>r DEF Register!Next
<1>m. ASSUME NEW p \in Procs, Register!Miss(p) PROVE Register!Next
  BY <1>m DEF Register!Next
<1>s. ASSUME NEW v \in Tokens \cup {"blank"}, Register!Store(v) PROVE Register!Next
  BY <1>s DEF Register!Next
<1>f. ASSUME Register!Forget PROVE Register!Next
  BY <1>f DEF Register!Next
<1>1. ASSUME NEW p \in Procs, Reads(p) PROVE Register!Next \/ UNCHANGED <<Held, Seen>>
  <2>1. CASE KeyringHit(p)
    <3>1. Register!Read(p)
      BY <2>1 DEF KeyringHit, Register!Read
    <3> QED
      BY <3>1, <1>r
  <2>2. CASE KeyringMiss(p) /\ access = "reachable"
    <3>1. Register!Read(p)
      BY <2>2 DEF KeyringMiss, Register!Read
    <3> QED
      BY <3>1, <1>r
  <2>3. CASE KeyringMiss(p) /\ access = "unreachable"
    BY <2>3 DEF KeyringMiss
  <2>4. CASE FileRead(p) /\ access = "reachable"
    BY <2>4 DEF FileRead
  <2>5. CASE FileRead(p) /\ access = "unreachable"
    <3>1. Register!Read(p)
      BY <2>5 DEF FileRead, Register!Read
    <3> QED
      BY <3>1, <1>r
  <2>6. CASE FileReadFails(p) /\ access = "reachable"
    BY <2>6 DEF FileReadFails
  <2>7. CASE FileReadFails(p) /\ access = "unreachable"
    <3>1. Register!Miss(p)
      BY <2>7 DEF FileReadFails, Register!Miss
    <3> QED
      BY <3>1, <1>m
  <2> QED
    BY <1>1, <2>1, <2>2, <2>3, <2>4, <2>5, <2>6, <2>7 DEF Reads
<1>2. ASSUME NEW p \in Procs, Decides(p) PROVE UNCHANGED <<Held, Seen>>
  BY <1>2 DEF Decides, ChecksAgain, NeedsLogin, Settles, Relogs, LogsOut
<1>3. ASSUME NEW p \in Procs, Deletes(p) PROVE Register!Next \/ UNCHANGED <<Held, Seen>>
  <2>1. CASE KeyringDelete(p) /\ access = "reachable"
    <3>1. Register!Forget
      BY <2>1 DEF KeyringDelete, Register!Forget
    <3> QED
      BY <3>1, <1>f
  <2>2. CASE KeyringDelete(p) /\ access = "unreachable"
    BY <2>2 DEF KeyringDelete
  <2>3. CASE FileDelete(p) /\ access = "reachable"
    BY <2>3 DEF FileDelete, AfterDelete
  <2>4. CASE FileDelete(p) /\ access = "unreachable"
    <3>1. Register!Forget
      BY <2>4 DEF FileDelete, AfterDelete, Register!Forget
    <3> QED
      BY <3>1, <1>f
  <2>5. CASE FileDeleteFails(p)
    BY <2>5 DEF FileDeleteFails
  <2> QED
    BY <1>3, <2>1, <2>2, <2>3, <2>4, <2>5 DEF Deletes
<1>4. ASSUME NEW p \in Procs, Stores(p) PROVE Register!Next \/ UNCHANGED <<Held, Seen>>
  <2>1. CASE LoginSucceeds(p)
    BY <2>1 DEF LoginSucceeds
  <2>2. CASE LoginFails(p)
    BY <2>2 DEF LoginFails
  <2>3. CASE KeyringSet(p)
    <3>1. Register!Store(issued[p])
      BY <2>3 DEF KeyringSet, AfterSet, Register!Store
    <3> QED
      BY <2>3, <3>1, <1>s DEF KeyringSet
  <2>4. CASE KeyringSetFails(p)
    BY <2>4 DEF KeyringSetFails
  <2>5. CASE FileSet(p)
    <3>1. Register!Store(issued[p])
      BY <2>5 DEF FileSet, AfterSet, Register!Store
    <3> QED
      BY <2>5, <3>1, <1>s DEF FileSet
  <2>6. CASE FileSetFails(p) /\ UNCHANGED file
    BY <2>6 DEF FileSetFails, AfterSet
  <2>7. CASE FileSetFails(p) /\ file' = "blank"
    <3>1. Register!Store("blank")
      BY <2>7 DEF FileSetFails, AfterSet, Register!Store
    <3> QED
      BY <3>1, <1>s
  <2> QED
    BY <1>4, <2>1, <2>2, <2>3, <2>4, <2>5, <2>6, <2>7 DEF Stores, FileSetFails
<1>5. ASSUME NEW p \in Procs, Dies(p) PROVE Register!Next \/ UNCHANGED <<Held, Seen>>
  <2>1. UNCHANGED Seen
    BY <1>5, TokensAssumption DEF Dies
  <2>2. CASE UNCHANGED file
    BY <1>5, <2>1, <2>2 DEF Dies
  <2>3. CASE pc[p] = "setFile" /\ file' = "blank"
    <3>1. Register!Store("blank")
      BY <1>5, <2>1, <2>3 DEF Dies, Register!Store
    <3> QED
      BY <3>1, <1>s
  <2> QED
    BY <1>5, <2>2, <2>3 DEF Dies
<1>6. CASE KeyringGoes
  <2>1. UNCHANGED Seen
    BY <1>6 DEF KeyringGoes
  <2>2. Held' = None
    BY <1>6 DEF KeyringGoes
  <2>3. Register!Forget
    BY <2>1, <2>2 DEF Register!Forget
  <2> QED
    BY <2>3, <1>f
<1>7. CASE KeyringComesBack
  BY <1>7 DEF KeyringComesBack, GoneForGood
<1>8. CASE UNCHANGED vars
  BY <1>8 DEF vars
<1> QED
  BY <1>1, <1>2, <1>3, <1>4, <1>5, <1>6, <1>7, <1>8 DEF Next, Rest

\* The storage implements the register.
THEOREM StorageIsRegister == GoneForGood => (Spec => RegisterSpec)
<1> SUFFICES ASSUME GoneForGood PROVE Spec => RegisterSpec
  OBVIOUS
<1>1. Inv /\ Inv' /\ [Next]_vars => [Register!Next]_<<Held, Seen>>
  BY RegisterStep
<1>2. Spec => []Inv
  BY InvHolds
<1> QED
  BY <1>1, <1>2, RegisterInit, PTL DEF Spec, RegisterSpec, Register!Spec

-----------------------------------------------------------------------------
\* The commands of a user who only logs out.
OnlyLogouts == Kinds \subseteq {"logout"}

\* A logout never gets to a call that would store a token, and one that is through
\* has seen the file removed: nobody has put another one there since.
LogoutInv ==
  /\ kind \in [Procs -> {"logout"}]
  /\ pc \in [Procs -> {"get", "getFile", "use", "delete", "deleteFile"} \cup Ends]
  /\ LogoutClearsFile

\* Every step of the commands, or of the keyring, keeps that.
LEMMA LogoutStep == LogoutInv /\ [Next]_vars => LogoutInv'
<1> SUFFICES ASSUME LogoutInv, [Next]_vars PROVE LogoutInv'
  OBVIOUS
<1> USE DEF LogoutInv, LogoutClearsFile, Ends, Step
<1>1. ASSUME NEW p \in Procs, Reads(p) PROVE LogoutInv'
  BY <1>1 DEF Reads, KeyringHit, KeyringMiss, FileRead, FileReadFails
<1>2. ASSUME NEW p \in Procs, Decides(p) PROVE LogoutInv'
  BY <1>2 DEF Decides, ChecksAgain, NeedsLogin, Settles, Relogs, LogsOut
<1>3. ASSUME NEW p \in Procs, Deletes(p) PROVE LogoutInv'
  <2>1. CASE KeyringDelete(p)
    BY <2>1 DEF KeyringDelete
  <2>2. CASE FileDelete(p)
    BY <2>2 DEF FileDelete, AfterDelete
  <2>3. CASE FileDeleteFails(p)
    BY <2>3 DEF FileDeleteFails
  <2> QED
    BY <1>3, <2>1, <2>2, <2>3 DEF Deletes
<1>4. ASSUME NEW p \in Procs, Stores(p) PROVE FALSE
  BY <1>4 DEF Stores, LoginSucceeds, LoginFails, KeyringSet, KeyringSetFails,
    FileSet, FileSetFails
<1>5. ASSUME NEW p \in Procs, Dies(p) PROVE LogoutInv'
  BY <1>5 DEF Dies
<1>6. CASE KeyringGoes \/ KeyringComesBack
  BY <1>6 DEF KeyringGoes, KeyringComesBack
<1>7. CASE UNCHANGED vars
  BY <1>7 DEF vars
<1> QED
  BY <1>1, <1>2, <1>3, <1>4, <1>5, <1>6, <1>7 DEF Next, Rest

\* Where commands only log out, one that reported success has left no token in the
\* file, for any number of them and a keyring that comes and goes as it likes.
THEOREM LogoutsClearFile == OnlyLogouts => (Spec => []LogoutClearsFile)
<1> SUFFICES ASSUME OnlyLogouts PROVE Spec => []LogoutClearsFile
  OBVIOUS
<1>1. Init => LogoutInv
  BY DEF Init, LogoutInv, LogoutClearsFile, OnlyLogouts, Ends
<1>2. LogoutInv => LogoutClearsFile
  BY DEF LogoutInv
<1> QED
  BY <1>1, <1>2, LogoutStep, PTL DEF Spec
=============================================================================
