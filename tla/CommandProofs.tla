---------------------------- MODULE CommandProofs ----------------------------
(***************************************************************************)
(* Machine-checked theorems about the two commands of internal/cli that    *)
(* have a specification of their own: the agent's start and stop on one    *)
(* database (AgentLock), for any number of processes, and the account      *)
(* smoke test (SmokeTest), for any quantity and any answers of the broker. *)
(***************************************************************************)
EXTENDS AgentLock, SmokeTest, FiniteSetTheorems, TLAPS

\* Every process derives the same name of the lock file.
OneName == \A p, q \in Process : LockPath[p] = LockPath[q]

\* Every process runs the same binary.
OneVersion == \A p, q \in Process : Version[p] = Version[q]

(* The lock *)

\* The types of what the lock is made of.
LockTypes ==
    /\ inode \in [Names -> {0} \cup Inodes]
    /\ holder \in [Inodes -> Process \cup {None}]
    /\ pc \in [Process -> Steps]
    /\ file \in [Process -> {0} \cup Inodes]

\* An open lock file is the one that has the name.
FileInv ==
    /\ \A p \in Process : file[p] \in {0, inode[LockPath[p]]}
    /\ \A p \in Process : pc[p] = "flock" => file[p] # 0

\* Who is between Flock and Release holds the lock, and nobody else does.
HolderInv ==
    /\ \A p \in Process : pc[p] \in {"opened", "flock", "release"} => p \in Agent
    /\ \A p \in Agent : pc[p] \in {"running", "release"} => Holds(p)
    /\ \A i \in Inodes : holder[i] # None =>
           /\ holder[i] \in Agent /\ file[holder[i]] = i
           /\ pc[holder[i]] \in {"running", "release"}

\* The inductive invariant of the lock.
LockInv == LockTypes /\ FileInv /\ HolderInv
-----------------------------------------------------------------------------
\* One name leaves three inodes.
LEMMA ThreeInodes ==
    ASSUME OneName, NEW p \in Process
    PROVE  Names = {LockPath[p]} /\ Inodes = 1 .. 3
<1>1. Names = {LockPath[p]}
  BY DEF OneName, Names
<1>2. Cardinality(Names) = 1
  BY <1>1, FS_Singleton
<1> QED BY <1>1, <1>2 DEF Inodes

\* The lock file is opened as it is, or is a new one.
LEMMA OpensTheName ==
    ASSUME OneName, LockInv, NEW p \in Process, OpenLockFile(p)
    PROVE  /\ inode' \in [Names -> {0} \cup Inodes]
           /\ file' = [file EXCEPT ![p] = inode'[LockPath[p]]]
           /\ inode'[LockPath[p]] \in Inodes
           /\ \A q \in Process : q # p => file'[q] \in {0, inode'[LockPath[q]]}
<1> DEFINE n == LockPath[p]
           Free(i) == (\A m \in Names : inode[m] # i) /\ (\A q \in Process : file[q] # i)
           fresh == CHOOSE i \in Inodes : Free(i)
<1>1. Names = {n} /\ Inodes = 1 .. 3
  BY ThreeInodes
<1>2. /\ inode' = IF inode[n] = 0 THEN [inode EXCEPT ![n] = fresh] ELSE inode
      /\ file' = [file EXCEPT ![p] = inode'[n]]
  BY DEF OpenLockFile
<1>3. inode \in [Names -> {0} \cup Inodes] /\ file \in [Process -> {0} \cup Inodes]
  BY DEF LockInv, LockTypes
<1>4. \A q \in Process : LockPath[q] = n /\ file[q] \in {0, inode[n]}
  BY DEF OneName, LockInv, FileInv
<1>5. CASE inode[n] # 0
  BY <1>1, <1>2, <1>3, <1>4, <1>5
<1>6. CASE inode[n] = 0
  <2>1. Free(1)
    BY <1>1, <1>4, <1>6
  <2>2. fresh \in Inodes
    BY <1>1, <2>1
  <2> HIDE DEF fresh
  <2>3. inode' = [inode EXCEPT ![n] = fresh] /\ n \in Names
    BY <1>1, <1>2, <1>6
  <2>4. inode' \in [Names -> {0} \cup Inodes] /\ inode'[n] = fresh
    BY <1>3, <2>2, <2>3
  <2>5. \A q \in Process : q # p => file'[q] = 0
    BY <1>2, <1>3, <1>4, <1>6
  <2> QED BY <1>2, <2>2, <2>4, <2>5
<1> QED BY <1>5, <1>6

\* A step that touches none of the lock's state but moves a process from a
\* place outside the lock to another.
LEMMA OutsideSteps ==
    ASSUME LockInv, NEW p \in Process, NEW step \in Steps,
           pc' = [pc EXCEPT ![p] = step], UNCHANGED <<inode, holder, file>>,
           \/ pc[p] \notin {"running", "release"} /\ step \notin {"opened", "flock", "release"}
                  /\ (step = "running" => p \notin Agent)
           \/ step = "opened" /\ p \in Agent /\ pc[p] \notin {"running", "release"}
           \/ pc[p] = "running" /\ step = IF p \in Agent THEN "release" ELSE "close"
    PROVE  LockInv'
<1>1. LockTypes'
  BY DEF LockInv, LockTypes
<1>2. FileInv'
  BY DEF LockInv, LockTypes, FileInv
<1>3. HolderInv'
  BY DEF LockInv, LockTypes, HolderInv, Holds
<1> QED BY <1>1, <1>2, <1>3 DEF LockInv

\* The end of a process, however it comes, leaves the lock to nobody.
LEMMA ExitFrees ==
    ASSUME LockInv, NEW p \in Process, Exit(p)
    PROVE  LockInv'
<1> USE AgentAssumption
<1>1. LockTypes'
  BY DEF LockInv, LockTypes, Exit, Goto, Steps, database
<1>2. FileInv'
  BY DEF LockInv, LockTypes, FileInv, Exit, Goto, Steps, database
<1>3. HolderInv'
  BY DEF LockInv, LockTypes, HolderInv, Holds, Exit, Goto, Steps, database
<1> QED BY <1>1, <1>2, <1>3 DEF LockInv

\* The steps that change the lock.
LEMMA LockingSteps ==
    ASSUME OneName, LockInv, NEW p \in Process, Locking(p) \/ Release(p)
    PROVE  LockInv'
<1> USE AgentAssumption
<1>1. CASE OpenLockFile(p)
  <2>1. /\ inode' \in [Names -> {0} \cup Inodes]
        /\ file' = [file EXCEPT ![p] = inode'[LockPath[p]]]
        /\ inode'[LockPath[p]] \in Inodes
        /\ \A q \in Process : q # p => file'[q] \in {0, inode'[LockPath[q]]}
    BY <1>1, OpensTheName
  <2>2. /\ pc[p] = "opened" /\ pc' = [pc EXCEPT ![p] = "flock"] /\ holder' = holder
        /\ inode' = inode \/ \A q \in Process : file[q] = 0
    <3>1. \A q \in Process : LockPath[q] = LockPath[p]
      BY DEF OneName
    <3> QED BY <1>1, <3>1 DEF OpenLockFile, Goto, LockInv, FileInv
  <2>3. LockTypes'
    BY <2>1, <2>2 DEF LockInv, LockTypes, Steps
  <2>4. FileInv'
    BY <2>1, <2>2 DEF LockInv, LockTypes, FileInv, Inodes
  <2>5. HolderInv'
    BY <2>1, <2>2 DEF LockInv, LockTypes, HolderInv, Holds
  <2> QED BY <2>3, <2>4, <2>5 DEF LockInv
<1>2. CASE Flock(p)
  <2>1. LockTypes'
    BY <1>2 DEF Flock, Goto, LockInv, LockTypes, Steps
  <2>2. FileInv'
    BY <1>2 DEF Flock, Goto, LockInv, LockTypes, FileInv
  <2>3. file[p] \in Inodes /\ p \in Agent
    BY <1>2 DEF Flock, LockInv, LockTypes, FileInv, HolderInv
  <2>4. /\ pc[p] = "flock" /\ pc' = [pc EXCEPT ![p] = "running"]
        /\ holder[file[p]] = None /\ holder' = [holder EXCEPT ![file[p]] = p]
        /\ file' = file
        /\ holder \in [Inodes -> Process \cup {None}] /\ pc \in [Process -> Steps]
        /\ file \in [Process -> {0} \cup Inodes]
    BY <1>2 DEF Flock, Goto, LockInv, LockTypes
  <2>5. HolderInv
    BY DEF LockInv
  <2>6. \A q \in Process : pc'[q] \in {"opened", "flock", "release"} => q \in Agent
    BY <2>4, <2>5 DEF HolderInv
  <2>7. \A q \in Agent : pc'[q] \in {"running", "release"} => Holds(q)'
    <3> SUFFICES ASSUME NEW q \in Agent, pc'[q] \in {"running", "release"}
                 PROVE  file[q] # 0 /\ holder'[file[q]] = q
      BY <2>4 DEF Holds
    <3>1. CASE q = p
      BY <2>3, <2>4, <3>1 DEF Inodes
    <3>2. CASE q # p
      <4>1. file[q] # 0 /\ holder[file[q]] = q
        BY <2>4, <2>5, <3>2 DEF HolderInv, Holds
      <4>2. file[q] # file[p]
        BY <2>4, <4>1
      <4> QED BY <2>3, <2>4, <4>1, <4>2
    <3> QED BY <3>1, <3>2
  <2>8. ASSUME NEW i \in Inodes, holder'[i] # None
        PROVE  /\ holder'[i] \in Agent /\ file'[holder'[i]] = i
               /\ pc'[holder'[i]] \in {"running", "release"}
    <3>1. CASE i = file[p]
      BY <2>3, <2>4, <3>1
    <3>2. CASE i # file[p]
      BY <2>3, <2>4, <2>5, <2>8, <3>2 DEF HolderInv
    <3> QED BY <3>1, <3>2
  <2>9. HolderInv'
    BY <2>6, <2>7, <2>8 DEF HolderInv, Inodes
  <2> QED BY <2>1, <2>2, <2>9 DEF LockInv
<1>3. CASE LockHeld(p)
  <2>1. LockTypes'
    BY <1>3 DEF LockHeld, Goto, LockInv, LockTypes, Steps, kernel
  <2>2. FileInv'
    BY <1>3 DEF LockHeld, Goto, LockInv, LockTypes, FileInv, kernel
  <2>3. HolderInv'
    BY <1>3 DEF LockHeld, Goto, LockInv, LockTypes, HolderInv, Holds, kernel
  <2> QED BY <2>1, <2>2, <2>3 DEF LockInv
<1>4. CASE Release(p)
  <2>1. LockTypes'
    BY <1>4 DEF Release, Goto, LockInv, LockTypes, Steps
  <2>2. FileInv'
    BY <1>4 DEF Release, Goto, LockInv, LockTypes, FileInv
  <2>3. holder[file[p]] = p /\ p \in Agent
    BY <1>4 DEF Release, LockInv, HolderInv, Holds
  <2>4. HolderInv'
    BY <1>4, <2>3 DEF Release, Goto, LockInv, LockTypes, HolderInv, Holds
  <2> QED BY <2>1, <2>2, <2>4 DEF LockInv
<1> QED BY <1>1, <1>2, <1>3, <1>4 DEF Locking

\* No step of a process breaks the invariant of the lock.
LEMMA LockPreserved ==
    ASSUME OneName, LockInv, [Next]_vars
    PROVE  LockInv'
<1>1. CASE UNCHANGED vars
  BY <1>1 DEF vars, database, kernel, memory, LockInv, LockTypes, FileInv, HolderInv, Holds
<1>2. ASSUME NEW p \in Process, Start(p) PROVE LockInv'
  <2>1. pc[p] = "off" /\ pc' = [pc EXCEPT ![p] = "open"] /\ UNCHANGED <<inode, holder, file>>
    BY <1>2 DEF Start, Goto, kernel
  <2> QED BY <2>1, OutsideSteps DEF Steps
<1>3. ASSUME NEW p \in Process, Opening(p) PROVE LockInv'
  <2>1. PICK step \in {"close", "migrate", "opened", "running"} :
            /\ pc[p] \in {"open", "migrate"} /\ pc' = [pc EXCEPT ![p] = step]
            /\ UNCHANGED <<inode, holder, file>>
            /\ step = "opened" => p \in Agent
            /\ step = "running" => p \notin Agent
    <3>1. CASE ReadVersion(p)
      BY <3>1 DEF ReadVersion, Goto, kernel
    <3>2. CASE Migrate(p)
      <4>1. pc[p] = "migrate" /\ pc' = [pc EXCEPT ![p] = "migrate"]
        BY <3>2 DEF Migrate, LockInv, LockTypes
      <4> QED BY <3>2, <4>1 DEF Migrate, kernel
    <3>3. CASE MigrationConflicts(p) \/ DatabaseBusy(p)
      BY <3>3 DEF MigrationConflicts, DatabaseBusy, Goto, kernel
    <3>4. CASE Migrated(p)
      BY <3>4 DEF Migrated, Goto, kernel
    <3> QED BY <1>3, <3>1, <3>2, <3>3, <3>4 DEF Opening
  <2> QED BY <2>1, OutsideSteps DEF Steps
<1>4. ASSUME NEW p \in Process, RunEnds(p) PROVE LockInv'
  <2>1. /\ pc[p] = "running"
        /\ pc' = [pc EXCEPT ![p] = IF p \in Agent THEN "release" ELSE "close"]
        /\ UNCHANGED <<inode, holder, file>>
    BY <1>4 DEF RunEnds, Goto, kernel
  <2> QED BY <2>1, OutsideSteps DEF Steps
<1>5. ASSUME NEW p \in Process, Locking(p) \/ Closing(p) \/ Crash(p) PROVE LockInv'
  <2>1. CASE Locking(p) \/ Release(p)
    BY <2>1, LockingSteps
  <2>2. CASE CloseDatabase(p) \/ Crash(p)
    BY <2>2, ExitFrees DEF CloseDatabase, Crash
  <2> QED BY <1>5, <2>1, <2>2 DEF Closing
<1> QED BY <1>1, <1>2, <1>3, <1>4, <1>5 DEF Next

\* It holds when no process has started.
LEMMA LockInitially ==
    ASSUME Init PROVE LockInv
<1> USE AgentAssumption
<1>1. \A p \in Process : LockPath[p] \in Names
  BY DEF Names
<1> QED BY <1>1 DEF Init, LockInv, LockTypes, FileInv, HolderInv, Steps

\* It holds always, if all processes derive one name of the lock file.
LEMMA LockInductive == ASSUME OneName PROVE Spec => []LockInv
<1>1. Init => LockInv
  BY LockInitially
<1>2. LockInv /\ [Next]_vars => LockInv'
  BY LockPreserved
<1> QED BY <1>1, <1>2, PTL DEF Spec

\* However processes start, stop and die, at most one agent runs on the database,
\* it holds the lock, and no lock survives its process, as long as all derive the
\* same name of the lock file (OneAgent).
THEOREM LockExcludes == ASSUME OneName PROVE Spec => []OneAgent
<1>1. LockInv => OneAgent
  <2> SUFFICES ASSUME LockInv PROVE OneAgent
    OBVIOUS
  <2>1. \A p \in Process : Trading(p) => Holds(p)
    BY DEF LockInv, HolderInv, Trading
  <2>2. ASSUME NEW p \in Process, NEW q \in Process, Trading(p), Trading(q) PROVE p = q
    <3>1. Holds(p) /\ Holds(q)
      BY <2>1, <2>2
    <3>2. file[p] = file[q]
      BY <3>1 DEF Holds, LockInv, FileInv, OneName
    <3> QED BY <3>1, <3>2 DEF Holds
  <2>3. \A i \in Inodes : holder[i] # None => pc[holder[i]] \in {"running", "release"}
    BY DEF LockInv, HolderInv
  <2> QED BY <2>1, <2>2, <2>3 DEF OneAgent
<1> QED BY LockInductive, <1>1, PTL
-----------------------------------------------------------------------------
(* The migrations *)

\* The types of what the migrations are made of.
SchemaTypes ==
    /\ ledger \subseteq 1 .. Newest
    /\ schema \in Seq(1 .. Newest)
    /\ seen \in [Process -> 0 .. Newest]

\* The ledger is what was executed; a process that migrates is not ahead of it,
\* and one that is past its migrations has the newest schema.
SchemaInv ==
    /\ schema = [i \in 1 .. Len(schema) |-> i]
    /\ ledger = 1 .. Len(schema)
    /\ \A p \in Process :
           /\ pc[p] = "migrate" => seen[p] <= Len(schema)
           /\ pc[p] \in {"opened", "flock", "running"} => Len(schema) = Newest

\* The inductive invariant of the migrations rests on that of the lock.
MigrationInv == LockInv /\ SchemaTypes /\ SchemaInv

\* With one binary the newest migration is the last one of every process.
LEMMA NewestIsTheirs ==
    ASSUME OneVersion, NEW p \in Process
    PROVE  Newest = Version[p] /\ Newest \in Nat
<1> USE VersionAssumption
<1>1. {Version[q] : q \in Process} = {Version[p]}
  BY DEF OneVersion
<1>2. Version[p] \in Nat
  OBVIOUS
<1>3. Max({Version[p]}) = Version[p]
  BY <1>2 DEF Max
<1> QED BY <1>1, <1>2, <1>3 DEF Newest

\* The greatest version of a ledger without holes.
LEMMA MaxOfLedger ==
    ASSUME NEW n \in Nat \ {0}
    PROVE  Max(1 .. n) = n
BY DEF Max

\* The length of the schema is a version.
LEMMA SchemaIsShort ==
    ASSUME OneVersion, SchemaTypes, SchemaInv, NEW p \in Process
    PROVE  Len(schema) \in 0 .. Newest /\ Newest \in Nat
<1>1. Newest \in Nat
  BY NewestIsTheirs
<1>2. Len(schema) \in Nat
  BY <1>1 DEF SchemaTypes
<1>3. 1 .. Len(schema) \subseteq 1 .. Newest
  BY DEF SchemaTypes, SchemaInv
<1>4. CASE Len(schema) = 0
  BY <1>1, <1>4
<1>5. CASE Len(schema) # 0
  <2>1. Len(schema) \in 1 .. Newest
    BY <1>2, <1>3, <1>5
  <2> QED BY <1>1, <2>1
<1> QED BY <1>4, <1>5

\* Reading the version leaves a process behind or at the schema.
LEMMA ReadVersionKeeps ==
    ASSUME OneVersion, MigrationInv, NEW p \in Process, ReadVersion(p)
    PROVE  SchemaTypes' /\ SchemaInv'
<1> DEFINE version == IF ledger = {} THEN 0 ELSE Max(ledger)
<1>1. Len(schema) \in 0 .. Newest /\ Newest \in Nat /\ Newest = Version[p]
  BY SchemaIsShort, NewestIsTheirs DEF MigrationInv
<1>2. version = Len(schema)
  <2>1. ledger = 1 .. Len(schema)
    BY DEF MigrationInv, SchemaInv
  <2>2. CASE Len(schema) = 0
    BY <2>1, <2>2
  <2>3. CASE Len(schema) # 0
    <3>1. Len(schema) \in Nat \ {0} /\ ledger # {}
      BY <1>1, <2>1, <2>3
    <3> QED BY <2>1, <3>1, MaxOfLedger
  <2> QED BY <2>2, <2>3
<1> HIDE DEF version
<1>3. /\ seen' = [seen EXCEPT ![p] = version]
      /\ pc' = [pc EXCEPT ![p] = IF version > Version[p] THEN "close" ELSE "migrate"]
      /\ UNCHANGED <<ledger, schema>>
  BY DEF ReadVersion, version, Goto, database
<1>4. pc \in [Process -> Steps] /\ SchemaTypes /\ SchemaInv
  BY DEF MigrationInv, LockInv, LockTypes
<1>5. SchemaTypes'
  BY <1>1, <1>2, <1>3, <1>4 DEF SchemaTypes
<1>6. SchemaInv'
  BY <1>1, <1>2, <1>3, <1>4 DEF SchemaInv, SchemaTypes
<1> QED BY <1>5, <1>6

\* A migration that is applied is the next one of the schema.
LEMMA MigrateKeeps ==
    ASSUME OneVersion, MigrationInv, NEW p \in Process, Migrate(p)
    PROVE  SchemaTypes' /\ SchemaInv'
<1> DEFINE n == Len(schema)
<1>1. n \in 0 .. Newest /\ Newest \in Nat /\ Newest = Version[p]
  BY SchemaIsShort, NewestIsTheirs DEF MigrationInv
<1>2. SchemaTypes /\ SchemaInv
  BY DEF MigrationInv
<1>3. /\ pc[p] = "migrate" /\ seen[p] < Version[p] /\ seen[p] + 1 \notin ledger
      /\ ledger' = ledger \cup {seen[p] + 1}
      /\ schema' = Append(schema, seen[p] + 1)
      /\ seen' = [seen EXCEPT ![p] = @ + 1]
      /\ UNCHANGED pc
  BY DEF Migrate
<1>4. seen[p] = n
  <2>1. seen[p] \in 0 .. Newest /\ seen[p] <= n
    BY <1>2, <1>3 DEF SchemaTypes, SchemaInv
  <2>2. seen[p] + 1 \notin 1 .. n
    BY <1>2, <1>3 DEF SchemaInv
  <2> QED BY <1>1, <2>1, <2>2
<1>5. /\ n + 1 \in 1 .. Newest
      /\ schema' = Append(schema, n + 1) /\ ledger' = (1 .. n) \cup {n + 1}
  BY <1>1, <1>2, <1>3, <1>4 DEF SchemaInv
<1>6. schema' \in Seq(1 .. Newest) /\ Len(schema') = n + 1
  BY <1>2, <1>5 DEF SchemaTypes
<1>7. SchemaTypes'
  <2>1. ledger' \subseteq 1 .. Newest
    BY <1>1, <1>5
  <2>2. seen' \in [Process -> 0 .. Newest]
    BY <1>2, <1>3, <1>4, <1>5 DEF SchemaTypes
  <2> QED BY <1>2, <1>3, <1>6, <2>1, <2>2 DEF SchemaTypes
<1>8. schema' = [i \in 1 .. Len(schema') |-> i]
  <2>1. ASSUME NEW i \in 1 .. n + 1 PROVE schema'[i] = i
    <3>1. CASE i = n + 1
      BY <1>2, <1>5, <3>1 DEF SchemaTypes
    <3>2. CASE i # n + 1
      <4>1. i \in 1 .. n
        BY <1>1, <3>2
      <4>2. schema[i] = i
        BY <1>2, <4>1 DEF SchemaInv
      <4> QED BY <1>2, <1>5, <4>1, <4>2 DEF SchemaTypes
    <3> QED BY <3>1, <3>2
  <2>2. schema' = [i \in 1 .. n + 1 |-> schema'[i]]
    BY <1>6
  <2> QED BY <1>6, <2>1, <2>2
<1>9. ledger' = 1 .. Len(schema')
  BY <1>1, <1>5, <1>6
<1>10. ASSUME NEW q \in Process
       PROVE  /\ pc[q] = "migrate" => seen'[q] <= n + 1
              /\ pc[q] \notin {"opened", "flock", "running"}
  <2>1. seen[q] \in 0 .. Newest /\ (pc[q] = "migrate" => seen[q] <= n)
    BY <1>2 DEF SchemaTypes, SchemaInv
  <2>2. seen'[q] = IF q = p THEN n + 1 ELSE seen[q]
    BY <1>2, <1>3, <1>4 DEF SchemaTypes
  <2>3. n # Newest
    BY <1>1, <1>5
  <2>4. pc[q] \in {"opened", "flock", "running"} => n = Newest
    BY <1>2 DEF SchemaInv
  <2> QED BY <1>1, <2>1, <2>2, <2>3, <2>4
<1>11. SchemaInv'
  BY <1>3, <1>6, <1>8, <1>9, <1>10 DEF SchemaInv
<1> QED BY <1>7, <1>11

\* A process that goes from one place to another without migrating.
LEMMA OtherStepsKeep ==
    ASSUME OneVersion, MigrationInv, NEW p \in Process, NEW step \in Steps,
           pc' = [pc EXCEPT ![p] = step], UNCHANGED <<ledger, schema, seen>>,
           \/ step \in {"off", "open", "release", "close"}
           \/ step \in {"opened", "running"} /\ pc[p] = "migrate" /\ seen[p] = Version[p]
           \/ step \in {"flock", "running"} /\ pc[p] \in {"opened", "flock", "running"}
    PROVE  SchemaTypes' /\ SchemaInv'
<1>1. Len(schema) \in 0 .. Newest /\ Newest \in Nat /\ Newest = Version[p]
  BY SchemaIsShort, NewestIsTheirs DEF MigrationInv
<1>2. pc \in [Process -> Steps] /\ SchemaTypes /\ SchemaInv
  BY DEF MigrationInv, LockInv, LockTypes
<1>3. SchemaTypes'
  BY <1>2 DEF SchemaTypes
<1>4. ASSUME NEW q \in Process
      PROVE  /\ pc'[q] = "migrate" => seen[q] <= Len(schema)
             /\ pc'[q] \in {"opened", "flock", "running"} => Len(schema) = Newest
  <2>1. /\ pc[q] = "migrate" => seen[q] <= Len(schema)
        /\ pc[q] \in {"opened", "flock", "running"} => Len(schema) = Newest
    BY <1>2 DEF SchemaInv
  <2>2. CASE q # p
    BY <1>2, <2>1, <2>2
  <2>3. CASE q = p
    BY <1>1, <1>2, <2>1, <2>3
  <2> QED BY <2>2, <2>3
<1>5. SchemaInv'
  BY <1>2, <1>4 DEF SchemaInv
<1> QED BY <1>3, <1>5

\* No step breaks the invariant of the migrations.
LEMMA MigrationPreserved ==
    ASSUME OneName, OneVersion, MigrationInv, [Next]_vars
    PROVE  MigrationInv'
<1> USE AgentAssumption
<1>1. LockInv'
  BY LockPreserved DEF MigrationInv
<1>2. pc \in [Process -> Steps] /\ SchemaTypes /\ SchemaInv
  BY DEF MigrationInv, LockInv, LockTypes
<1>3. CASE UNCHANGED vars
  <2>1. UNCHANGED <<ledger, schema, pc, seen>>
    BY <1>3 DEF vars, database, memory
  <2>2. SchemaTypes' /\ SchemaInv'
    BY <1>2, <2>1 DEF SchemaTypes, SchemaInv
  <2> QED BY <1>1, <2>2 DEF MigrationInv
<1>4. ASSUME NEW p \in Process, Start(p) \/ Opening(p) \/ Locking(p) \/ RunEnds(p)
                                \/ Closing(p) \/ Crash(p)
      PROVE  SchemaTypes' /\ SchemaInv'
  <2>1. CASE ReadVersion(p)
    BY <2>1, ReadVersionKeeps
  <2>2. CASE Migrate(p)
    BY <2>2, MigrateKeeps
  <2>3. CASE DatabaseBusy(p)
    BY <1>2, <2>3, OtherStepsKeep DEF DatabaseBusy, Goto, database, Steps
  <2>4. CASE Start(p)
    BY <1>2, <2>4, OtherStepsKeep DEF Start, Goto, database, Steps
  <2>5. CASE MigrationConflicts(p)
    BY <1>2, <2>5, OtherStepsKeep DEF MigrationConflicts, Goto, database, Steps
  <2>6. CASE Migrated(p)
    BY <1>2, <2>6, OtherStepsKeep DEF Migrated, Goto, database, Steps
  <2>7. CASE OpenLockFile(p)
    <3>1. /\ pc[p] = "opened" /\ pc' = [pc EXCEPT ![p] = "flock"]
          /\ UNCHANGED <<ledger, schema, seen>>
      BY <2>7 DEF OpenLockFile, Goto, database
    <3> QED BY <1>2, <3>1, OtherStepsKeep DEF Steps
  <2>8. CASE Flock(p)
    <3>1. /\ pc[p] = "flock" /\ pc' = [pc EXCEPT ![p] = "running"]
          /\ UNCHANGED <<ledger, schema, seen>>
      BY <1>2, <2>8 DEF Flock, Goto, database
    <3> QED BY <1>2, <3>1, OtherStepsKeep DEF Steps
  <2>9. CASE LockHeld(p)
    BY <1>2, <2>9, OtherStepsKeep DEF LockHeld, Goto, database, Steps
  <2>10. CASE RunEnds(p)
    BY <1>2, <2>10, OtherStepsKeep DEF RunEnds, Goto, database, Steps
  <2>11. CASE Release(p)
    BY <1>2, <2>11, OtherStepsKeep DEF Release, Goto, database, Steps
  <2>12. CASE Exit(p)
    <3>1. /\ pc' = [pc EXCEPT ![p] = "off"]
          /\ UNCHANGED <<ledger, schema, seen>>
      BY <1>2, <2>12 DEF Exit, Goto, database
    <3> QED BY <1>2, <3>1, OtherStepsKeep DEF Steps
  <2> QED BY <1>4, <2>1, <2>2, <2>3, <2>4, <2>5, <2>6, <2>7, <2>8, <2>9, <2>10, <2>11, <2>12
          DEF Opening, Locking, Closing, CloseDatabase, Crash
<1>5. CASE Next
  BY <1>1, <1>4, <1>5 DEF Next, MigrationInv
<1> QED BY <1>3, <1>5

\* It holds in an empty database.
LEMMA MigrationInitially ==
    ASSUME OneVersion, NEW p \in Process, Init
    PROVE  MigrationInv
<1>1. LockInv
  BY LockInitially
<1>2. Newest \in Nat
  BY NewestIsTheirs
<1>3. SchemaTypes
  BY <1>2 DEF Init, SchemaTypes
<1>4. schema = <<>> /\ Len(schema) = 0 /\ ledger = {}
  BY DEF Init
<1>5. schema = [i \in 1 .. Len(schema) |-> i] /\ ledger = 1 .. Len(schema)
  BY <1>4
<1>6. SchemaInv
  BY <1>5 DEF Init, SchemaInv
<1> QED BY <1>1, <1>3, <1>6 DEF MigrationInv

\* Each migration is executed once, in order, and an agent runs on the schema of
\* its binary, although processes migrate without the lock, as long as they have
\* one name for it and one version (MigratedOnce).
THEOREM MigratesOnce ==
    ASSUME OneName, OneVersion, NEW p \in Process
    PROVE  Spec => []MigratedOnce
<1>1. Init => MigrationInv
  BY MigrationInitially
<1>2. MigrationInv /\ [Next]_vars => MigrationInv'
  BY MigrationPreserved
<1>3. MigrationInv => MigratedOnce
  <2> SUFFICES ASSUME MigrationInv PROVE MigratedOnce
    OBVIOUS
  <2>1. TypeOK
    BY DEF MigrationInv, LockInv, LockTypes, SchemaTypes, TypeOK
  <2>2. \A q \in Process : Trading(q) => Len(schema) = Version[q]
    BY NewestIsTheirs DEF Trading, MigrationInv, SchemaInv
  <2> QED BY <2>1, <2>2 DEF MigratedOnce, MigrationInv, SchemaInv
<1> QED BY <1>1, <1>2, <1>3, PTL DEF Spec
------------------------------------------------------------------------------
(* The account smoke test *)

\* Calls at which the test cannot have sent the sell of its cleanup.
BeforeTheRest == Main \cup {"failed", "ok", "resolve", "buyState", "cancel", "observe", "position",
                            "sellRest"}

\* Of each order: what is filled fits into it, an order that was not placed has
\* nothing, a filled one is filled in full, and a final state that GetOrder shows is
\* the order's state; what the stream still holds was filled.
OrderInv ==
    /\ \A o \in Name :
          /\ order[o].filled <= order[o].size
          /\ order[o].state = "none" => order[o].size = 0
          /\ order[o].state = "filled" => order[o].filled = order[o].size
          /\ view[o] \in Terminal => order[o].state = view[o]
          /\ events[o] <= order[o].filled
    /\ \A o \in {"buy", "sell"} : order[o].state # "none" => order[o].size = Quantity
    /\ order["sell"].state # "none" => order["buy"].state = "filled"
    /\ order["sell"].state = "none" => order["cleanup"].size <= order["buy"].filled

\* What has been sent when the test is at a call.
SentInv ==
    /\ call \in {"flat", "noOrders", "subscribe", "buy", "failed"} => order["buy"].state = "none"
    /\ call \in {"flat", "noOrders", "subscribe", "buy", "buyLookup", "buyWait", "bought", "sell"}
          => order["sell"].state = "none"
    /\ call \in BeforeTheRest => order["cleanup"].state = "none"
    /\ call \in Main \cup {"failed", "ok", "resolve", "buyState", "cancel"} => cancels = 0
    /\ cancels <= 1

\* What it has seen.
SeenInv ==
    /\ call \in {"bought", "sell"} => order["buy"].state = "filled"
    /\ call \in {"finalPosition", "finalOrders", "ok"} => order["sell"].state = "filled"
    /\ call \in {"position", "sellRest", "restLookup", "restWait", "verifyPosition", "verifyOrders",
               "clean"} /\ ~unread => order["buy"].state \in Terminal
    /\ call = "sellRest" /\ order["sell"].state = "none" => rest <= order["buy"].filled
    /\ call \in {"verifyPosition", "verifyOrders", "clean"} =>
          order["cleanup"].state \in {"none", "filled"}
    /\ call \in {"verifyOrders", "clean"} /\ ~unread /\ order["sell"].state = "none" => Position = 0
    /\ call \in {"buyLookup", "buyWait"} => received + events["buy"] <= order["buy"].filled
    /\ call \in {"sellLookup", "sellWait"} => received + events["sell"] <= order["sell"].filled

\* The inductive invariant of the smoke test.
SmokeInv == SmokeTypeOK /\ OrderInv /\ SentInv /\ SeenInv

\* It holds before the first call.
LEMMA SmokeInitially == SmokeInit => SmokeInv
<1> SUFFICES ASSUME SmokeInit PROVE SmokeInv
  OBVIOUS
<1>1. SmokeTypeOK
  <2>1. Quantity \in Nat /\ 0 \in 0 .. Quantity /\ "none" \in State /\ "flat" \in Main
    BY SmokeTestAssumption DEF State, Main
  <2>2. order \in [Name -> [state : State, size : 0 .. Quantity, filled : 0 .. Quantity]]
    BY <2>1 DEF SmokeInit
  <2> QED BY <2>1, <2>2 DEF SmokeInit, SmokeTypeOK
<1>2. OrderInv
  BY SmokeTestAssumption DEF SmokeInit, OrderInv, Terminal, Name
<1>3. SentInv /\ SeenInv
  BY DEF SmokeInit, SentInv, SeenInv, Name
<1> QED BY <1>1, <1>2, <1>3 DEF SmokeInv
-----------------------------------------------------------------------------
(* What a step does to the orders.                                          *)

\* An order that was not there is sent: applied, on its way, or lost.
Sends(o, size) ==
    \/ Placed(o, size)
    \/ /\ \E state \in {"lost"} \cup (IF o \in Resting THEN {"inflight"} ELSE {}) :
            order' = [order EXCEPT ![o] = [state |-> state, size |-> size, filled |-> 0]]
       /\ UNCHANGED <<view, events>>

\* It then has its size, and is filled whole or not at all.
LEMMA SentOrder ==
    ASSUME SmokeTypeOK, OrderInv, NEW o \in Name, NEW size \in 0 .. Quantity,
           order[o].state = "none", Sends(o, size)
    PROVE  /\ order' \in [Name -> [state : State, size : 0 .. Quantity, filled : 0 .. Quantity]]
           /\ view' \in [Name -> State] /\ events' \in [Name -> 0 .. Quantity]
           /\ \A p \in Name \ {o} : order'[p] = order[p] /\ view'[p] = view[p] /\ events'[p] = events[p]
           /\ order'[o].state # "none" /\ order'[o].size = size
           /\ order'[o].filled <= size
           /\ order'[o].state = "filled" => order'[o].filled = size
           /\ view'[o] \in Terminal => order'[o].state = view'[o]
           /\ events'[o] <= order'[o].filled
<1>1. Quantity \in Nat /\ size \in Nat
  BY SmokeTestAssumption
<1>2. view[o] \notin Terminal /\ events[o] = 0
  <2>1. order[o].filled = 0 /\ events[o] \in Nat
    BY SmokeTestAssumption DEF SmokeTypeOK, OrderInv
  <2> QED BY <2>1 DEF SmokeTypeOK, OrderInv, Terminal
<1>3. CASE Placed(o, size) /\ o \in Resting
  BY <1>1, <1>2, <1>3 DEF Placed, Appears, SmokeTypeOK, State, Terminal
<1>4. CASE Placed(o, size) /\ o \notin Resting
  BY <1>1, <1>2, <1>4 DEF Placed, Appears, SmokeTypeOK, State, Terminal
<1>5. CASE ~ Placed(o, size)
  <2>1. PICK state \in {"lost", "inflight"} :
           order' = [order EXCEPT ![o] = [state |-> state, size |-> size, filled |-> 0]]
    BY <1>5 DEF Sends
  <2>2. view' = view /\ events' = events
    BY <1>5 DEF Sends
  <2> QED BY <1>1, <1>2, <2>1, <2>2 DEF SmokeTypeOK, State, Terminal
<1> QED BY <1>3, <1>4, <1>5

\* The account moves an order that is open, or shows what it is.
Moves(o) ==
    \/ \E quantity \in 1 .. Quantity : Fill(o, quantity)
    \/ EndOrder(o) \/ Arrive(o) \/ Sync(o) \/ (o = "buy" /\ CancelBuy)

\* An order that moves keeps its size, only fills, and is never open again.
LEMMA MovedOrder ==
    ASSUME SmokeTypeOK, OrderInv, NEW o \in Name, Moves(o)
    PROVE  /\ order' \in [Name -> [state : State, size : 0 .. Quantity, filled : 0 .. Quantity]]
           /\ view' \in [Name -> State] /\ events' \in [Name -> 0 .. Quantity]
           /\ \A p \in Name \ {o} : order'[p] = order[p] /\ view'[p] = view[p] /\ events'[p] = events[p]
           /\ order'[o].size = order[o].size
           /\ order[o].filled <= order'[o].filled /\ order'[o].filled <= order[o].size
           /\ order[o].state = "none" <=> order'[o].state = "none"
           /\ order[o].state \in Terminal => order'[o] = order[o]
           /\ order'[o].state = "filled" => order'[o].filled = order'[o].size
           /\ view'[o] \in Terminal => order'[o].state = view'[o]
           /\ events[o] <= events'[o]
           /\ events'[o] - events[o] = order'[o].filled - order[o].filled
<1>1. /\ Quantity \in Nat /\ order[o].size \in 0 .. Quantity /\ order[o].filled \in 0 .. Quantity
      /\ events[o] \in 0 .. Quantity /\ order[o].state \in State
      /\ order[o].filled <= order[o].size /\ events[o] <= order[o].filled
      /\ order[o].state = "filled" => order[o].filled = order[o].size
      /\ view[o] \in Terminal => order[o].state = view[o]
  BY SmokeTestAssumption DEF SmokeTypeOK, OrderInv
<1>2. ASSUME NEW quantity \in 1 .. Quantity, Fill(o, quantity)
      PROVE  /\ order'[o].size = order[o].size /\ order'[o].filled = order[o].filled + quantity
             /\ order'[o].filled <= order[o].size
             /\ order[o].state = "accepted" /\ order'[o].state \in {"accepted", "filled"}
             /\ order'[o].state = "filled" => order'[o].filled = order[o].size
             /\ events'[o] = events[o] + quantity /\ view' = view
             /\ \A p \in Name \ {o} : order'[p] = order[p] /\ events'[p] = events[p]
             /\ order' \in [Name -> [state : State, size : 0 .. Quantity, filled : 0 .. Quantity]]
             /\ events' \in [Name -> 0 .. Quantity]
  <2> DEFINE filled == order[o].filled + quantity
             r == [state |-> IF filled = order[o].size THEN "filled" ELSE "accepted",
                   size |-> order[o].size, filled |-> filled]
  <2>1. /\ order' = [order EXCEPT ![o] = r] /\ events' = [events EXCEPT ![o] = @ + quantity]
        /\ view' = view /\ order[o].state = "accepted"
        /\ quantity \in 1 .. order[o].size - order[o].filled
    BY <1>2 DEF Fill
  <2>2. filled \in 0 .. Quantity /\ filled <= order[o].size /\ events[o] + quantity \in 0 .. Quantity
    BY <1>1, <2>1
  <2>3. r \in [state : State, size : 0 .. Quantity, filled : 0 .. Quantity]
    BY <1>1, <2>2 DEF State
  <2> QED BY <1>1, <2>1, <2>2, <2>3 DEF SmokeTypeOK
<1>3. CASE EndOrder(o)
  BY <1>1, <1>3 DEF EndOrder, SmokeTypeOK, State, Terminal
<1>4. CASE Arrive(o)
  BY <1>1, <1>4 DEF Arrive, Appears, SmokeTypeOK, State, Terminal
<1>5. CASE Sync(o)
  BY <1>1, <1>5 DEF Sync, SmokeTypeOK, State, Terminal
<1>6. CASE o = "buy" /\ CancelBuy
  BY <1>1, <1>6 DEF CancelBuy, SmokeTypeOK, State, Terminal, Name
<1>7. CASE \E quantity \in 1 .. Quantity : Fill(o, quantity)
  <2>1. PICK quantity \in 1 .. Quantity : Fill(o, quantity)
    BY <1>7
  <2> QED BY <1>1, <1>2, <2>1 DEF Terminal, SmokeTypeOK
<1> QED BY <1>3, <1>4, <1>5, <1>6, <1>7 DEF Moves
-----------------------------------------------------------------------------
(* The steps, sorted by what they touch.                                    *)

\* Steps of the test that only look.
Looks ==
    \/ Check(Position = 0, "flat", "noOrders")
    \/ Check(OpenOrders = {}, "noOrders", "subscribe")
    \/ Check(TRUE, "subscribe", "buy")
    \/ Lookup("buy", "buyLookup", "buyWait")
    \/ FillSeen("buy", "buyWait", "bought")
    \/ Check(Position = Quantity, "bought", "sell")
    \/ Lookup("sell", "sellLookup", "sellWait")
    \/ FillSeen("sell", "sellWait", "finalPosition")
    \/ Check(Position = 0, "finalPosition", "finalOrders")
    \/ Check(OpenOrders = {}, "finalOrders", "ok")
    \/ Fail
    \/ Lookup("buy", "resolve", "buyState")
    \/ BuyState \/ BuyStateUnread \/ CancelUnknown \/ Observe
    \/ NothingLeft \/ ReadRest
    \/ Lookup("cleanup", "restLookup", "restWait")
    \/ RestSold
    \/ Check(Position = 0, "verifyPosition", "verifyOrders")
    \/ Check(OpenOrders = {}, "verifyOrders", "clean")
    \/ CleanupFails

\* Order o of a size is sent at call `at', which is followed by `next' if there is
\* an answer and by `lookup' if there is none.
SendsAt(o, size, at, next, lookup) ==
    PlaceOrder(o, size, at, next) \/ PlaceUnknown(o, size, at, lookup)

\* The buy of the round trip is sent.
Buys  == SendsAt("buy", Quantity, "buy", "buyWait", "buyLookup")
\* The sell of the round trip is sent.
Sells == SendsAt("sell", Quantity, "sell", "sellWait", "sellLookup")
\* The sell of the cleanup is sent.
SellsRest == SendsAt("cleanup", rest, "sellRest", "restWait", "restLookup")
\* An event of the stream is received.
Receives == Receive("buy", "buyWait") \/ Receive("sell", "sellWait")

\* Every step is one of these, or moves one order at the broker and no more.
LEMMA StepSorts ==
    ASSUME SmokeNext
    PROVE  \/ Looks \/ Receives \/ Buys \/ Sells \/ SellsRest \/ CancelBuy
           \/ \E o \in Name : Moves(o) /\ call' = call
                              /\ UNCHANGED <<received, buyID, rest, cancels, unread>>
<1>1. CASE Account
  <2>1. PICK o \in Name : \/ \E quantity \in 1 .. Quantity : Fill(o, quantity)
                          \/ EndOrder(o) \/ Arrive(o) \/ Sync(o)
    BY <1>1 DEF Account
  <2>2. Moves(o)
    BY <2>1 DEF Moves
  <2>3. call' = call /\ UNCHANGED <<received, buyID, rest, cancels, unread>>
    BY <2>1 DEF Fill, EndOrder, Arrive, Sync
  <2> QED BY <2>2, <2>3
<1>2. CASE RunSandboxSmokeTest
  BY <1>2 DEF RunSandboxSmokeTest, Looks, Receives, Buys, Sells, SendsAt
<1>3. CASE CleanupSmokePosition
  BY <1>3 DEF CleanupSmokePosition, Looks, SellsRest, SendsAt
<1> QED BY <1>1, <1>2, <1>3 DEF SmokeNext, Step

\* Looking changes no order and receives nothing.
LEMMA LooksOnly ==
    ASSUME Looks
    PROVE  UNCHANGED <<order, view, events, received>>
BY DEF Looks, Check, Lookup, FillSeen, Fail, BuyState, BuyStateUnread, CancelUnknown, Observe,
       NothingLeft, ReadRest, RestSold, CleanupFails, account

\* Where sending leads.
LEMMA SendingGoesOn ==
    ASSUME NEW o, NEW size, NEW at, NEW next, NEW lookup, SendsAt(o, size, at, next, lookup)
    PROVE  /\ Sends(o, size) /\ call = at /\ call' \in {next, lookup}
           /\ received' = 0 /\ buyID' \in {buyID, buyID \/ o = "buy"}
           /\ UNCHANGED <<rest, cancels, unread>>
BY DEF SendsAt, PlaceOrder, PlaceUnknown, Proceed, Sends

\* Each order is sent from one call, before which it is not there.
LEMMA SentOnce ==
    ASSUME SmokeInv
    PROVE  /\ Buys => /\ order["buy"].state = "none" /\ order["sell"].state = "none"
                      /\ order["cleanup"].state = "none"
           /\ Sells => /\ order["sell"].state = "none" /\ order["buy"].state = "filled"
                       /\ order["cleanup"].state = "none"
           /\ SellsRest => /\ order["cleanup"].state = "none" /\ rest \in 0 .. Quantity
                           /\ order["sell"].state = "none" => rest <= order["buy"].filled
<1>1. Buys => call = "buy"
  BY SendingGoesOn DEF Buys
<1>2. Sells => call = "sell"
  BY SendingGoesOn DEF Sells
<1>3. SellsRest => call = "sellRest"
  BY SendingGoesOn DEF SellsRest
<1>4. call = "buy" => /\ order["buy"].state = "none" /\ order["sell"].state = "none"
                      /\ order["cleanup"].state = "none"
  BY DEF SmokeInv, SentInv, BeforeTheRest, Main
<1>5. call = "sell" => /\ order["sell"].state = "none" /\ order["buy"].state = "filled"
                       /\ order["cleanup"].state = "none"
  BY DEF SmokeInv, SentInv, SeenInv, BeforeTheRest, Main
<1>6. call = "sellRest" => /\ order["cleanup"].state = "none" /\ rest \in 0 .. Quantity
                           /\ order["sell"].state = "none" => rest <= order["buy"].filled
  BY DEF SmokeInv, SmokeTypeOK, SentInv, SeenInv, BeforeTheRest
<1> QED BY <1>1, <1>2, <1>3, <1>4, <1>5, <1>6
-----------------------------------------------------------------------------
(* The invariant, step by step.                                             *)

\* What OrderInv says of one order, after a step.
Sound(o) ==
    /\ order'[o] \in [state : State, size : 0 .. Quantity, filled : 0 .. Quantity]
    /\ view'[o] \in State /\ events'[o] \in 0 .. Quantity
    /\ order'[o].filled <= order'[o].size
    /\ order'[o].state = "none" => order'[o].size = 0
    /\ order'[o].state = "filled" => order'[o].filled = order'[o].size
    /\ view'[o] \in Terminal => order'[o].state = view'[o]
    /\ events'[o] <= order'[o].filled

\* What is sound stays sound for an order that a step leaves alone.
LEMMA SoundBefore ==
    ASSUME SmokeTypeOK, OrderInv, NEW p \in Name, order'[p] = order[p], view'[p] = view[p],
           events'[p] = events[p]
    PROVE  Sound(p)
BY DEF Sound, SmokeTypeOK, OrderInv

\* No step breaks what holds of the orders.
LEMMA OrderStep ==
    ASSUME SmokeInv, [SmokeNext]_smokeVars
    PROVE  OrderInv'
<1> USE DEF Name
<1>1. SmokeTypeOK /\ OrderInv /\ Quantity \in Nat
  BY SmokeTestAssumption DEF SmokeInv
<1>2. /\ \A o \in {"buy", "sell"} : order[o].state # "none" => order[o].size = Quantity
      /\ order["sell"].state # "none" => order["buy"].state = "filled"
      /\ order["sell"].state = "none" => order["cleanup"].size <= order["buy"].filled
  BY <1>1 DEF OrderInv
<1>3. \A o \in Name : /\ order[o].size \in 0 .. Quantity /\ order[o].filled \in 0 .. Quantity
                      /\ order[o].state \in State /\ order[o].filled <= order[o].size
                      /\ order[o].state = "none" => order[o].size = 0
  BY <1>1 DEF OrderInv, SmokeTypeOK
<1> DEFINE Together ==
             /\ \A o \in {"buy", "sell"} : order'[o].state # "none" => order'[o].size = Quantity
             /\ order'["sell"].state # "none" => order'["buy"].state = "filled"
             /\ order'["sell"].state = "none" => order'["cleanup"].size <= order'["buy"].filled
<1>4. CASE UNCHANGED <<order, view, events>>
  BY <1>1, <1>4 DEF OrderInv
<1>5. CASE Receives
  <2>1. PICK p \in Name : order' = order /\ view' = view /\ events' = [events EXCEPT ![p] = 0]
    BY <1>5 DEF Receives, Receive
  <2>2. \A o \in Name : events'[o] <= order'[o].filled
    BY <1>1, <1>3, <2>1 DEF SmokeTypeOK, OrderInv
  <2> QED BY <1>1, <2>1, <2>2 DEF OrderInv
<1>6. ASSUME NEW o \in Name, Moves(o) PROVE OrderInv'
  <2>1. \A p \in Name : Sound(p)
    <3> TAKE p \in Name
    <3>1. CASE p = o
      BY <1>1, <1>3, <1>6, <3>1, MovedOrder DEF Sound, OrderInv, SmokeTypeOK
    <3>2. CASE p # o
      BY <1>1, <1>6, <3>2, MovedOrder, SoundBefore
    <3> QED BY <3>1, <3>2
  <2>2. \A p \in Name : /\ order[p].state = "none" <=> order'[p].state = "none"
                        /\ order'[p].size = order[p].size
                        /\ order[p].filled <= order'[p].filled /\ order'[p].filled \in 0 .. Quantity
                        /\ order[p].state = "filled" => order'[p].state = "filled"
    <3> TAKE p \in Name
    <3>1. CASE p = o
      BY <1>1, <1>3, <1>6, <3>1, MovedOrder DEF Terminal
    <3>2. CASE p # o
      BY <1>1, <1>3, <1>6, <3>2, MovedOrder
    <3> QED BY <3>1, <3>2
  <2>3. Together
    BY <1>1, <1>2, <1>3, <2>2
  <2> QED BY <2>1, <2>3 DEF OrderInv, Sound
<1>7. ASSUME NEW o \in Name, NEW size \in 0 .. Quantity, Sends(o, size), order[o].state = "none",
             o \in {"buy", "sell"} => size = Quantity,
             o = "buy" => order["sell"].state = "none" /\ order["cleanup"].state = "none",
             o = "sell" => order["buy"].state = "filled",
             o = "cleanup" /\ order["sell"].state = "none" => size <= order["buy"].filled
      PROVE  OrderInv'
  <2>1. \A p \in Name : Sound(p)
    <3> TAKE p \in Name
    <3>1. CASE p = o
      BY <1>1, <1>3, <1>7, <3>1, SentOrder DEF Sound
    <3>2. CASE p # o
      BY <1>1, <1>7, <3>2, SentOrder, SoundBefore
    <3> QED BY <3>1, <3>2
  <2>2. /\ order'[o].state # "none" /\ order'[o].size = size
        /\ \A p \in Name \ {o} : order'[p] = order[p]
        /\ order'[o].filled \in 0 .. Quantity
    BY <1>1, <1>7, <2>1, SentOrder DEF Sound
  <2>3. Together
    <3>1. CASE o = "buy"
      BY <1>2, <1>3, <1>7, <2>2, <3>1
    <3>2. CASE o = "sell"
      BY <1>2, <1>3, <1>7, <2>2, <3>2
    <3>3. CASE o = "cleanup"
      BY <1>2, <1>3, <1>7, <2>2, <3>3
    <3> QED BY <3>1, <3>2, <3>3
  <2> QED BY <2>1, <2>3 DEF OrderInv, Sound
<1>8. CASE Buys
  BY <1>1, <1>7, <1>8, SentOnce, SendingGoesOn DEF Buys
<1>9. CASE Sells
  BY <1>1, <1>7, <1>9, SentOnce, SendingGoesOn DEF Sells
<1>10. CASE SellsRest
  BY <1>1, <1>7, <1>10, SentOnce, SendingGoesOn DEF SellsRest
<1>11. CASE Looks
  BY <1>4, <1>11, LooksOnly
<1>12. CASE CancelBuy
  BY <1>6, <1>12 DEF Moves
<1>13. CASE UNCHANGED smokeVars
  BY <1>4, <1>13 DEF smokeVars
<1> QED BY <1>5, <1>6, <1>8, <1>9, <1>10, <1>11, <1>12, <1>13, StepSorts

\* No step breaks the types.
LEMMA SmokeTypeStep ==
    ASSUME SmokeInv, [SmokeNext]_smokeVars
    PROVE  SmokeTypeOK'
<1>1. SmokeTypeOK /\ OrderInv /\ SeenInv /\ Quantity \in Nat
  BY SmokeTestAssumption DEF SmokeInv
<1> DEFINE Orders == /\ order' \in [Name -> [state : State, size : 0 .. Quantity, filled : 0 .. Quantity]]
                     /\ view' \in [Name -> State] /\ events' \in [Name -> 0 .. Quantity]
           Others == /\ call' \in Main \cup Cleanup \cup Ended
                     /\ received' \in 0 .. Quantity
                     /\ buyID' \in BOOLEAN /\ rest' \in 0 .. Quantity /\ cancels' \in Nat
                     /\ unread' \in BOOLEAN
<1>2. CASE UNCHANGED smokeVars
  BY <1>1, <1>2 DEF smokeVars, SmokeTypeOK
<1>3. CASE Looks
  <2>1. Orders /\ received' = received
    BY <1>1, <1>3, LooksOnly DEF SmokeTypeOK
  <2>2. call' \in Main \cup Cleanup \cup Ended
    BY <1>3 DEF Looks, Check, Lookup, FillSeen, Fail, BuyState, BuyStateUnread, CancelUnknown,
                Observe, NothingLeft, ReadRest, RestSold, CleanupFails, Proceed, Main, Cleanup, Ended
  <2>3. buyID' \in BOOLEAN /\ unread' \in BOOLEAN
    BY <1>1, <1>3 DEF Looks, Check, Lookup, FillSeen, Fail, BuyState, BuyStateUnread, CancelUnknown,
                Observe, NothingLeft, ReadRest, RestSold, CleanupFails, SmokeTypeOK
  <2>4. rest' \in 0 .. Quantity /\ cancels' \in Nat
    BY <1>1, <1>3 DEF Looks, Check, Lookup, FillSeen, Fail, BuyState, BuyStateUnread, CancelUnknown,
                Observe, NothingLeft, ReadRest, RestSold, CleanupFails, SmokeTypeOK
  <2> QED BY <1>1, <2>1, <2>2, <2>3, <2>4 DEF SmokeTypeOK
<1>4. CASE Receives
  <2>1. PICK o \in {"buy", "sell"} :
           /\ received' = received + events[o] /\ events' = [events EXCEPT ![o] = 0]
           /\ received + events[o] <= order[o].filled
           /\ UNCHANGED <<call, order, view, buyID, rest, cancels, unread>>
    BY <1>1, <1>4 DEF Receives, Receive, SeenInv
  <2>2. received' \in 0 .. Quantity /\ events' \in [Name -> 0 .. Quantity]
    BY <1>1, <2>1 DEF SmokeTypeOK, Name
  <2> QED BY <1>1, <2>1, <2>2 DEF SmokeTypeOK
<1>5. ASSUME NEW o \in Name, Moves(o), call' = call,
             UNCHANGED <<received, buyID, rest, cancels, unread>>
      PROVE  SmokeTypeOK'
  <2>1. Orders
    BY <1>1, <1>5, MovedOrder
  <2> QED BY <1>1, <1>5, <2>1 DEF SmokeTypeOK
<1>6. CASE CancelBuy
  <2>1. Orders
    <3>1. Moves("buy") /\ "buy" \in Name
      BY <1>6 DEF Moves, Name
    <3> QED BY <1>1, <3>1, MovedOrder
  <2>2. Others
    BY <1>1, <1>6 DEF CancelBuy, Proceed, SmokeTypeOK, Cleanup
  <2> QED BY <2>1, <2>2 DEF SmokeTypeOK
<1>7. ASSUME NEW o \in Name, NEW size \in 0 .. Quantity, NEW at,
             NEW next \in Main \cup Cleanup, NEW lookup \in Main \cup Cleanup,
             order[o].state = "none", SendsAt(o, size, at, next, lookup)
      PROVE  SmokeTypeOK'
  <2>1. Orders
    BY <1>1, <1>7, SendingGoesOn, SentOrder
  <2>2. /\ call' \in {next, lookup} /\ received' = 0 /\ buyID' \in {buyID, buyID \/ o = "buy"}
        /\ UNCHANGED <<rest, cancels, unread>>
    BY <1>7, SendingGoesOn
  <2>3. buyID' \in BOOLEAN
    BY <1>1, <2>2 DEF SmokeTypeOK
  <2> QED BY <1>1, <2>1, <2>2, <2>3 DEF SmokeTypeOK
<1>8. CASE Buys
  BY <1>1, <1>7, <1>8, SentOnce DEF Buys, Name, Main
<1>9. CASE Sells
  BY <1>1, <1>7, <1>9, SentOnce DEF Sells, Name, Main
<1>10. CASE SellsRest
  BY <1>1, <1>7, <1>10, SentOnce DEF SellsRest, Name, Cleanup
<1> QED BY <1>2, <1>3, <1>4, <1>5, <1>6, <1>8, <1>9, <1>10, StepSorts

\* Which orders are there stays as it was, but for the one that is sent.
LEMMA SentStays ==
    ASSUME SmokeTypeOK, OrderInv,
           Looks \/ Receives \/ CancelBuy \/ (\E o \in Name : Moves(o)) \/ UNCHANGED smokeVars
    PROVE  /\ \A p \in Name : /\ order'[p].state = "none" <=> order[p].state = "none"
                              /\ order[p].state \in Terminal => order'[p] = order[p]
                              /\ order'[p].size = order[p].size
                              /\ order[p].filled <= order'[p].filled
<1> SUFFICES ASSUME NEW p \in Name
             PROVE  /\ order'[p].state = "none" <=> order[p].state = "none"
                    /\ order[p].state \in Terminal => order'[p] = order[p]
                    /\ order'[p].size = order[p].size
                    /\ order[p].filled <= order'[p].filled
  OBVIOUS
<1>1. order[p].filled \in Nat
  BY SmokeTestAssumption DEF SmokeTypeOK
<1>2. CASE order' = order
  BY <1>1, <1>2
<1>3. ASSUME NEW o \in Name, Moves(o)
      PROVE  /\ order'[p].state = "none" <=> order[p].state = "none"
             /\ order[p].state \in Terminal => order'[p] = order[p]
             /\ order'[p].size = order[p].size
             /\ order[p].filled <= order'[p].filled
  <2>1. CASE p = o
    BY <1>3, <2>1, MovedOrder
  <2>2. CASE p # o
    BY <1>1, <1>3, <2>2, MovedOrder
  <2> QED BY <2>1, <2>2
<1>4. Looks => order' = order
  BY LooksOnly
<1>5. Receives => order' = order
  BY DEF Receives, Receive
<1>6. CancelBuy => Moves("buy") /\ "buy" \in Name
  BY DEF Moves, Name
<1> QED BY <1>2, <1>3, <1>4, <1>5, <1>6 DEF smokeVars

\* No step breaks what holds of the orders that have been sent.
LEMMA SentStep ==
    ASSUME SmokeInv, [SmokeNext]_smokeVars
    PROVE  SentInv'
<1> USE DEF Name
<1>1. SmokeTypeOK /\ OrderInv /\ SentInv
  BY DEF SmokeInv
<1>2. ASSUME Looks \/ Receives \/ CancelBuy \/ (\E o \in Name : Moves(o)) \/ UNCHANGED smokeVars,
             NEW p \in Name
      PROVE  order'[p].state = "none" <=> order[p].state = "none"
  BY <1>1, <1>2, SentStays
<1>3. ASSUME call' = call, cancels' = cancels,
             \A p \in Name : order'[p].state = "none" <=> order[p].state = "none"
      PROVE  SentInv'
  BY <1>1, <1>3 DEF SentInv
<1>4. CASE Looks
  <2>1. order' = order
    BY <1>4, LooksOnly
  <2>2. /\ call' \in {"flat", "noOrders", "subscribe", "buy", "failed"} =>
              call \in {"flat", "noOrders", "subscribe", "buy"}
        /\ call' \in {"flat", "noOrders", "subscribe", "buy", "buyLookup", "buyWait", "bought", "sell"} =>
              call \in {"flat", "noOrders", "subscribe", "buy", "buyLookup", "buyWait", "bought", "sell"}
        /\ call' \in BeforeTheRest => call \in BeforeTheRest
        /\ call' \in Main \cup {"failed", "ok", "resolve", "buyState", "cancel"} =>
              call \in Main \cup {"failed", "ok", "resolve", "buyState", "cancel"}
    BY <1>4 DEF Looks, Check, Lookup, FillSeen, Fail, BuyState, BuyStateUnread, CancelUnknown,
                Observe, NothingLeft, ReadRest, RestSold, CleanupFails, Proceed, Main, Cleanup,
                BeforeTheRest
  <2>3. \/ cancels' = cancels
        \/ call = "cancel" /\ call' = "observe" /\ cancels' = cancels + 1
    BY <1>4 DEF Looks, Check, Lookup, FillSeen, Fail, BuyState, BuyStateUnread, CancelUnknown,
                Observe, NothingLeft, ReadRest, RestSold, CleanupFails, Proceed
  <2>4. cancels' <= 1 /\ (call' \in Main \cup {"failed", "ok", "resolve", "buyState", "cancel"}
                            => cancels' = 0)
    BY <1>1, <2>2, <2>3 DEF SentInv, Main
  <2> QED BY <1>1, <2>1, <2>2, <2>4 DEF SentInv
<1>5. CASE Receives
  <2>1. call' = call /\ cancels' = cancels
    BY <1>5 DEF Receives, Receive
  <2> QED BY <1>2, <1>3, <1>5, <2>1
<1>6. ASSUME NEW o \in Name, Moves(o), call' = call, cancels' = cancels PROVE SentInv'
  BY <1>2, <1>3, <1>6
<1>7. CASE CancelBuy
  <2>1. call = "cancel" /\ call' = "observe" /\ cancels' = cancels + 1
    BY <1>7 DEF CancelBuy, Proceed
  <2>2. cancels' = 1
    BY <1>1, <2>1 DEF SentInv
  <2> QED BY <1>1, <1>2, <1>7, <2>1, <2>2 DEF SentInv, Main, BeforeTheRest
<1>8. CASE UNCHANGED smokeVars
  BY <1>1, <1>8 DEF SentInv, smokeVars
<1>9. CASE Buys
  <2>1. /\ call = "buy" /\ call' \in {"buyWait", "buyLookup"} /\ cancels' = cancels
        /\ Sends("buy", Quantity)
    BY <1>9, SendingGoesOn DEF Buys
  <2>2. /\ order["buy"].state = "none" /\ order["sell"].state = "none"
        /\ order["cleanup"].state = "none"
    BY <1>9, SentOnce
  <2>3. \A p \in Name \ {"buy"} : order'[p] = order[p]
    BY <1>1, <2>1, <2>2, SentOrder, SmokeTestAssumption
  <2> QED BY <1>1, <2>1, <2>2, <2>3 DEF SentInv, Main
<1>10. CASE Sells
  <2>1. /\ call = "sell" /\ call' \in {"sellWait", "sellLookup"} /\ cancels' = cancels
        /\ Sends("sell", Quantity)
    BY <1>10, SendingGoesOn DEF Sells
  <2>2. order["sell"].state = "none" /\ order["cleanup"].state = "none"
    BY <1>10, SentOnce
  <2>3. \A p \in Name \ {"sell"} : order'[p] = order[p]
    BY <1>1, <2>1, <2>2, SentOrder, SmokeTestAssumption
  <2> QED BY <1>1, <2>1, <2>2, <2>3 DEF SentInv, Main
<1>11. CASE SellsRest
  <2>1. call' \in {"restWait", "restLookup"} /\ cancels' = cancels
    BY <1>11, SendingGoesOn DEF SellsRest
  <2> QED BY <1>1, <2>1 DEF SentInv, Main, BeforeTheRest
<1> QED BY <1>4, <1>5, <1>6, <1>7, <1>8, <1>9, <1>10, <1>11, StepSorts

\* While nothing that can still be filled is there, the position stays.
LEMMA PositionStays ==
    ASSUME SmokeInv, OrderInv', SmokeTypeOK',
           \A p \in Name : /\ order'[p].state = "none" <=> order[p].state = "none"
                           /\ order[p].state \in Terminal => order'[p] = order[p],
           \A p \in Name : order[p].state \in Terminal \cup {"none"}
    PROVE  Position' = Position
<1>1. \A p \in Name : /\ order[p].filled \in Nat /\ order[p].size \in Nat
                      /\ order[p].filled <= order[p].size
                      /\ order[p].state = "none" => order[p].size = 0
  BY SmokeTestAssumption DEF SmokeInv, OrderInv, SmokeTypeOK
<1>2. \A p \in Name : /\ order'[p].filled \in Nat /\ order'[p].size \in Nat
                      /\ order'[p].filled <= order'[p].size
                      /\ order'[p].state = "none" => order'[p].size = 0
  BY SmokeTestAssumption DEF OrderInv, SmokeTypeOK
<1>3. \A p \in Name : order'[p].filled = order[p].filled
  <2> TAKE p \in Name
  <2>1. CASE order[p].state = "none"
    <3>1. order[p].filled = 0 /\ order'[p].filled = 0
      BY <1>1, <1>2, <2>1
    <3> QED BY <3>1
  <2>2. CASE order[p].state \in Terminal
    BY <2>2
  <2> QED BY <2>1, <2>2
<1> QED BY <1>3 DEF Position, Name

\* What has been seen stays true while orders move.
LEMMA SeenWhileMoving ==
    ASSUME SmokeInv, OrderInv', SmokeTypeOK', call' = call, unread' = unread, rest' = rest,
           \A p \in Name : /\ order'[p].state = "none" <=> order[p].state = "none"
                           /\ order[p].state \in Terminal => order'[p] = order[p]
                           /\ order'[p].size = order[p].size
                           /\ order[p].filled <= order'[p].filled,
           \A p \in {"buy", "sell"} :
              received + events[p] <= order[p].filled => received' + events'[p] <= order'[p].filled
    PROVE  SeenInv'
<1>1. SeenInv /\ SmokeTypeOK /\ OrderInv
  BY DEF SmokeInv
<1>2. /\ call \in {"bought", "sell"} => order'["buy"].state = "filled"
      /\ call \in {"finalPosition", "finalOrders", "ok"} => order'["sell"].state = "filled"
      /\ call \in {"position", "sellRest", "restLookup", "restWait", "verifyPosition",
                   "verifyOrders", "clean"} /\ ~unread => order'["buy"].state \in Terminal
      /\ call \in {"verifyPosition", "verifyOrders", "clean"} =>
            order'["cleanup"].state \in {"none", "filled"}
  BY <1>1 DEF SeenInv, Terminal, Name
<1>3. call = "sellRest" /\ order'["sell"].state = "none" => rest' <= order'["buy"].filled
  <2>1. /\ rest \in Nat /\ order["buy"].filled \in Nat /\ order'["buy"].filled \in Nat
        /\ order["buy"].filled <= order'["buy"].filled
    BY SmokeTestAssumption DEF SmokeInv, SmokeTypeOK, Name
  <2> QED BY <1>1, <2>1 DEF SeenInv, Name
<1>4. call \in {"verifyOrders", "clean"} /\ ~unread /\ order'["sell"].state = "none" =>
         Position' = 0
  <2> SUFFICES ASSUME call \in {"verifyOrders", "clean"}, ~unread, order'["sell"].state = "none"
               PROVE  Position' = 0
    OBVIOUS
  <2>1. order["sell"].state = "none"
    BY DEF Name
  <2>2. Position = 0 /\ order["buy"].state \in Terminal /\ order["cleanup"].state \in {"none", "filled"}
    BY <1>1, <2>1 DEF SeenInv
  <2>3. \A p \in Name : order[p].state \in Terminal \cup {"none"}
    BY <2>1, <2>2 DEF Name, Terminal
  <2>4. Position' = Position
    BY <2>3, PositionStays
  <2> QED BY <2>2, <2>4
<1>5. /\ call \in {"buyLookup", "buyWait"} => received' + events'["buy"] <= order'["buy"].filled
      /\ call \in {"sellLookup", "sellWait"} => received' + events'["sell"] <= order'["sell"].filled
  BY <1>1 DEF SeenInv
<1> QED BY <1>2, <1>3, <1>4, <1>5 DEF SeenInv

\* No step breaks what holds of what the test has seen.
LEMMA SeenStep ==
    ASSUME SmokeInv, SmokeTypeOK', OrderInv', [SmokeNext]_smokeVars
    PROVE  SeenInv'
<1>1. SmokeTypeOK /\ OrderInv /\ SentInv /\ SeenInv
  BY DEF SmokeInv
<1>2. \A p \in Name : /\ order[p].filled \in Nat /\ order[p].size \in Nat
                      /\ events[p] \in Nat /\ received \in Nat /\ rest \in Nat
  BY <1>1, SmokeTestAssumption DEF SmokeTypeOK
<1>3. CASE Looks
  <2>1. order' = order /\ view' = view /\ events' = events /\ received' = received
    BY <1>3, LooksOnly
  <2>2. /\ call' = "bought" => call = "buyWait" /\ view["buy"] = "filled"
        /\ call' = "sell" => call = "bought"
        /\ call' = "finalPosition" => call = "sellWait" /\ view["sell"] = "filled"
        /\ call' \in {"finalOrders", "ok"} => call \in {"finalPosition", "finalOrders"}
        /\ call' = "buyWait" => call = "buyLookup"
        /\ call' = "sellWait" => call = "sellLookup"
        /\ call' \notin {"buyLookup", "sellLookup", "restLookup"}
    BY <1>3 DEF Looks, Check, Lookup, FillSeen, Fail, BuyState, BuyStateUnread, CancelUnknown,
                Observe, NothingLeft, ReadRest, RestSold, CleanupFails, Proceed, Main, Cleanup
  <2>3. /\ call' = "position" /\ ~unread' => view["buy"] \in Terminal
        /\ call' = "sellRest" => call = "position" /\ unread' = unread /\ rest' = Position
        /\ call' = "restWait" => call = "restLookup" /\ unread' = unread
        /\ call' = "verifyPosition" =>
              /\ call = "position" \/ view["cleanup"] = "filled"
              /\ call \in {"position", "restWait"} /\ unread' = unread
        /\ call' = "verifyOrders" => call = "verifyPosition" /\ Position = 0 /\ unread' = unread
        /\ call' = "clean" => call = "verifyOrders" /\ unread' = unread
    BY <1>3 DEF Looks, Check, Lookup, FillSeen, Fail, BuyState, BuyStateUnread, CancelUnknown,
                Observe, NothingLeft, ReadRest, RestSold, CleanupFails, Proceed, Main, Cleanup
  <2>4. \A p \in Name : view[p] \in Terminal => order[p].state = view[p]
    BY <1>1 DEF OrderInv
  <2>5. /\ call' \in {"bought", "sell"} => order["buy"].state = "filled"
        /\ call' \in {"finalPosition", "finalOrders", "ok"} => order["sell"].state = "filled"
    BY <1>1, <2>2, <2>4 DEF SeenInv, Terminal, Name
  <2>6. /\ call' \in {"position", "sellRest", "restLookup", "restWait", "verifyPosition",
                      "verifyOrders", "clean"} /\ ~unread' => order["buy"].state \in Terminal
        /\ call' \in {"verifyPosition", "verifyOrders", "clean"} =>
              order["cleanup"].state \in {"none", "filled"}
    BY <1>1, <2>2, <2>3, <2>4 DEF SeenInv, SentInv, BeforeTheRest, Terminal, Name
  <2>7. call' = "sellRest" /\ order["sell"].state = "none" => rest' <= order["buy"].filled
    BY <1>2, <2>3 DEF Position, Name
  <2>8. call' \in {"verifyOrders", "clean"} /\ ~unread' /\ order["sell"].state = "none" => Position = 0
    BY <1>1, <2>3 DEF SeenInv
  <2>9. /\ call' \in {"buyLookup", "buyWait"} => received + events["buy"] <= order["buy"].filled
        /\ call' \in {"sellLookup", "sellWait"} => received + events["sell"] <= order["sell"].filled
    BY <1>1, <2>2 DEF SeenInv
  <2>10. Position' = Position
    BY <2>1 DEF Position
  <2> QED BY <2>1, <2>5, <2>6, <2>7, <2>8, <2>9, <2>10 DEF SeenInv
<1>4. CASE Receives
  <2>1. PICK o \in {"buy", "sell"} :
           /\ call = IF o = "buy" THEN "buyWait" ELSE "sellWait"
           /\ received' = received + events[o] /\ events' = [events EXCEPT ![o] = 0]
           /\ UNCHANGED <<call, order, view, buyID, rest, cancels, unread>>
    BY <1>4 DEF Receives, Receive
  <2>2. received' + events'[o] = received + events[o]
    BY <1>1, <1>2, <2>1 DEF SmokeTypeOK, Name
  <2>3. Position' = Position
    BY <2>1 DEF Position
  <2> QED BY <1>1, <2>1, <2>2, <2>3 DEF SeenInv
<1>5. ASSUME NEW o \in Name, Moves(o), call' = call,
             UNCHANGED <<received, buyID, rest, cancels, unread>>
      PROVE  SeenInv'
  <2>1. \A p \in Name : /\ order'[p].state = "none" <=> order[p].state = "none"
                        /\ order[p].state \in Terminal => order'[p] = order[p]
                        /\ order'[p].size = order[p].size
                        /\ order[p].filled <= order'[p].filled
    BY <1>1, <1>5, SentStays
  <2>2. \A p \in {"buy", "sell"} :
           received + events[p] <= order[p].filled => received' + events'[p] <= order'[p].filled
    <3> TAKE p \in {"buy", "sell"}
    <3>1. p \in Name /\ received' = received
      BY <1>5 DEF Name
    <3>2. CASE p = o
      <4>1. events'[p] - events[p] = order'[p].filled - order[p].filled
        BY <1>1, <1>5, <3>2, MovedOrder
      <4>2. events'[p] \in Nat /\ order'[p].filled \in Nat
        BY <3>1, SmokeTestAssumption DEF SmokeTypeOK
      <4> QED BY <1>2, <3>1, <4>1, <4>2
    <3>3. CASE p # o
      BY <1>1, <1>5, <3>1, <3>3, MovedOrder
    <3> QED BY <3>2, <3>3
  <2> QED BY <1>5, <2>1, <2>2, SeenWhileMoving
<1>6. CASE CancelBuy
  <2>1. call' = "observe"
    BY <1>6 DEF CancelBuy, Proceed
  <2> QED BY <2>1 DEF SeenInv
<1>7. CASE Buys
  <2>1. /\ call' \in {"buyWait", "buyLookup"} /\ received' = 0 /\ Sends("buy", Quantity)
        /\ order["buy"].state = "none"
    BY <1>7, SendingGoesOn, SentOnce DEF Buys
  <2>2. events'["buy"] <= order'["buy"].filled /\ events'["buy"] \in Nat
    BY <1>1, <2>1, SentOrder, SmokeTestAssumption DEF Name, SmokeTypeOK
  <2> QED BY <2>1, <2>2 DEF SeenInv
<1>8. CASE Sells
  <2>1. /\ call' \in {"sellWait", "sellLookup"} /\ received' = 0 /\ Sends("sell", Quantity)
        /\ order["sell"].state = "none"
    BY <1>8, SendingGoesOn, SentOnce DEF Sells
  <2>2. events'["sell"] <= order'["sell"].filled /\ events'["sell"] \in Nat
    BY <1>1, <2>1, SentOrder, SmokeTestAssumption DEF Name, SmokeTypeOK
  <2> QED BY <2>1, <2>2 DEF SeenInv
<1>9. CASE SellsRest
  <2>1. /\ call = "sellRest" /\ call' \in {"restWait", "restLookup"} /\ unread' = unread
        /\ Sends("cleanup", rest) /\ order["cleanup"].state = "none" /\ rest \in 0 .. Quantity
    BY <1>9, SendingGoesOn, SentOnce DEF SellsRest
  <2>2. order'["buy"] = order["buy"]
    BY <1>1, <2>1, SentOrder DEF Name
  <2> QED BY <1>1, <2>1, <2>2 DEF SeenInv
<1>10. CASE UNCHANGED smokeVars
  <2>1. Position' = Position
    BY <1>10 DEF Position, smokeVars
  <2> QED BY <1>1, <1>10, <2>1 DEF SeenInv, smokeVars
<1> QED BY <1>3, <1>4, <1>5, <1>6, <1>7, <1>8, <1>9, <1>10, StepSorts

\* The invariant of the smoke test holds always.
LEMMA SmokeInvariant == SmokeSpec => []SmokeInv
<1>1. SmokeInv /\ [SmokeNext]_smokeVars => SmokeInv'
  BY OrderStep, SmokeTypeStep, SentStep, SeenStep DEF SmokeInv
<1> QED BY <1>1, SmokeInitially, PTL DEF SmokeSpec
-----------------------------------------------------------------------------
\* CleanReportIsFlat, for any quantity, any orders that rest and reads as bad as
\* may be: what is reported clean is flat (account_smoke.go:131-140, 330-378).
THEOREM CleanMeansFlat == SmokeSpec => []CleanReportIsFlat
<1>1. SmokeInv => CleanReportIsFlat
  <2> SUFFICES ASSUME SmokeInv,
                      \/ call = "ok"
                      \/ call = "clean" /\ ~unread /\ order["sell"].state = "none"
               PROVE  Position = 0 /\ \A o \in Name : order[o].state \notin {"inflight", "accepted"}
    BY DEF CleanReportIsFlat, SmokeInv
  <2>1. SmokeTypeOK /\ OrderInv /\ SentInv /\ SeenInv
    BY DEF SmokeInv
  <2>2. CASE call = "ok"
    <3>1. order["sell"].state = "filled" /\ order["cleanup"].state = "none"
      BY <2>1, <2>2 DEF SeenInv, SentInv, BeforeTheRest
    <3>2. order["buy"].state = "filled"
      BY <2>1, <3>1 DEF OrderInv
    <3>3. /\ order["buy"].filled = Quantity /\ order["sell"].filled = Quantity
          /\ order["cleanup"].filled <= 0 /\ order["cleanup"].filled \in Nat
      BY <2>1, <3>1, <3>2, SmokeTestAssumption DEF OrderInv, SmokeTypeOK, Name
    <3> QED BY <3>1, <3>2, <3>3, SmokeTestAssumption DEF Position, Name
  <2>3. CASE call = "clean" /\ ~unread /\ order["sell"].state = "none"
    <3>1. /\ Position = 0 /\ order["buy"].state \in Terminal
          /\ order["cleanup"].state \in {"none", "filled"}
      BY <2>1, <2>3 DEF SeenInv
    <3> QED BY <2>3, <3>1 DEF Name, Terminal
  <2> QED BY <2>2, <2>3
<1> QED BY <1>1, SmokeInvariant, PTL

\* NothingIsDoneTwice: no more is sold than was bought, as long as one of the two
\* sells is not there, and the buy is cancelled once (account_smoke.go:351-384).
THEOREM NothingTwice == SmokeSpec => []NothingIsDoneTwice
<1>1. SmokeInv => NothingIsDoneTwice
  <2> SUFFICES ASSUME SmokeInv
               PROVE  /\ order["sell"].state = "none" \/ order["cleanup"].state = "none"
                           => Position >= 0
                      /\ cancels <= 1
    BY DEF NothingIsDoneTwice
  <2>1. \A p \in Name : /\ order[p].filled \in Nat /\ order[p].size \in Nat
                        /\ order[p].filled <= order[p].size
                        /\ order[p].state = "none" => order[p].size = 0
                        /\ order[p].state = "filled" => order[p].filled = order[p].size
    BY SmokeTestAssumption DEF SmokeInv, OrderInv, SmokeTypeOK
  <2>2. /\ \A o \in {"buy", "sell"} : order[o].state # "none" => order[o].size = Quantity
        /\ order["sell"].state # "none" => order["buy"].state = "filled"
        /\ order["sell"].state = "none" => order["cleanup"].size <= order["buy"].filled
    BY DEF SmokeInv, OrderInv
  <2>3. CASE order["sell"].state = "none"
    BY <2>1, <2>2, <2>3 DEF Position, Name, SmokeInv, SentInv
  <2>4. CASE order["sell"].state # "none"
    <3>1. order["cleanup"].state = "none" => Position >= 0
      BY <2>1, <2>2, <2>4, SmokeTestAssumption DEF Position, Name
    <3> QED BY <2>4, <3>1 DEF SmokeInv, SentInv
  <2> QED BY <2>3, <2>4
<1> QED BY <1>1, SmokeInvariant, PTL
==============================================================================
