------------------------------ MODULE AgentLock ------------------------------
(***************************************************************************)
(* One database, one running agent: sqlite.Open with its migrations, the   *)
(* advisory lock of Store.Acquire and Release, and the order in which      *)
(* runAgent opens, locks and closes, for several processes that start,     *)
(* stop and crash at any time.                                             *)
(*                                                                         *)
(* A lock belongs to an open lock file (an inode), whose name derives from *)
(* the name of the database; the kernel drops it when the process dies.    *)
(* What an agent does while it runs is the subject of the other modules.   *)
(***************************************************************************)
EXTENDS Naturals, FiniteSets, Sequences, FiniteSetsExt

CONSTANTS
    Process,        \* processes that open the database
    Agent,          \* those that are agents; the others are backtests
    LockPath,       \* LockPath[p]: the name p derives for the lock file
    Version,        \* Version[p]: currentSchemaVersion of p's binary
    None            \* "no process"

ASSUME AgentAssumption == Agent \subseteq Process /\ None \notin Process
ASSUME VersionAssumption ==
    /\ Version \in [Process -> Nat]
    /\ DOMAIN LockPath = Process

VARIABLES
    (* the database file *)
    ledger,         \* versions in schema_migrations
    schema,         \* migrations whose statements were executed, in order
    (* the file system and the kernel *)
    inode,          \* inode[n]: the file with name n, 0 if there is none
    holder,         \* holder[i]: the process that has flock(ed) inode i
    (* the processes *)
    pc,             \* pc[p]: where runAgent (or the backtest) is
    seen,           \* seen[p]: the schema version Migrate goes on from
    file            \* file[p]: inode of the lock file p has open, 0 if none

database == <<ledger, schema>>
kernel   == <<inode, holder>>
memory   == <<pc, seen, file>>
vars     == <<database, kernel, memory>>

Names  == {LockPath[p] : p \in Process}
Inodes == 1 .. Cardinality(Names) + 2
Newest == Max({Version[p] : p \in Process})

Steps == {"off", "open", "migrate", "opened", "flock", "running", "release", "close"}

TypeOK ==
    /\ ledger \subseteq 1 .. Newest
    /\ schema \in Seq(1 .. Newest)
    /\ inode \in [Names -> {0} \cup Inodes]
    /\ holder \in [Inodes -> Process \cup {None}]
    /\ pc \in [Process -> Steps]
    /\ seen \in [Process -> 0 .. Newest]
    /\ file \in [Process -> {0} \cup Inodes]

Init ==
    /\ ledger = {} /\ schema = <<>>
    /\ inode = [n \in Names |-> 0]
    /\ holder = [i \in Inodes |-> None]
    /\ pc = [p \in Process |-> "off"]
    /\ seen = [p \in Process |-> 0]
    /\ file = [p \in Process |-> 0]

Goto(p, step) == pc' = [pc EXCEPT ![p] = step]

Holds(p) == file[p] # 0 /\ holder[file[p]] = p
-----------------------------------------------------------------------------
(* sqlite.Open *)

Start(p) ==
    /\ pc[p] = "off" /\ Goto(p, "open")
    /\ UNCHANGED <<database, kernel, seen, file>>

\* The schema of a newer binary is refused; the connection is closed.
ReadVersion(p) ==
    /\ pc[p] = "open"
    /\ LET version == IF ledger = {} THEN 0 ELSE Max(ledger)
       IN  /\ seen' = [seen EXCEPT ![p] = version]
           /\ Goto(p, IF version > Version[p] THEN "close" ELSE "migrate")
    /\ UNCHANGED <<database, kernel, file>>

\* Mutant: the row of the migration is replaced if it is there.
MigrateAnyway(p) ==
    /\ pc[p] = "migrate" /\ seen[p] < Version[p]
    /\ ledger' = ledger \cup {seen[p] + 1}
    /\ schema' = Append(schema, seen[p] + 1)
    /\ seen' = [seen EXCEPT ![p] = @ + 1]
    /\ UNCHANGED <<kernel, pc, file>>

\* One transaction: the row of the migration, whose key another process may have
\* inserted meanwhile, and its statements.
Migrate(p) ==
    /\ pc[p] = "migrate" /\ seen[p] < Version[p]
    /\ seen[p] + 1 \notin ledger
    /\ ledger' = ledger \cup {seen[p] + 1}
    /\ schema' = Append(schema, seen[p] + 1)
    /\ seen' = [seen EXCEPT ![p] = @ + 1]
    /\ UNCHANGED <<kernel, pc, file>>

MigrationConflicts(p) ==
    /\ pc[p] = "migrate" /\ seen[p] < Version[p]
    /\ seen[p] + 1 \in ledger
    /\ Goto(p, "close")
    /\ UNCHANGED <<database, kernel, seen, file>>

\* Another process holds SQLite's write lock for longer than the busy timeout.
DatabaseBusy(p) ==
    /\ pc[p] \in {"open", "migrate"}
    /\ \E q \in Process \ {p} : pc[q] # "off"
    /\ Goto(p, "close")
    /\ UNCHANGED <<database, kernel, seen, file>>

\* A backtest works without the lock.
Migrated(p) ==
    /\ pc[p] = "migrate" /\ seen[p] = Version[p]
    /\ Goto(p, IF p \in Agent THEN "opened" ELSE "running")
    /\ UNCHANGED <<database, kernel, seen, file>>
-----------------------------------------------------------------------------
(* Acquire *)

\* O_CREATE: an existing lock file is opened as it is.
OpenLockFile(p) ==
    /\ pc[p] = "opened" /\ Goto(p, "flock")
    /\ LET n     == LockPath[p]
            fresh == CHOOSE i \in Inodes : /\ \A m \in Names : inode[m] # i
                                          /\ \A q \in Process : file[q] # i
       IN  /\ inode' = IF inode[n] = 0 THEN [inode EXCEPT ![n] = fresh] ELSE inode
           /\ file' = [file EXCEPT ![p] = inode'[n]]
    /\ UNCHANGED <<database, holder, seen>>

\* LOCK_NB: a lock that is held is an error at once, and the program ends.
Flock(p) ==
    /\ pc[p] = "flock" /\ holder[file[p]] = None
    /\ holder' = [holder EXCEPT ![file[p]] = p]
    /\ Goto(p, "running")
    /\ UNCHANGED <<database, inode, seen, file>>

\* Mutant: a refused process waits for the lock.
WaitForLock(p) == FALSE /\ UNCHANGED vars

LockHeld(p) ==
    /\ pc[p] = "flock" /\ holder[file[p]] # None
    /\ file' = [file EXCEPT ![p] = 0]
    /\ Goto(p, "close")
    /\ UNCHANGED <<database, kernel, seen>>
-----------------------------------------------------------------------------
(* The running agent, and Store.Close *)

\* Run returns, however it ended.
RunEnds(p) ==
    /\ pc[p] = "running"
    /\ Goto(p, IF p \in Agent THEN "release" ELSE "close")
    /\ UNCHANGED <<database, kernel, seen, file>>

\* Mutant: Release removes the lock file.
ReleaseAndRemove(p) ==
    /\ pc[p] = "release" /\ Goto(p, "close")
    /\ holder' = [holder EXCEPT ![file[p]] = None]
    /\ inode' = [inode EXCEPT ![LockPath[p]] = 0]
    /\ file' = [file EXCEPT ![p] = 0]
    /\ UNCHANGED <<database, seen>>

Release(p) ==
    /\ pc[p] = "release" /\ Goto(p, "close")
    /\ holder' = [holder EXCEPT ![file[p]] = None]
    /\ file' = [file EXCEPT ![p] = 0]
    /\ UNCHANGED <<database, inode, seen>>

\* The process ends: the kernel closes its files, and with them its lock.
Exit(p) ==
    /\ Goto(p, "off")
    /\ holder' = [i \in Inodes |-> IF holder[i] = p THEN None ELSE holder[i]]
    /\ file' = [file EXCEPT ![p] = 0]
    /\ UNCHANGED <<database, inode, seen>>

\* The database is closed and the program ends.
CloseDatabase(p) == pc[p] = "close" /\ Exit(p)

\* The process dies at any moment; SQLite rolls back.
Crash(p) == pc[p] # "off" /\ Exit(p)

Opening(p) == \/ ReadVersion(p) \/ Migrate(p) \/ Migrated(p)
              \/ MigrationConflicts(p) \/ DatabaseBusy(p)
Locking(p) == OpenLockFile(p) \/ Flock(p) \/ LockHeld(p)
Closing(p) == Release(p) \/ CloseDatabase(p)

Next == \E p \in Process :
            Start(p) \/ Opening(p) \/ Locking(p) \/ RunEnds(p) \/ Closing(p) \/ Crash(p)

Spec == Init /\ [][Next]_vars

\* A process that opens, locks or closes goes on; nothing is assumed of how long
\* an agent runs, of crashes or of restarts.
Fairness == \A p \in Process : WF_vars(Opening(p) \/ Locking(p) \/ Closing(p))

LiveSpec == Spec /\ Fairness
-----------------------------------------------------------------------------
(* Properties *)

Trading(p) == p \in Agent /\ pc[p] = "running"

\* At most one agent runs on the database, whatever crashed before and in whatever
\* order files are created, locked and closed (implementation-plan.md: one
\* database belongs to one running agent).  The lock is only taken from a living
\* holder by that holder: no lock survives its process, and none is lost while
\* the agent runs.
OneAgent ==
    /\ \A p, q \in Process : Trading(p) /\ Trading(q) => p = q
    /\ \A p \in Process : Trading(p) => Holds(p)
    /\ \A i \in Inodes : holder[i] # None => pc[holder[i]] \in {"running", "release"}

\* Each migration is executed once and in order, and the ledger tells which, although
\* processes migrate without the lock; while an agent runs the schema is the one
\* its binary was written for.
MigratedOnce ==
    /\ TypeOK
    /\ schema = [i \in 1 .. Len(schema) |-> i]
    /\ ledger = 1 .. Len(schema)
    /\ \A p \in Process : Trading(p) => Len(schema) = Version[p]

\* A start fails fast or succeeds: no process waits for another one.
StartsOrFails ==
    \A p \in Process : (pc[p] = "open") ~> (pc[p] \in {"running", "off"})
=============================================================================
