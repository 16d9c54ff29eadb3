----------------------------- MODULE Semaphores -----------------------------
(***************************************************************************)
(* The semaphores: the table of kernel/ipc/semTable.c, the four system     *)
(* calls on it (kernel/hilevel/hilevel.c) as user/libc.c makes them, and   *)
(* the removal at exit and kill.  A handler runs with interrupts masked,   *)
(* so each call is one step; sem_wait then spins in user code.             *)
(*                                                                         *)
(* An entry is a semaphore, with waitingPid 0, or a process that waits at  *)
(* one.  Nothing closes the holes that removals leave: see semTabDefrag.   *)
(***************************************************************************)
EXTENDS IpcProcesses, Sequences, Defrag

CONSTANTS
  RecycledEntry,  \* entries that memory added by realloc may read as, such as
                  \* those that have been cut off there
  MaxEntries      \* Bound: what the count of entries, which drifts, may reach

NoEntry == [sem |-> 0, waitingPid |-> 0, owner |-> 0]

Entry == [sem : Nat, waitingPid : Nat, owner : Nat]

ASSUME SemAssumption == RecycledEntry \subseteq Entry /\ MaxEntries \in Nat

VARIABLES
  semTable,       \* the array, indexed from 0
  semTabSize,     \* its number of slots
  semTabEntries,  \* the number of entries it is said to have
  semValue,       \* *sem, for every semaphore that has been allocated
  waitsAt,        \* the semaphore at which a process spins, or 0
  corrupted       \* a word of recycled memory has been passed to free

semVars == <<semTable, semTabSize, semTabEntries, semValue, waitsAt, corrupted>>

SemTableInit ==
  /\ semTable = <<>>
  /\ semTabSize = 0
  /\ semTabEntries = 0
  /\ semValue = <<>>
  /\ waitsAt = [p \in Process |-> 0]
  /\ corrupted = FALSE

-----------------------------------------------------------------------------
(* The table's value: its slots t and the number n of its entries          *)

\* The inner loop tests the empty slot i again where it means slot j, so it
\* never finds anything to move.
semTabDefrag(t) == t

FirstOf(S) == IF S = {} THEN -1 ELSE LeastOf(S)

\* The first slot with a process that waits at sem, or -1.
semTabContains(t, sem) ==
  FirstOf({i \in DOMAIN t : t[i].sem = sem /\ t[i].waitingPid # 0})

semGetOwner(sem) ==
  LET found == FirstOf({i \in DOMAIN semTable : semTable[i].sem = sem})
  IN  IF found = -1 THEN 0 ELSE semTable[found].owner

semTabDuplicate(entry) == \E i \in DOMAIN semTable : semTable[i] = entry

\* Mutant of SetSemTable: the array grows or shrinks, semTabSize does not.
SetSemTableSizeKept(t, n) ==
  /\ semTable' = t
  /\ semTabSize' = IF semTabSize > 0 THEN semTabSize ELSE Cardinality(DOMAIN t)
  /\ semTabEntries' = n

SetSemTable(t, n) ==
  /\ semTable' = t
  /\ semTabSize' = Cardinality(DOMAIN t)
  /\ semTabEntries' = n

\* Mutant of MustGrow: the array grows one entry too late.
MustGrowLate(n, size) == n > size /\ size > 0

MustGrow(n, size) == n >= size /\ size > 0

\* The slots that the array has when semTableAdd writes to it.
GrownSize ==
  IF MustGrow(semTabEntries, semTabSize) THEN 2 * semTabSize
  ELSE IF semTabSize = 0 THEN 1 ELSE semTabSize

\* semTableAdd: the entry goes where the count says, whether or not there is
\* an entry already.
semTableAdd(entry) ==
  IF semTabDuplicate(entry)
  THEN UNCHANGED <<semTable, semTabSize, semTabEntries>>
  ELSE /\ semTabEntries < MaxEntries
       /\ \E recycled \in [semTabSize..(GrownSize - 1) -> RecycledEntry] :
            SetSemTable([i \in 0..(GrownSize - 1) |->
                           IF i = semTabEntries THEN entry
                           ELSE IF i < semTabSize THEN semTable[i]
                           ELSE recycled[i]],
                        semTabEntries + 1)

\* Half the slots, down to none, when the count says that they are enough.  What
\* is in the other half leaves the table, but not the memory.
SemShrunk(t, n) ==
  LET size == Cardinality(DOMAIN t)
  IN  IF n <= size \div 2 THEN [i \in 0..(size \div 2 - 1) |-> t[i]] ELSE t

\* The table without the entry in slot i.
SemCleared(t, n, i) == SemShrunk(semTabDefrag([t EXCEPT ![i] = NoEntry]), n - 1)

\* One iteration of semTableNotify's loop: the first process that waits at sem
\* is taken out.
NotifyStep(sem, state) ==
  LET index == semTabContains(state.table, sem)
  IN  IF index = -1 THEN state
      ELSE [table   |-> SemCleared(state.table, state.entries, index),
            entries |-> state.entries - 1]

\* Its loop, over as many slots as there were when it began.
Notified(sem) ==
  LET After[k \in 0..semTabSize] ==
        IF k = 0
        THEN [table |-> semTable, entries |-> semTabEntries]
        ELSE NotifyStep(sem, After[k - 1])
  IN  After[semTabSize]

semTableNotify(sem) == SetSemTable(Notified(sem).table, Notified(sem).entries)

\* Mutant of IsOf: the entries of processes that wait stay.
IsOwnedBy(entry, pid) == entry.waitingPid = 0 /\ entry.owner = pid

IsOf(entry, pid) ==
  entry.waitingPid = pid \/ (entry.waitingPid = 0 /\ entry.owner = pid)

\* One iteration of semTableRemove's loop, for slot i.  Of its own semaphore it
\* frees what slot i holds now: nothing, or a word behind the array if that has
\* been cut off below slot i.
SemRemoveStep(pid, i, state) ==
  IF i \in DOMAIN state.table /\ IsOf(state.table[i], pid)
  THEN LET t == SemCleared(state.table, state.entries, i)
       IN  [table   |-> t,
            entries |-> state.entries - 1,
            wild    |-> state.wild \/ (state.table[i].waitingPid = 0 /\ i \notin DOMAIN t)]
  ELSE state

\* Its loop, over the slots there were when it began.
WithoutThoseOf(pid) ==
  LET After[k \in 0..semTabSize] ==
        IF k = 0
        THEN [table |-> semTable, entries |-> semTabEntries, wild |-> FALSE]
        ELSE SemRemoveStep(pid, k - 1, After[k - 1])
  IN  After[semTabSize]

semTableRemove(pid) ==
  LET end == WithoutThoseOf(pid)
  IN  /\ SetSemTable(end.table, end.entries)
      \* recycled memory may read as NULL, or as anything
      /\ corrupted' \in IF end.wild THEN BOOLEAN ELSE {FALSE}

-----------------------------------------------------------------------------
(* The system calls *)

\* A process that spins makes no calls, and after a wild free nobody knows.
Calls(p) == p \in DOMAIN running /\ waitsAt[p] = 0 /\ ~corrupted

\* sem_init: malloc gives the address sem.
sem_init(p, sem) ==
  /\ Calls(p)
  /\ sem \in Address \ DOMAIN semValue
  /\ semTableAdd([sem |-> sem, waitingPid |-> 0, owner |-> running[p]])
  /\ semValue' = [a \in DOMAIN semValue \cup {sem} |-> IF a = sem THEN 0 ELSE semValue[a]]
  /\ UNCHANGED <<running, waitsAt, corrupted>>

\* libc passes the value where the handler expects the address.
Posted(sem) == semValue[sem]

\* The handler's *sem++ moves its copy of the address by a word and leaves the
\* value; what it then notifies is that next word.
NextWord(address) == address + PastNull

sem_post(p, sem) ==
  /\ Calls(p)
  /\ sem \in DOMAIN semValue
  /\ semTableNotify(NextWord(Posted(sem)))
  /\ UNCHANGED <<running, semValue, waitsAt, corrupted>>

\* A value other than 0 is returned at once; *sem-- leaves it as it is, too.  At
\* 0 the process is entered and its libc spins until it reads another value.
sem_wait(p, sem) ==
  /\ Calls(p)
  /\ sem \in DOMAIN semValue
  /\ IF semValue[sem] # 0
     THEN UNCHANGED <<semTable, semTabSize, semTabEntries, waitsAt>>
     ELSE /\ semTableAdd([sem |-> sem, waitingPid |-> running[p], owner |-> semGetOwner(sem)])
          /\ waitsAt' = [waitsAt EXCEPT ![p] = sem]
  /\ UNCHANGED <<running, semValue, corrupted>>

\* The loop in libc's sem_wait: the value is not 0 any more.
Return(p) ==
  /\ p \in DOMAIN running
  /\ waitsAt[p] # 0
  /\ semValue[waitsAt[p]] # 0
  /\ waitsAt' = [waitsAt EXCEPT ![p] = 0]
  /\ UNCHANGED <<running, semTable, semTabSize, semTabEntries, semValue, corrupted>>

\* sem_destroy takes everything of the caller out, or prints an error.  The
\* owner it asks for is that of a process that waits at sem; when there is none
\* it reads the word before the array, which may be anything.
sem_destroy(p, sem) ==
  LET index == semTabContains(semTable, sem)
  IN  /\ Calls(p)
      /\ sem \in DOMAIN semValue
      /\ index # -1 => semTable[index].owner = running[p]
      /\ semTableRemove(running[p])
      /\ UNCHANGED <<running, semValue, waitsAt>>

\* exit and kill, on this table: the entries of all processes with the pid go.
SemLeave(p) ==
  /\ p \in DOMAIN running
  /\ ~corrupted
  /\ semTableRemove(running[p])
  /\ waitsAt' = [waitsAt EXCEPT ![p] = 0]
  /\ UNCHANGED semValue

-----------------------------------------------------------------------------
(* Properties *)

(***************************************************************************)
(* The array has the slots semTabSize says, and none when it is freed.     *)
(***************************************************************************)
SemTypeOK ==
  /\ semTable \in [0..(semTabSize - 1) -> Entry]
  /\ semTabEntries \in Nat
  /\ DOMAIN semValue \subseteq Address
  /\ \A sem \in DOMAIN semValue : semValue[sem] \in Int
  /\ waitsAt \in [Process -> {0} \cup DOMAIN semValue]
  /\ corrupted \in BOOLEAN

(***************************************************************************)
(* The count and the entries drift apart, because entries are overwritten  *)
(* (semTable.c:92) and cut off (semTable.c:144), and the loops halve the   *)
(* array while they walk over it.  Still semTableAdd writes inside the     *)
(* array, and the array is less than twice as large as the count.          *)
(***************************************************************************)
SemCapacity ==
  /\ semTabEntries <= semTabSize
  /\ semTabSize = 0 \/ semTabSize < 2 * semTabEntries

(***************************************************************************)
(* "deletes all entries with waitingPid = given PID (completely removes    *)
(* semaphore if owner = given PID)" (semTable.c:128): whatever halving     *)
(* does to the walk of semTableRemove, and whatever the slots hold, the    *)
(* table it leaves has no entry of the pid that leaves.  (Entries cut off  *)
(* and read back by a later realloc may still bring one.)                  *)
(***************************************************************************)
NothingOfWhoLeaves ==
  [][\A p \in DOMAIN running \ DOMAIN running', i \in DOMAIN semTable' :
       /\ semTable'[i].waitingPid # running[p]
       /\ semTable'[i].waitingPid = 0 => semTable'[i].owner # running[p]
    ]_<<running, semVars>>
=============================================================================
