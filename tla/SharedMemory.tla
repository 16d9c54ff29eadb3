---------------------------- MODULE SharedMemory ----------------------------
(***************************************************************************)
(* The shared memory segments: the table of kernel/ipc/shmTable.c, the     *)
(* system calls on it (kernel/hilevel/hilevel.c) and the part of the heap  *)
(* that holds the segments.  The calls run with interrupts masked, so each *)
(* is one step; processes issue them in any order.                         *)
(***************************************************************************)
EXTENDS IpcProcesses, Sequences, Defrag

CONSTANTS
  Size,      \* sizes in bytes that processes ask for or write
  Recycled   \* entries that memory added by realloc may read as

NoSegment == [addr |-> 0, owner |-> 0, size |-> 0]

ASSUME ShmAssumption ==
  /\ Size \subseteq Nat
  /\ Recycled \subseteq [addr : Nat, owner : Int, size : Nat]

VARIABLES
  shmTable,       \* the array, indexed from 0
  shmTabSize,     \* its number of slots
  shmTabEntries,  \* the number of segments in it
  heap            \* the size of the segment at every address in use

vars == <<shmTable, shmTabSize, shmTabEntries, heap, running>>

Init ==
  /\ shmTable = <<>>
  /\ shmTabSize = 0
  /\ shmTabEntries = 0
  /\ heap = <<>>
  /\ running = <<>>

-----------------------------------------------------------------------------
(* The table's value: its slots t and the number n of its entries          *)

\* Mutant of shmTabDefrag: the hole stays.
shmTabDefragNothing(t) == t

shmTabDefrag(t) == Compact(t, {i \in DOMAIN t : t[i].addr # 0}, NoSegment)

\* The first slot with this address, dead slots included, or -1.
shmTabContains(addr) ==
  LET found == {i \in DOMAIN shmTable : shmTable[i].addr = addr}
  IN  IF found = {} THEN -1 ELSE LeastOf(found)

\* Mutant of Shrunk: it halves too late.
ShrunkLate(t, n) ==
  LET size == Cardinality(DOMAIN t)
  IN  IF n < size \div 2 THEN [i \in 0..(size \div 2 - 1) |-> t[i]] ELSE t

\* Half the slots, down to none at all, when they are enough.
Shrunk(t, n) ==
  LET size == Cardinality(DOMAIN t)
  IN  IF n <= size \div 2 THEN [i \in 0..(size \div 2 - 1) |-> t[i]] ELSE t

\* The table without the entry in slot i.
Removed(t, n, i) == Shrunk(shmTabDefrag([t EXCEPT ![i] = NoSegment]), n - 1)

\* Room for one more: the array doubles when it is full and is allocated when
\* there is none.
Enlarged(t, n, recycled) ==
  LET size == Cardinality(DOMAIN t)
  IN  IF n >= size
      THEN [i \in 0..(IF size = 0 THEN 0 ELSE 2 * size - 1) |->
              IF i < size THEN t[i] ELSE recycled[i]]
      ELSE shmTabDefrag(t)

RecycledMemory(t, n) ==
  LET size == Cardinality(DOMAIN t)
  IN  IF n >= size
      THEN [size..(IF size = 0 THEN 0 ELSE 2 * size - 1) -> Recycled]
      ELSE {<<>>}

\* Mutant of SetTable: shmTabSize is not doubled with the array.
SetTableSizeKept(t, n) ==
  /\ shmTable' = t
  /\ shmTabSize' = IF n > shmTabEntries /\ shmTabSize > 0 THEN shmTabSize ELSE Cardinality(DOMAIN t)
  /\ shmTabEntries' = n

SetTable(t, n) ==
  /\ shmTable' = t
  /\ shmTabSize' = Cardinality(DOMAIN t)
  /\ shmTabEntries' = n

-----------------------------------------------------------------------------
(* The system calls *)

\* The heap without the segments at addrs; free(0) does nothing.
Freed(addrs) == [a \in DOMAIN heap \ addrs |-> heap[a]]

\* fork and exec: a process makes these calls from now on.
Start(p) ==
  /\ Starts(p)
  /\ UNCHANGED <<shmTable, shmTabSize, shmTabEntries, heap>>

\* shm_init: calloc finds room, as far as there is any.
ShmInit(p, size) ==
  /\ p \in DOMAIN running
  /\ UNCHANGED running
  /\ \E addr \in Address \ DOMAIN heap :
       /\ \E recycled \in RecycledMemory(shmTable, shmTabEntries) :
            SetTable([Enlarged(shmTable, shmTabEntries, recycled)
                        EXCEPT ![shmTabEntries] =
                           [addr |-> addr, owner |-> running[p], size |-> size]],
                     shmTabEntries + 1)
       /\ heap' = [a \in DOMAIN heap \cup {addr} |-> IF a = addr THEN size ELSE heap[a]]

\* Mutant of ShmDestroy: the memory is not given back.
ShmDestroyLeaking(p, addr) ==
  LET index == shmTabContains(addr)
  IN  /\ p \in DOMAIN running
      /\ index > -1
      /\ shmTable[index].owner = running[p]
      /\ SetTable(Removed(shmTable, shmTabEntries, index), shmTabEntries - 1)
      /\ UNCHANGED <<heap, running>>

\* shm_destroy of any address: others than the owner get an error message.
ShmDestroy(p, addr) ==
  LET index == shmTabContains(addr)
  IN  /\ p \in DOMAIN running
      /\ index > -1
      /\ shmTable[index].owner = running[p]
      /\ SetTable(Removed(shmTable, shmTabEntries, index), shmTabEntries - 1)
      /\ heap' = Freed({addr})
      /\ UNCHANGED running

\* Whether shm_write lets size bytes be written at addr; what they are is not
\* modelled.
Accepts(addr, size) ==
  LET index == shmTabContains(addr)
  IN  index > -1 /\ size <= shmTable[index].size

\* Mutant of RemoveStep: the memory is given back and the entry stays.
RemoveStepFreeOnly(pid, i, state) ==
  IF i \in DOMAIN state.table /\ state.table[i].owner = pid
  THEN [state EXCEPT !.freed = @ \cup {state.table[i].addr}]
  ELSE state

\* One iteration of shmTabRemove's loop, for slot i.
RemoveStep(pid, i, state) ==
  IF i \in DOMAIN state.table /\ state.table[i].owner = pid
  THEN [table   |-> Removed(state.table, state.entries, i),
        entries |-> state.entries - 1,
        freed   |-> state.freed \cup {state.table[i].addr}]
  ELSE state

\* shmTabRemove: its loop over the slots there were when it began.  A removal
\* moves the next entry into slot i, which the loop has passed then.
shmTabRemove(pid) ==
  LET After[k \in 0..shmTabSize] ==
        IF k = 0
        THEN [table |-> shmTable, entries |-> shmTabEntries, freed |-> {}]
        ELSE RemoveStep(pid, k - 1, After[k - 1])
  IN  After[shmTabSize]

\* exit and kill, on this table.  Of the processes with the pid any may be the
\* one that goes; the segments of all of them do.
ShmExit(p) ==
  LET end == shmTabRemove(running[p])
  IN  /\ p \in DOMAIN running
      /\ running' = [q \in DOMAIN running \ {p} |-> running[q]]
      /\ SetTable(end.table, end.entries)
      /\ heap' = Freed(end.freed)

Next ==
  \E p \in Process :
    \/ Start(p)
    \/ \E size \in Size : ShmInit(p, size)
    \/ \E addr \in Address \cup {0} : ShmDestroy(p, addr)
    \/ ShmExit(p)

Spec == Init /\ [][Next]_vars

-----------------------------------------------------------------------------
(* Properties *)

(***************************************************************************)
(* The array has the slots shmTabSize says, and none when it is freed; the *)
(* pids of the processes are among those that procCopy can give.           *)
(***************************************************************************)
ShmTypeOK ==
  /\ DOMAIN shmTable = 0..(shmTabSize - 1)
  /\ \A i \in DOMAIN shmTable : shmTable[i] \in [addr : Nat, owner : Int, size : Nat]
  /\ shmTabEntries \in Nat
  /\ DOMAIN heap \subseteq Address
  /\ DOMAIN running \subseteq Process
  /\ running \in [DOMAIN running -> Pid]

\* The slots in use.
Segments == 0..(shmTabEntries - 1)

(***************************************************************************)
(* However many entries one shmTabRemove takes out while it walks over the *)
(* array it shrinks, there is a slot for every entry, and less than twice  *)
(* as many.                                                                *)
(***************************************************************************)
ShmCapacity ==
  shmTabEntries <= shmTabSize /\ (shmTabSize = 0 \/ shmTabSize < 2 * shmTabEntries)

(***************************************************************************)
(* The table and the heap agree: every entry is a segment of its own that  *)
(* is allocated and as large as it says, and every allocated segment has   *)
(* an entry, so that no memory leaks and none is freed twice.              *)
(***************************************************************************)
TableMatchesHeap ==
  /\ \A i, j \in Segments : shmTable[i].addr = shmTable[j].addr => i = j
  /\ DOMAIN heap = {shmTable[i].addr : i \in Segments}
  /\ \A i \in Segments : heap[shmTable[i].addr] = shmTable[i].size

(***************************************************************************)
(* shm_write looks an address up in all slots, and the dead ones may hold  *)
(* the address of a segment that has moved or left, with another size.     *)
(* Still what it lets a process write to a segment is what fits into it,   *)
(* no more and no less.                                                    *)
(***************************************************************************)
WritesFit ==
  \A addr \in DOMAIN heap, size \in Size : Accepts(addr, size) <=> size <= heap[addr]

Held == {shmTable[i] : i \in Segments}

(***************************************************************************)
(* A segment goes only when a process with its owner's pid destroys it or  *)
(* leaves, whatever the defragmentation and the shrinking do with the      *)
(* slots around it.  That process need not be the one that made it: see    *)
(* UniquePids.                                                             *)
(***************************************************************************)
OnlyOwnersFree ==
  [][\A s \in Held \ Held' : \E p \in DOMAIN running :
       running[p] = s.owner /\ (ShmDestroy(p, s.addr) \/ ShmExit(p))]_vars

(***************************************************************************)
(* "delete shm with owner = given PID from the shmTable" (shmTable.c:96):  *)
(* nothing of a process that has left stays.                               *)
(***************************************************************************)
RemovedAtExit ==
  \A i \in Segments : \E p \in DOMAIN running : running[p] = shmTable[i].owner
=============================================================================
