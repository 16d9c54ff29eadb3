------------------------- MODULE ProcessTableProofs -------------------------
(***************************************************************************)
(* Proofs about the process table, for every MAX_PROCS and every content   *)
(* of recycled memory that does not look like a pid.                       *)
(***************************************************************************)
EXTENDS ProcessTableCalls, ProcessTableLemmas

-----------------------------------------------------------------------------
(* The calls                                                               *)

LEMMA InitialTable == Init => TableInv
<1> SUFFICES ASSUME Init
             PROVE  TableInv
  OBVIOUS
<1>1. procTable = [i \in {0} |-> ConsoleEntry] /\ procTabSize = 1 /\ PROCS = 1
  BY DEF Init, procInit
<1>2. ConsoleEntry \in PCB /\ ConsoleEntry.pid = CONSOLE_PID /\ ConsoleEntry.tos = 0
  BY ConfigAssumption
     DEF ConsoleEntry, PCB, CONSOLE_PID, ZeroContext, Context, Code, Stack, Status
<1>3. 0..(1 - 1) = {0} /\ 1..(1 - 1) = {}
  OBVIOUS
<1>4. procTable \in [0..(1 - 1) -> PCB]
  BY <1>1, <1>2, <1>3
<1> QED
  BY <1>1, <1>2, <1>3, <1>4, ConfigAssumption DEF TableInv, TableOf

LEMMA CopyStep ==
  ASSUME TableInv, NEW p \in Live, NEW c \in CallContext, procCopy(p, c)
  PROVE  TableInv' /\ AllBut(PROCS, procTable, procTable', PROCS)
<1>1. PROCS < MAX_PROCS /\ p \in 0..(procTabSize - 1) /\ c \in Context
  <2>1. p \in 0..(PROCS - 1) /\ PROCS <= procTabSize
    BY DEF Live, TableInv, TableOf
  <2>2. PROCS \in Nat /\ procTabSize \in Nat
    BY ConfigAssumption DEF TableInv, TableOf
  <2> QED
    BY <2>1, <2>2, CallAssumption DEF procCopy
<1>2. PICK fresh \in FreshMemory(PROCS, procTabSize) :
        procTable' = [WithRoom(procTable, procTabSize, PROCS, fresh)
                        EXCEPT ![PROCS] = Child(procTable[p], c, PROCS)]
  BY DEF procCopy
<1>3. procTabSize' = SizeWithRoom(procTabSize, PROCS) /\ PROCS' = PROCS + 1
  BY DEF procCopy
<1>4. /\ TableOf(procTable', SizeWithRoom(procTabSize, PROCS), PROCS + 1)
      /\ AllBut(PROCS, procTable, procTable', PROCS)
  BY <1>1, <1>2, GrownTable DEF TableInv
<1> QED
  BY <1>3, <1>4 DEF TableInv

LEMMA DeleteStep ==
  ASSUME CleanHeap, TableInv, NEW pid \in Pid, procDelete(pid)
  PROVE  /\ TableInv'
         /\ PROCS' = PROCS - 1
         /\ \E d \in 1..(PROCS - 1) : AllBut(d, procTable, procTable', PROCS)
<1> DEFINE pos == procTableContains(procTable, pid)
<1>1. /\ pos > 0
      /\ procTable' = Deleted(procTable, procTabSize, PROCS, pos)
      /\ procTabSize' = SizeAfterDelete(procTabSize, PROCS)
      /\ PROCS' = PROCS - 1
  BY DEF procDelete
<1>2. /\ procTabSize \in Nat /\ PROCS \in Nat
      /\ DOMAIN procTable = 0..(procTabSize - 1)
      /\ \A i \in PROCS..(procTabSize - 1) : procTable[i].pid \in Junk
  BY ConfigAssumption DEF TableInv, TableOf
<1>3. pos # -1
  BY <1>1
<1>4. pos \in 0..(procTabSize - 1) /\ procTable[pos].pid = pid
  BY <1>2, <1>3, ContainsFinds
<1>5. pid \notin Junk
  BY DEF CleanHeap
<1>6. pos \in 1..(PROCS - 1)
  BY <1>1, <1>2, <1>4, <1>5
<1> HIDE DEF pos
<1>7. /\ TableOf(procTable', procTabSize', PROCS')
      /\ AllBut(pos, procTable, procTable', PROCS)
  BY <1>1, <1>6, ShrunkTable DEF TableInv
<1> QED
  BY <1>1, <1>6, <1>7 DEF TableInv

LEMMA InPlaceStep ==
  ASSUME TableInv,
         \/ \E a \in Program : procExec(a)
         \/ \E i \in 0..(procTabSize - 1), s \in LiveStatus,
               p \in CallPriority, c \in CallContext : Write(i, s, p, c)
  PROVE  TableInv' /\ AllBut(PROCS, procTable, procTable', PROCS)
<1>1. /\ procTabSize \in Nat /\ PROCS \in Nat /\ 1 <= PROCS /\ PROCS <= procTabSize
      /\ procTable \in [0..(procTabSize - 1) -> PCB]
  BY ConfigAssumption DEF TableInv, TableOf
<1>2. procTabSize' = procTabSize /\ PROCS' = PROCS
  BY DEF procExec, Write
<1>3. ASSUME NEW i \in 0..(procTabSize - 1), NEW e \in PCB,
             procTable' = [procTable EXCEPT ![i] = e],
             e.pid = procTable[i].pid, e.tos = procTable[i].tos
      PROVE  TableInv' /\ AllBut(PROCS, procTable, procTable', PROCS)
  BY <1>2, <1>3, WrittenTable DEF TableInv
<1>4. ASSUME NEW a \in Program, procExec(a)
      PROVE  \E i \in 0..(procTabSize - 1), e \in PCB :
               /\ procTable' = [procTable EXCEPT ![i] = e]
               /\ e.pid = procTable[i].pid /\ e.tos = procTable[i].tos
  <2> DEFINE last == procTable[PROCS - 1]
             e    == Restarted(last, a)
  <2>1. PROCS - 1 \in 0..(procTabSize - 1) /\ last \in PCB
    BY <1>1
  <2>2. [pc |-> a, sp |-> last.tos, r0 |-> 0] \in Context
    BY <2>1 DEF PCB, Context, Code
  <2>3. e \in PCB /\ e.pid = last.pid /\ e.tos = last.tos
    BY <2>1, <2>2 DEF Restarted, PCB
  <2>4. procTable' = [procTable EXCEPT ![PROCS - 1] = e]
    BY <1>4 DEF procExec
  <2> QED
    BY <2>1, <2>3, <2>4
<1>5. ASSUME NEW i \in 0..(procTabSize - 1), NEW s \in LiveStatus,
             NEW p \in CallPriority, NEW c \in CallContext, Write(i, s, p, c)
      PROVE  \E e \in PCB :
               /\ procTable' = [procTable EXCEPT ![i] = e]
               /\ e.pid = procTable[i].pid /\ e.tos = procTable[i].tos
  <2> DEFINE e == [procTable[i] EXCEPT !.status = s, !.priority = p, !.ctx = c]
  <2>1. procTable[i] \in PCB
    BY <1>1
  <2>2. e \in PCB /\ e.pid = procTable[i].pid /\ e.tos = procTable[i].tos
    BY <2>1, CallAssumption DEF PCB, LiveStatus, Status
  <2>3. procTable' = [procTable EXCEPT ![i] = e]
    BY <1>1, <1>5 DEF Write
  <2> QED
    BY <2>2, <2>3
<1> QED
  BY <1>3, <1>4, <1>5

(***************************************************************************)
(* Every call keeps the invariant, and at most one process is gone.        *)
(***************************************************************************)
LEMMA EveryStep ==
  ASSUME CleanHeap, TableInv, [Next]_ptVars
  PROVE  TableInv' /\ [Survive]_ptVars
<1>1. CASE UNCHANGED ptVars
  BY <1>1 DEF TableInv, ptVars
<1>2. PROCS \in Nat /\ 1 <= PROCS
  BY ConfigAssumption DEF TableInv, TableOf
<1>3. ASSUME NEW d \in 0..PROCS, d = PROCS \/ PROCS' = PROCS - 1,
             AllBut(d, procTable, procTable', PROCS)
      PROVE  Survive
  BY <1>3 DEF AllBut, Survive, SameProcess
<1>4. PROCS \in 0..PROCS /\ 1..(PROCS - 1) \subseteq 0..PROCS
  BY <1>2
<1>5. CASE \E p \in Live, c \in CallContext : procCopy(p, c)
  BY <1>3, <1>4, <1>5, CopyStep
<1>6. CASE \E pid \in Pid : procDelete(pid)
  BY <1>3, <1>4, <1>6, DeleteStep
<1>7. CASE \/ \E a \in Program : procExec(a)
           \/ \E i \in 0..(procTabSize - 1), s \in LiveStatus,
                 p \in CallPriority, c \in CallContext : Write(i, s, p, c)
  BY <1>3, <1>4, <1>7, InPlaceStep
<1> QED
  BY <1>1, <1>5, <1>6, <1>7 DEF Next

LEMMA TableInvariant ==
  ASSUME CleanHeap
  PROVE  Spec => []TableInv
<1>1. Init => TableInv
  BY InitialTable
<1>2. TableInv /\ [Next]_ptVars => TableInv'
  BY EveryStep
<1> QED
  BY <1>1, <1>2, PTL DEF Spec

-----------------------------------------------------------------------------
(* The theorems                                                            *)

(***************************************************************************)
(* The array always has the slots procTabSize says, and PROCS stays within *)
(* MAX_PROCS, through realloc, defrag and halving.                         *)
(***************************************************************************)
THEOREM TypeCorrect ==
  ASSUME CleanHeap
  PROVE  Spec => []PTTypeOK
<1>1. TableInv => PTTypeOK
  BY TableMeans
<1> QED
  BY <1>1, TableInvariant, PTL

(***************************************************************************)
(* procCopy never writes behind the array, and procDelete never cuts a     *)
(* process off nor leaves half of the array unused.                        *)
(***************************************************************************)
THEOREM CapacityKept ==
  ASSUME CleanHeap
  PROVE  Spec => []Capacity
<1>1. TableInv => Capacity
  BY TableMeans
<1> QED
  BY <1>1, TableInvariant, PTL

(***************************************************************************)
(* The first PROCS slots hold processes and no other slot reads like one,  *)
(* so that searching all slots finds processes only.                       *)
(***************************************************************************)
THEOREM ProcessesInFront ==
  ASSUME CleanHeap
  PROVE  Spec => []ProcsCounts
<1>1. TableInv => ProcsCounts
  BY TableMeans
<1> QED
  BY <1>1, TableInvariant, PTL

(***************************************************************************)
(* Slot 0 is the console's for ever, and no other entry is.                *)
(***************************************************************************)
THEOREM ConsoleStaysFirst ==
  ASSUME CleanHeap
  PROVE  Spec => []ConsoleFirst
<1>1. TableInv => ConsoleFirst
  BY TableMeans
<1> QED
  BY <1>1, TableInvariant, PTL

(***************************************************************************)
(* No slot holds a pid below its own number, and every pid, and with it    *)
(* the stack of that number, is below MAX_PROCS.                           *)
(***************************************************************************)
THEOREM PidsBounded ==
  ASSUME CleanHeap
  PROVE  Spec => []SlotBelowPid
<1>1. TableInv => SlotBelowPid
  BY TableMeans
<1> QED
  BY <1>1, TableInvariant, PTL

(***************************************************************************)
(* No call of the table's functions loses a process other than the one it  *)
(* deletes, or changes the order of the others.                            *)
(***************************************************************************)
THEOREM ProcessesSurviveCalls ==
  ASSUME CleanHeap
  PROVE  Spec => EntriesSurvive
<1>1. TableInv /\ [Next]_ptVars => [Survive]_ptVars
  BY EveryStep
<1> QED
  BY <1>1, TableInvariant, PTL DEF Spec, EntriesSurvive
=============================================================================
