--------------------------------- MODULE Ipc ---------------------------------
(***************************************************************************)
(* Inter process communication as a whole: the segments and the semaphores *)
(* share the heap and the processes, whose exit and kill clear both tables *)
(* in one handler.                                                         *)
(***************************************************************************)
EXTENDS SharedMemory, Semaphores

ipcVars == <<vars, semVars>>

IpcInit == Init /\ SemTableInit

SegmentCall(p) ==
  /\ Calls(p)
  /\ UNCHANGED semVars
  /\ \/ \E size \in Size : ShmInit(p, size) /\ DOMAIN heap' \cap DOMAIN semValue = {}
     \/ \E addr \in Address \cup {0} : ShmDestroy(p, addr)

SemaphoreCall(p) ==
  /\ UNCHANGED <<shmTable, shmTabSize, shmTabEntries, heap>>
  /\ \/ \E sem \in Address \ DOMAIN heap : sem_init(p, sem)
     \/ \E sem \in Address :
          sem_post(p, sem) \/ sem_wait(p, sem) \/ sem_destroy(p, sem)

\* exit of the process itself, or kill by the console: also while it spins.
Leave(p) == SemLeave(p) /\ ShmExit(p)

IpcNext ==
  \E p \in Process :
    \/ Start(p) /\ ~corrupted /\ UNCHANGED semVars
    \/ SegmentCall(p)
    \/ SemaphoreCall(p)
    \/ Leave(p)

IpcSpec == IpcInit /\ [][IpcNext]_ipcVars
=============================================================================
