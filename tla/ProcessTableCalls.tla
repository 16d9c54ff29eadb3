------------------------- MODULE ProcessTableCalls -------------------------
(***************************************************************************)
(* The process table on its own: its functions called in any order that    *)
(* the handlers allow, with any of the values they may pass, and fields of *)
(* its entries overwritten in between as dispatch, schedule and the system *)
(* calls do.  Processes are deleted by pids the kernel has given: 0 would  *)
(* find a cleared slot behind the processes and count one of them out.     *)
(***************************************************************************)
EXTENDS ProcessTable

CONSTANTS
  CallPriority,  \* priorities and register sets
  CallContext    \* that the rest of the kernel writes

ASSUME CallAssumption == CallPriority \subseteq Nat /\ CallContext \subseteq Context

Init == procInit

Next ==
  \/ \E p \in Live, c \in CallContext : procCopy(p, c)
  \/ \E a \in Program : procExec(a)
  \/ \E pid \in Pid : procDelete(pid)
  \/ \E i \in 0..(procTabSize - 1), s \in LiveStatus, p \in CallPriority, c \in CallContext :
       Write(i, s, p, c)

Spec == Init /\ [][Next]_ptVars
=============================================================================
