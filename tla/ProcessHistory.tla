--------------------------- MODULE ProcessHistory ---------------------------
(***************************************************************************)
(* The history table (kernel/processTables/processTableHistory.c), which   *)
(* kill gives an entry of each process that it also stores.  What is       *)
(* copied is the pointer to the process and whatever is behind it on the   *)
(* stack, so no entry tells anything of a process; the model keeps the     *)
(* size of the array and the number of entries.  Nothing takes an entry    *)
(* out before the kernel is closed.                                        *)
(***************************************************************************)
EXTENDS Integers

CONSTANT MAX_HISTORY_PROCS  \* most entries, as far as the array grows

ASSUME HistoryAssumption == MAX_HISTORY_PROCS \in Nat \ {0}

VARIABLES
  procTabHistorySize,  \* the array's number of slots
  HISTORY_PROCS        \* the number of entries

historyVars == <<procTabHistorySize, HISTORY_PROCS>>

HistoryInit ==
  /\ procTabHistorySize = 0
  /\ HISTORY_PROCS = 0

\* Mutant of SizeForEntry: the array grows one entry too late.
SizeForEntryLate ==
  IF HISTORY_PROCS = 0 THEN 1
  ELSE IF HISTORY_PROCS > procTabHistorySize /\ HISTORY_PROCS < MAX_HISTORY_PROCS
  THEN 2 * procTabHistorySize
  ELSE procTabHistorySize

\* The slots that there are when the entry is copied to slot HISTORY_PROCS.
SizeForEntry ==
  IF HISTORY_PROCS = 0 THEN 1
  ELSE IF HISTORY_PROCS >= procTabHistorySize /\ HISTORY_PROCS < MAX_HISTORY_PROCS
  THEN 2 * procTabHistorySize
  ELSE procTabHistorySize

procHistoryInit ==
  /\ procTabHistorySize' = SizeForEntry
  /\ HISTORY_PROCS' = HISTORY_PROCS + 1

\* The entry would be copied to a place behind the array.
HistoryOverflows == SizeForEntry <= HISTORY_PROCS

-----------------------------------------------------------------------------
(* Properties *)

(***************************************************************************)
(* "maximum items that are stored in the history table"                    *)
(* (processTableHistory.c:15): as many find room in an array that grows by *)
(* doubling, whenever they come.  What comes after them does not.          *)
(***************************************************************************)
HistoryFits == HISTORY_PROCS <= MAX_HISTORY_PROCS => HISTORY_PROCS <= procTabHistorySize
=============================================================================
