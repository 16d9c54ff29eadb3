--------------------------- MODULE MCDiskProtocol ---------------------------
(* Values of DiskProtocol's constants for TLC. *)
EXTENDS DiskProtocol

\* Addresses of two blocks, of one behind them, of one whose two bytes differ
\* and of one that the server takes for negative; data of a block and less.
MCRequest ==
  {[op |-> op, addr |-> 0, data |-> <<>>] : op \in {"num", "len"}}
    \cup [op : {"wr"}, addr : {0, 1, 2, 4, 9}, data : {<<1, 2>>, <<3, 0>>, <<2>>}]
    \cup [op : {"rd"}, addr : {0, 1, 2, 4, 9}, data : {<<>>}]
=============================================================================
