----------------------------- MODULE BlockDevice -----------------------------
(***************************************************************************)
(* What the disk driver (device/disk.h) promises to its caller: a store of *)
(* blocks, calls that return a result, and failure only when the disk has  *)
(* refused a call as often as the driver tries.                            *)
(***************************************************************************)
EXTENDS Integers, Sequences

CONSTANTS
  block_num,   \* the number of blocks
  block_len,   \* the number of bytes of each
  DISK_RETRY   \* how often a call is tried

\* op is "num", "len", "wr" or "rd".  addr is the block, data what to write.
NoCall == [op |-> "none", addr |-> 0, data |-> <<>>]

DISK_FAILURE == <<-1>>

VARIABLES
  store,    \* the block at every address
  call,     \* the call in progress
  result,   \* what the last call returned
  refused   \* how often the disk has refused this call

deviceVars == <<store, call, result, refused>>

DeviceInit ==
  /\ store = [a \in 0..(block_num - 1) |-> [i \in 1..block_len |-> 0]]
  /\ call = NoCall
  /\ result = <<>>
  /\ refused = 0

Begin(c) ==
  /\ call = NoCall
  /\ call' = c
  /\ UNCHANGED <<store, result, refused>>

\* The block with its first k bytes replaced by those of data.
Overwritten(block, data, k) ==
  [i \in 1..block_len |-> IF i <= k THEN data[i] ELSE block[i]]

\* A write puts the beginning of its data into its block, perhaps all of it.
Put(k) ==
  /\ call.op = "wr"
  /\ call.addr \in DOMAIN store
  /\ Len(call.data) = block_len
  /\ store' = [store EXCEPT ![call.addr] = Overwritten(@, call.data, k)]
  /\ UNCHANGED <<call, result, refused>>

Refuse ==
  /\ call # NoCall
  /\ refused < DISK_RETRY
  /\ refused' = refused + 1
  /\ UNCHANGED <<store, call, result>>

\* r is what the call in progress may return, as the store is now.
Answers(r) ==
  \/ call.op = "num" /\ r = <<block_num>>
  \/ call.op = "len" /\ r = <<block_len>>
  \/ call.op = "wr" /\ r = <<>> /\ call.addr \in DOMAIN store /\ store[call.addr] = call.data
  \/ call.op = "rd" /\ call.addr \in DOMAIN store /\ r = store[call.addr]
  \/ call # NoCall /\ refused = DISK_RETRY /\ r = DISK_FAILURE

Return(r) ==
  /\ Answers(r)
  /\ call' = NoCall
  /\ result' = r
  /\ refused' = 0
  /\ UNCHANGED store

DeviceNext ==
  \/ call = NoCall /\ call' # NoCall /\ Begin(call')
  \/ \E k \in 1..block_len : Put(k)
  \/ Refuse
  \/ call # NoCall /\ call' = NoCall /\ Return(result')

DeviceSpec == DeviceInit /\ [][DeviceNext]_deviceVars
=============================================================================
