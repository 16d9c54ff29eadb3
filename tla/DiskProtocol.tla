---------------------------- MODULE DiskProtocol ----------------------------
(***************************************************************************)
(* The disk driver (device/disk.c), the disk's server (device/disk.py) and *)
(* the serial line between them (device/PL011.c).  A request is a line of  *)
(* fields in hexadecimal digits; an answer is another, of which the driver *)
(* takes as many characters as it expects, whatever they are.              *)
(*                                                                         *)
(* The server reads whole lines, so a request is on its way as one.  The   *)
(* driver is called from one place at a time.                              *)
(***************************************************************************)
EXTENDS Integers, Sequences, SequencesExt

CONSTANTS
  block_num, block_len,  \* what the server has been started with
  DISK_RETRY,
  Radix,                 \* 16 in the code: a byte is two digits
  WordLength,            \* 4 in the code: the bytes of an address
  Request                \* what the driver is asked for

\* The number of values of a byte.
Base == Radix * Radix

Byte == 0..(Base - 1)

\* The number of values of n bytes.
Power[n \in Nat] == IF n = 0 THEN 1 ELSE Base * Power[n - 1]

ASSUME DiskAssumption ==
  /\ {block_len, DISK_RETRY, WordLength} \subseteq Nat \ {0} /\ block_num \in Nat
  /\ Radix \in Nat \ {0, 1}
  /\ 2 * block_num < Power[WordLength] /\ 2 * block_len < Power[WordLength]

ASSUME RequestAssumption ==
  /\ Request \subseteq [op   : {"num", "len", "wr", "rd"},
                        addr : 0..(Power[WordLength] - 1),
                        data : Seq(Byte)]
  /\ \A c \in Request : c.op = "wr" => c.data # <<>>

\* The characters that are no digits: ' ' and EOL.
Space == Radix

EOL == Radix + 1

VARIABLES
  store,     \* the blocks in the server's file
  call,      \* the driver's call, NoCall between calls
  attempt,   \* which iteration of its loop the driver is in
  at,        \* where: "idle", "send", "command", "answer", "refused"
  result,    \* what the last call returned
  toServer,  \* requests on the line, each a sequence of fields
  toDriver,  \* characters on the line
  up         \* the server runs

Device == INSTANCE BlockDevice
            WITH refused <- IF at = "refused" THEN attempt ELSE attempt - 1

vars == <<store, call, attempt, at, result, toServer, toDriver, up>>

Init ==
  /\ store = [a \in 0..(block_num - 1) |-> [i \in 1..block_len |-> 0]]
  /\ call = Device!NoCall
  /\ attempt = 1
  /\ at = "idle"
  /\ result = <<>>
  /\ toServer = <<>>
  /\ toDriver = <<>>
  /\ up = TRUE

-----------------------------------------------------------------------------
(* Bytes, words and digits *)

\* The digits of bytes, the high one of each first.
puth(bytes) ==
  [k \in 1..(2 * Len(bytes)) |->
     IF k % 2 = 1 THEN bytes[(k + 1) \div 2] \div Radix ELSE bytes[k \div 2] % Radix]

\* The bytes of digits.
geth(digits) ==
  [i \in 1..(Len(digits) \div 2) |-> Radix * digits[2 * i - 1] + digits[2 * i]]

\* The bytes of a word, the low one first.
Bytes(word) == [i \in 1..WordLength |-> (word \div Power[i - 1]) % Base]

Word(bytes) ==
  LET n == Len(bytes)
      OfLast[k \in 0..n] ==
        IF k = 0 THEN 0 ELSE bytes[n - k + 1] + Base * OfLast[k - 1]
  IN  OfLast[n]

\* What the server makes of the bytes of a word: it has a sign.
unpack(bytes) ==
  LET word == Word(bytes)
  IN  IF 2 * word < Power[WordLength] THEN word ELSE word - Power[WordLength]

Conf == <<0>>
Wr   == <<1>>
Rd   == <<2>>

ACK_OKAY == puth(<<0>>)
ACK_FAIL == puth(<<1>>)

-----------------------------------------------------------------------------
(* The driver *)

Begin(c) ==
  /\ at = "idle"
  /\ call' = c
  /\ at' = "send"
  /\ UNCHANGED <<store, attempt, result, toServer, toDriver, up>>

\* Mutant of addr_puth: the high byte comes first.
addr_puthBigEndian(a) == puth(Reverse(Bytes(a)))

addr_puth(a) == puth(Bytes(a))

\* The fields of the line that asks for the call c.
Line(c) ==
  CASE c.op \in {"num", "len"} -> <<puth(Conf)>>
    [] c.op = "wr" -> <<puth(Wr), addr_puth(c.addr), puth(c.data)>>
    [] c.op = "rd" -> <<puth(Rd), addr_puth(c.addr)>>

Send ==
  /\ at = "send"
  /\ toServer' = Append(toServer, Line(call))
  /\ at' = "command"
  /\ UNCHANGED <<store, call, attempt, result, toDriver, up>>

\* The driver takes n characters, as soon as they are there.
Take(n) ==
  /\ Len(toDriver) >= n
  /\ toDriver' = SubSeq(toDriver, n + 1, Len(toDriver))
  /\ UNCHANGED <<store, toServer, up>>

ReadCommand ==
  /\ at = "command"
  /\ Take(2)
  /\ at' = IF geth(SubSeq(toDriver, 1, 2)) = <<0>> THEN "answer" ELSE "refused"
  /\ UNCHANGED <<call, attempt, result>>

Return(r) ==
  /\ at' = "idle"
  /\ call' = Device!NoCall
  /\ attempt' = 1
  /\ result' = r

\* The bytes that the driver expects in an answer.
AnswerLength(c) ==
  CASE c.op \in {"num", "len"} -> 2 * WordLength
    [] c.op = "wr" -> 0
    [] c.op = "rd" -> block_len

\* What it returns of them.
Returned(c, bytes) ==
  CASE c.op = "num" -> <<Word(SubSeq(bytes, 1, WordLength))>>
    [] c.op = "len" -> <<Word(SubSeq(bytes, WordLength + 1, 2 * WordLength))>>
    [] c.op \in {"wr", "rd"} -> bytes

\* The characters behind the command: a separator, if there are data, the data
\* and EOL.
Rest(n) == IF n = 0 THEN 1 ELSE 2 * n + 2

ReadAnswer ==
  LET n == AnswerLength(call)
  IN  /\ at = "answer"
      /\ Take(Rest(n))
      /\ Return(Returned(call, geth(SubSeq(toDriver, 2, 2 * n + 1))))

\* Mutants of ReadRefusal: there is one attempt too many, the EOL is not read,
\* the attempt is not counted.
ReadRefusalOnceMore ==
  /\ at = "refused"
  /\ Take(1)
  /\ IF attempt <= DISK_RETRY
     THEN at' = "send" /\ attempt' = attempt + 1 /\ UNCHANGED <<call, result>>
     ELSE Return(Device!DISK_FAILURE)

ReadRefusalNotEOL ==
  /\ at = "refused"
  /\ Take(0)
  /\ IF attempt < DISK_RETRY
     THEN at' = "send" /\ attempt' = attempt + 1 /\ UNCHANGED <<call, result>>
     ELSE Return(Device!DISK_FAILURE)

ReadRefusalForever ==
  /\ at = "refused"
  /\ Take(1)
  /\ at' = "send"
  /\ UNCHANGED <<call, attempt, result>>

\* EOL, and the loop goes on or ends.
ReadRefusal ==
  /\ at = "refused"
  /\ Take(1)
  /\ IF attempt < DISK_RETRY
     THEN at' = "send" /\ attempt' = attempt + 1 /\ UNCHANGED <<call, result>>
     ELSE Return(Device!DISK_FAILURE)

Driver == Send \/ ReadCommand \/ ReadAnswer \/ ReadRefusal

-----------------------------------------------------------------------------
(* The server: one iteration of its loop for every line *)

\* The server takes the next line and answers with these characters.
Answer(characters) ==
  /\ toServer' = Tail(toServer)
  /\ toDriver' = toDriver \o characters \o <<EOL>>
  /\ UNCHANGED <<call, attempt, at, result, up>>

Okay(data) == ACK_OKAY \o <<Space>> \o puth(data)

\* A request for what this command does has come.
Requested(command) == up /\ toServer # <<>> /\ toServer[1][1] = puth(command)

\* The address in the request.
address == unpack(geth(toServer[1][2]))

conf ==
  /\ Requested(Conf)
  /\ Answer(Okay(Bytes(block_num) \o Bytes(block_len)))
  /\ UNCHANGED store

\* os.write may write less, which is then refused.
wr ==
  LET data == geth(toServer[1][3])
  IN  /\ Requested(Wr)
      /\ address \in DOMAIN store
      /\ Len(data) = block_len
      /\ \E n \in 0..block_len :
           /\ store' = [store EXCEPT ![address] = Device!Overwritten(@, data, n)]
           /\ Answer(IF n = block_len THEN ACK_OKAY ELSE ACK_FAIL)

\* os.read may read less, which is refused.
rd ==
  /\ Requested(Rd)
  /\ address \in DOMAIN store
  /\ \E answer \in {Okay(store[address]), ACK_FAIL} : Answer(answer)
  /\ UNCHANGED store

\* An address past the end, or data that are not a block.
Refusal ==
  /\ Requested(Wr) \/ Requested(Rd)
  /\ \/ address >= block_num
     \/ Requested(Wr) /\ Len(geth(toServer[1][3])) # block_len
  /\ Answer(ACK_FAIL)
  /\ UNCHANGED store

\* os.lseek to a negative address raises an exception, which nothing handles.
Death ==
  /\ Requested(Wr) \/ Requested(Rd)
  /\ address < 0
  /\ Requested(Wr) => Len(geth(toServer[1][3])) = block_len
  /\ up' = FALSE
  /\ toServer' = Tail(toServer)
  /\ UNCHANGED <<store, call, attempt, at, result, toDriver>>

Server == conf \/ wr \/ rd \/ Refusal \/ Death

-----------------------------------------------------------------------------

Next == (\E c \in Request : Begin(c)) \/ Driver \/ Server

Spec == Init /\ [][Next]_vars /\ WF_vars(Driver) /\ WF_vars(Server)

-----------------------------------------------------------------------------
(* Properties *)

(***************************************************************************)
(* Digits stay digits: what is on the line is what the two can read, and   *)
(* the blocks remain blocks.                                               *)
(***************************************************************************)
DiskTypeOK ==
  /\ store \in [0..(block_num - 1) -> [1..block_len -> Byte]]
  /\ call \in Request \cup {Device!NoCall}
  /\ attempt \in 1..DISK_RETRY
  /\ at \in {"idle", "send", "command", "answer", "refused"}
  /\ result \in Seq(Int)
  /\ \A i \in DOMAIN toServer : \A field \in DOMAIN toServer[i] :
       toServer[i][field] \in Seq(0..(Radix - 1))
  /\ toDriver \in Seq(0..EOL)
  /\ up \in BOOLEAN

(***************************************************************************)
(* The driver counts characters and never looks for EOL or ' '.  Whatever  *)
(* has been refused and tried again, each call leaves the line empty, so   *)
(* that the next does not read the rest of this one's answer; and in the   *)
(* middle of an answer exactly the rest of it is there.                    *)
(***************************************************************************)
LineInSync ==
  /\ at \in {"idle", "send"} => toServer = <<>> /\ toDriver = <<>>
  /\ at = "command" =>
       IF up
       THEN Len(toServer) = 1 <=> toDriver = <<>>
       ELSE toServer = <<>> /\ toDriver = <<>>
  /\ at \in {"answer", "refused"} => toServer = <<>> /\ Last(toDriver) = EOL
  /\ at = "answer" => Len(toDriver) = Rest(AnswerLength(call))
  /\ at = "refused" => Len(toDriver) = 1

(***************************************************************************)
(* The driver and its server are a block device as disk.h describes it: a  *)
(* successful write has stored all of its data, a read returns the block   *)
(* at the very address it was given, and a call fails only when it has     *)
(* been refused DISK_RETRY times (disk.h:16-24).                           *)
(***************************************************************************)
ImplementsBlockDevice == Device!DeviceSpec

(***************************************************************************)
(* As long as the server runs, every call returns: three refusals end it,  *)
(* and the driver never waits for a character that nobody sends.           *)
(***************************************************************************)
CallsReturn == []up => (at # "idle" ~> at = "idle")
=============================================================================
