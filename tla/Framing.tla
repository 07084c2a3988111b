------------------------------- MODULE Framing -------------------------------
(***************************************************************************)
(* One message over a transport: how send() cuts it into fragments and how *)
(* recv() puts it together (transports/usb/usb.ts with packet.ts,          *)
(* ble/ble.ts, nfc/nfc.ts).  The authenticator at the other end is not     *)
(* part of the program; it cuts its responses and joins its requests by    *)
(* the same format, so the sender stands for send() and for the            *)
(* authenticator's responses, the receiver for recv().                     *)
(*                                                                         *)
(* Bytes are the positions of the message they come from.  A fragment says *)
(* where in the message its payload starts and how long it is; on usb a    *)
(* packet has a fixed size, so the last one is padded.                     *)
(***************************************************************************)
EXTENDS Naturals, Sequences

CONSTANTS
  Kinds,       \* the transports considered
  First,       \* payload bytes of the first fragment, by transport
  Rest,        \* payload bytes of each later fragment
  Modulus,     \* sequence numbers are sent modulo this: 0x80
  Sizes,       \* sizes of the message
  MaxForeign   \* bound: packets of other programs

ASSUME ConstantsAssumption ==
  /\ Kinds \subseteq {"usb", "ble", "nfc"}
  /\ First \in [Kinds -> Nat \ {0}]
  /\ Rest \in [Kinds -> Nat \ {0}]
  /\ Modulus \in Nat \ {0}
  /\ Sizes \subseteq Nat
  /\ MaxForeign \in Nat

VARIABLES
  kind,       \* the transport
  size,       \* payload.data.length
  (* send() *)
  offset,     \* bytes cut off so far
  sent,       \* fragments sent
  line,       \* fragments under way, and received but not read
  (* recv() *)
  read,       \* fragments read
  filled,     \* recv's offset: bytes of the result written so far
  intact,     \* history: each was written where the sender took it from
  outcome,    \* "reading", "returned" or "failed"
  (* what came between *)
  lost,       \* history: a notification was lost
  foreign,    \* packets of other programs
  late        \* history: recv timed out before send() was done

sendVars == <<offset, sent>>
recvVars == <<read, filled, intact, outcome>>
vars == <<kind, size, sendVars, recvVars, line, lost, foreign, late>>

Least(a, b) == IF a <= b THEN a ELSE b

Fragments == [mine : BOOLEAN, first : BOOLEAN, last : BOOLEAN,
              seq : Nat, from : Nat, length : Nat]

(* An nfc response without data is not queued (CCID.send): a message has at  *)
(* least its status byte.  A usb or ble message may be empty.                *)
Init ==
  /\ kind \in Kinds
  /\ size \in Sizes
  /\ kind = "nfc" => size > 0
  /\ offset = 0
  /\ sent = 0
  /\ line = << >>
  /\ read = 0
  /\ filled = 0
  /\ intact = TRUE
  /\ outcome = "reading"
  /\ lost = FALSE
  /\ foreign = 0
  /\ late = FALSE

-----------------------------------------------------------------------------
(* send() *)

Capacity == IF sent = 0 THEN First[kind] ELSE Rest[kind]

SendDone == sent > 0 /\ offset >= size

(* packetSequence & 0x7f: the n-th continuation fragment, counted from 0. *)
SequenceByte(n) == n % Modulus

(* The next fragment, with a payload of the given length. *)
NextFragment(length) ==
  [mine |-> TRUE, first |-> sent = 0, last |-> FALSE,
   seq |-> IF sent = 0 THEN 0 ELSE SequenceByte(sent - 1),
   from |-> offset, length |-> length]

Cut ==
  /\ ~SendDone
  /\ offset' = Least(size, offset + Capacity)
  /\ sent' = sent + 1
  /\ UNCHANGED <<kind, size, recvVars, foreign, late>>

(* Usb.send: packets of a fixed size. *)
SendUsb ==
  /\ kind = "usb"
  /\ Cut
  /\ line' = Append(line, NextFragment(Capacity))
  /\ UNCHANGED lost

(* Ble.send: the last fragment is as long as what is left.  A notification   *)
(* is not acknowledged and may be lost.                                      *)
SendBle ==
  /\ kind = "ble"
  /\ Cut
  /\ \/ /\ line' = Append(line, NextFragment(Least(Capacity, size - offset)))
        /\ UNCHANGED lost
     \/ /\ lost' = TRUE
        /\ UNCHANGED line

(* Mutated form of LastApdu: a message that fills its last APDU exactly. *)
LastApduStrict == offset + Capacity > size

(* Mutated form of LastApdu: off by one, an APDU too early. *)
LastApduEarly == offset + Capacity + 1 >= size

(* The class of an APDU: the last one is a command, the others are chained. *)
LastApdu == offset + Capacity >= size

(* Nfc.send *)
SendNfc ==
  /\ kind = "nfc"
  /\ Cut
  /\ line' = Append(line, [NextFragment(Least(Capacity, size - offset))
                             EXCEPT !.last = LastApdu])
  /\ UNCHANGED lost

(* Another program's packet, on its own channel.  Error packets, which recv  *)
(* takes from any channel, are in CtapTransaction.                           *)
ForeignPacket ==
  /\ kind = "usb"
  /\ foreign < MaxForeign
  /\ foreign' = foreign + 1
  /\ line' = Append(line, [mine |-> FALSE, first |-> TRUE, last |-> FALSE,
                           seq |-> 0, from |-> 0, length |-> First[kind]])
  /\ UNCHANGED <<kind, size, sendVars, recvVars, lost, late>>

-----------------------------------------------------------------------------
(* recv() *)

Incoming == Head(line)

Reads ==
  /\ outcome = "reading"
  /\ line # << >>
  /\ line' = Tail(line)
  /\ read' = read + 1
  /\ UNCHANGED <<kind, size, sendVars, lost, foreign, late>>

Throws == outcome' = "failed" /\ UNCHANGED <<filled, intact>>

(* Mutated form of Copied: the end of the result does not stop the copy. *)
CopiedWhole(length) == filled + length

(* data.copy(result, offset) stops at the end of the result. *)
Copied(length) == Least(size, filled + length)

(* The payload is written at recv's offset; the loop ends when the result,   *)
(* whose length the first fragment gave, is full.                            *)
Write(f) ==
  /\ filled' = Copied(f.length)
  /\ intact' = (intact /\ f.from = filled)
  /\ outcome' = IF filled' >= size THEN "returned" ELSE "reading"

(* A continuation fragment is the next one: recv compares with its own       *)
(* counter, which is not masked.                                             *)
InSequence(f) == ~f.first /\ f.seq = read - 1

(* Usb.recv *)
RecvUsb ==
  /\ kind = "usb"
  /\ Reads
  /\ IF Incoming.mine /\ (read = 0 \/ InSequence(Incoming)) THEN Write(Incoming) ELSE Throws

(* Ble.recv.  A continuation fragment in the place of the first is returned  *)
(* as a message with the sequence number for its command, which the cli      *)
(* rejects.                                                                  *)
RecvBle ==
  /\ kind = "ble"
  /\ Reads
  /\ IF (IF read = 0 THEN Incoming.first ELSE InSequence(Incoming))
     THEN Write(Incoming) ELSE Throws

(* Nfc.recv: the parts are joined until the status word is 9000. *)
RecvNfc ==
  /\ kind = "nfc"
  /\ Reads
  /\ filled' = filled + Incoming.length
  /\ intact' = (intact /\ Incoming.from = filled)
  /\ outcome' = IF Incoming.last THEN "returned" ELSE "reading"

(* Mutated form of RecvTimeout: only a first fragment is waited for. *)
RecvTimeoutFirst ==
  /\ outcome = "reading"
  /\ line = << >>
  /\ read = 0
  /\ outcome' = "failed"
  /\ late' = (late \/ ~SendDone)
  /\ UNCHANGED <<kind, size, sendVars, read, filled, intact, line, lost, foreign>>

(* No fragment for 30 s. *)
RecvTimeout ==
  /\ outcome = "reading"
  /\ line = << >>
  /\ outcome' = "failed"
  /\ late' = (late \/ ~SendDone)
  /\ UNCHANGED <<kind, size, sendVars, read, filled, intact, line, lost, foreign>>

Recv == RecvUsb \/ RecvBle \/ RecvNfc \/ RecvTimeout

Next == SendUsb \/ SendBle \/ SendNfc \/ ForeignPacket \/ Recv

Spec == Init /\ [][Next]_vars

(* recv() runs when a fragment is there or its timeout is over; nothing is   *)
(* assumed of the sender.                                                    *)
FairSpec == Spec /\ WF_vars(Recv)

-----------------------------------------------------------------------------
TypeOK ==
  /\ kind \in Kinds
  /\ size \in Sizes
  /\ offset \in 0..size
  /\ sent \in Nat
  /\ line \in Seq(Fragments)
  /\ read \in Nat
  /\ filled \in 0..size
  /\ intact \in BOOLEAN
  /\ outcome \in {"reading", "returned", "failed"}
  /\ lost \in BOOLEAN
  /\ foreign \in 0..MaxForeign
  /\ late \in BOOLEAN

(* What recv() returns is the message that was sent, every byte of it in its *)
(* place, even if notifications were lost or another program's packets came  *)
(* between.                                                                  *)
Intact == outcome = "returned" => intact /\ filled = size

(* The longest message whose continuation fragments all have different       *)
(* sequence numbers.  recv() does not wrap its counter where send() does.    *)
Unwrapped == kind = "nfc" \/ size <= First[kind] + Modulus * Rest[kind]

(* recv() fails only because of what came between: a message no longer than  *)
(* that, with no fragment lost, late or foreign, is received.                *)
ShortMessagesArrive ==
  outcome = "failed" => lost \/ late \/ foreign > 0 \/ ~Unwrapped

(* recv() always comes to an end: the message that comes in is finite (an    *)
(* endless chain of 61xx responses is not, see CtapTransaction).             *)
RecvEnds == <>(outcome # "reading")
=============================================================================
