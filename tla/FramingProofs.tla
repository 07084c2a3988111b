---------------------------- MODULE FramingProofs ----------------------------
(***************************************************************************)
(* Theorems about Framing: for every size of message, of fragment and of   *)
(* sequence number, what recv() returns is the message.                    *)
(*                                                                         *)
(* Intact is not inductive.  The invariant follows the bytes from the      *)
(* sender to the result: each fragment under way starts where the one      *)
(* before it ends, the next one recv reads starts where the result stands, *)
(* and the next one cut starts where the last one ends.  Once a            *)
(* notification was lost there are gaps, and "where" becomes "not before"; *)
(* a gap is never closed again, so the result cannot fill up behind one.   *)
(***************************************************************************)
EXTENDS Framing, TLAPS

(* One fragment after the other: without a gap, unless a notification was lost. *)
Follows(a, b) == a <= b /\ (~lost => a = b)

EndOf(f) == Least(size, f.from + f.length)

(* Fragments under way follow each other. *)
Joined ==
  \A i \in 1..(Len(line) - 1) :
    line[i].mine /\ line[i + 1].mine => Follows(EndOf(line[i]), line[i + 1].from)

(* The next fragment to be cut follows the last one under way. *)
CutFollows ==
  Len(line) > 0 /\ line[Len(line)].mine => Follows(EndOf(line[Len(line)]), offset)

(* The next byte recv gets follows what it has. *)
ReadFollows ==
  outcome = "reading" =>
    IF Len(line) = 0 THEN Follows(filled, offset)
    ELSE line[1].mine => Follows(filled, line[1].from)

(* Without padding a fragment is a part of the message; nobody else uses a  *)
(* ble or nfc connection; only the end of the message is marked last.       *)
Parts ==
  kind # "usb" =>
    \A i \in 1..Len(line) :
      /\ line[i].mine
      /\ line[i].from + line[i].length <= size
      /\ kind = "nfc" /\ line[i].last => line[i].from + line[i].length = size

(* A result with a gap stays behind what is to come. *)
GapStays ==
  outcome = "reading" /\ ~intact =>
    /\ lost
    /\ IF Len(line) = 0 THEN filled < offset ELSE filled < line[1].from

(* Only notifications get lost. *)
LossOnBle == lost => kind = "ble"

BytesInv ==
  /\ TypeOK /\ LossOnBle
  /\ Joined /\ CutFollows /\ ReadFollows /\ Parts /\ GapStays
  /\ Intact

-----------------------------------------------------------------------------
(* Queues and arithmetic *)

LEMMA AppendFacts ==
  ASSUME NEW S, NEW s \in Seq(S), NEW e \in S
  PROVE  /\ Append(s, e) \in Seq(S)
         /\ Len(Append(s, e)) = Len(s) + 1
         /\ Len(s) \in Nat
         /\ \A i \in 1..Len(s) : Append(s, e)[i] = s[i]
         /\ Append(s, e)[Len(s) + 1] = e
  OBVIOUS

LEMMA TailFacts ==
  ASSUME NEW S, NEW s \in Seq(S), s # << >>
  PROVE  /\ Head(s) = s[1] /\ s[1] \in S
         /\ Len(s) \in Nat \ {0}
         /\ Tail(s) \in Seq(S)
         /\ Len(Tail(s)) = Len(s) - 1
         /\ \A i \in 1..(Len(s) - 1) : Tail(s)[i] = s[i + 1]
  OBVIOUS

LEMMA SequenceByteType ==
  ASSUME NEW n \in Nat
  PROVE  SequenceByte(n) \in Nat
  BY ConstantsAssumption DEF ConstantsAssumption, SequenceByte

-----------------------------------------------------------------------------
(* Where the bytes are *)

LEMMA InitBytes ==
  ASSUME Init
  PROVE  BytesInv
<1>1. TypeOK
  <2>1. size \in Nat
    BY ConstantsAssumption DEF ConstantsAssumption, Init
  <2>2. line \in Seq(Fragments)
    BY DEF Init
  <2>3. intact \in BOOLEAN /\ lost \in BOOLEAN /\ late \in BOOLEAN
    BY DEF Init
  <2>4. /\ offset \in 0..size /\ filled \in 0..size /\ foreign \in 0..MaxForeign
        /\ sent \in Nat /\ read \in Nat
    BY <2>1, ConstantsAssumption DEF ConstantsAssumption, Init
  <2> QED
    BY <2>2, <2>3, <2>4 DEF Init, TypeOK
<1>2. /\ LossOnBle
      /\ Joined /\ CutFollows /\ ReadFollows /\ Parts /\ GapStays /\ Intact
  BY <1>1 DEF Init, TypeOK, LossOnBle, Joined, CutFollows, ReadFollows, Parts, GapStays, Intact, Follows
<1> QED
  BY <1>1, <1>2 DEF BytesInv

(* What a fragment of the sender looks like. *)
LEMMA CutFacts ==
  ASSUME TypeOK, Cut
  PROVE  /\ Capacity \in Nat \ {0}
         /\ size \in Nat /\ offset \in Nat /\ offset <= size
         /\ offset' = Least(size, offset + Capacity)
         /\ offset' \in 0..size
         /\ sent' \in Nat
         /\ kind' = kind /\ size' = size
         /\ filled' = filled /\ intact' = intact /\ outcome' = outcome
         /\ read' = read /\ foreign' = foreign /\ late' = late
<1>1. size \in Nat /\ offset \in 0..size /\ sent \in Nat
  BY ConstantsAssumption DEF ConstantsAssumption, TypeOK
<1>2. Capacity \in Nat \ {0}
  BY ConstantsAssumption DEF ConstantsAssumption, TypeOK, Capacity
<1>3. offset' = Least(size, offset + Capacity) /\ sent' = sent + 1
  BY DEF Cut
<1>4. offset' \in 0..size
  BY <1>1, <1>2, <1>3 DEF Least
<1>5. UNCHANGED <<kind, size, recvVars, foreign, late>>
  BY DEF Cut
<1> QED
  BY <1>1, <1>2, <1>3, <1>4, <1>5 DEF recvVars

LEMMA FragmentType ==
  ASSUME TypeOK, NEW length \in Nat
  PROVE  /\ NextFragment(length) \in Fragments
         /\ NextFragment(length).mine
         /\ NextFragment(length).from = offset
         /\ NextFragment(length).length = length
         /\ ~NextFragment(length).last
<1>1. offset \in Nat /\ sent \in Nat
  BY ConstantsAssumption DEF ConstantsAssumption, TypeOK
<1>2. sent # 0 => SequenceByte(sent - 1) \in Nat
  BY <1>1, SequenceByteType
<1> QED
  BY <1>1, <1>2 DEF NextFragment, Fragments

(***************************************************************************)
(* A fragment that is appended where the last one ends, and that ends at   *)
(* the new offset, keeps every part of the invariant.                      *)
(***************************************************************************)
LEMMA AppendKeeps ==
  ASSUME BytesInv, Cut, NEW f \in Fragments, line' = Append(line, f), lost' = lost,
         f.mine, f.from = offset, EndOf(f) = offset',
         kind # "usb" => f.from + f.length <= size,
         kind = "nfc" /\ f.last => f.from + f.length = size
  PROVE  BytesInv'
<1>1. TypeOK
  BY DEF BytesInv
<1> USE CutFacts, <1>1
<1>2. line \in Seq(Fragments) /\ filled \in Nat /\ f.from \in Nat /\ f.length \in Nat
  BY DEF TypeOK, Fragments
<1>3. /\ line' \in Seq(Fragments)
      /\ Len(line') = Len(line) + 1 /\ Len(line) \in Nat
      /\ \A i \in 1..Len(line) : line'[i] = line[i]
      /\ line'[Len(line) + 1] = f
  BY <1>2, AppendFacts
<1>4. TypeOK'
  BY <1>3 DEF TypeOK
<1>5. \A g : EndOf(g)' = EndOf(g)
  BY DEF EndOf
<1>6. Joined'
  <2> SUFFICES ASSUME NEW i \in 1..(Len(line') - 1), line'[i].mine, line'[i + 1].mine
               PROVE  Follows(EndOf(line'[i]), line'[i + 1].from)
    BY <1>3 DEF Joined, Follows, EndOf
  <2>1. CASE i = Len(line)
    BY <2>1, <1>3 DEF BytesInv, CutFollows
  <2>2. CASE i < Len(line)
    BY <2>2, <1>3 DEF BytesInv, Joined
  <2> QED
    BY <2>1, <2>2, <1>3
<1>7. CutFollows'
  BY <1>2, <1>3, <1>5 DEF CutFollows, Follows
<1>8. ReadFollows'
  <2>1. CASE Len(line) = 0
    BY <2>1, <1>3 DEF BytesInv, ReadFollows, Follows
  <2>2. CASE Len(line) > 0
    BY <2>2, <1>3 DEF BytesInv, ReadFollows, Follows
  <2> QED
    BY <2>1, <2>2, <1>3
<1>9. Parts'
  <2> SUFFICES ASSUME kind # "usb", NEW i \in 1..(Len(line) + 1)
               PROVE  /\ line'[i].mine
                      /\ line'[i].from + line'[i].length <= size
                      /\ kind = "nfc" /\ line'[i].last
                           => line'[i].from + line'[i].length = size
    BY <1>3 DEF Parts
  <2>1. CASE i = Len(line) + 1
    BY <2>1, <1>3
  <2>2. CASE i \in 1..Len(line)
    BY <2>2, <1>3 DEF BytesInv, Parts
  <2> QED
    BY <2>1, <2>2, <1>3
<1>10. GapStays'
  <2>1. CASE Len(line) = 0
    BY <2>1, <1>3 DEF BytesInv, GapStays
  <2>2. CASE Len(line) > 0
    BY <2>2, <1>3 DEF BytesInv, GapStays
  <2> QED
    BY <2>1, <2>2, <1>3
<1>11. Intact' /\ LossOnBle'
  BY DEF BytesInv, Intact, LossOnBle
<1> QED
  BY <1>4, <1>6, <1>7, <1>8, <1>9, <1>10, <1>11 DEF BytesInv

LEMMA SendUsbBytes ==
  ASSUME BytesInv, SendUsb
  PROVE  BytesInv'
<1>1. TypeOK /\ Cut /\ kind = "usb"
  BY DEF BytesInv, SendUsb
<1> DEFINE f == NextFragment(Capacity)
<1>2. Capacity \in Nat /\ size \in Nat /\ offset \in Nat
  BY <1>1, CutFacts
<1>3. f \in Fragments /\ f.mine /\ f.from = offset /\ f.length = Capacity
  BY <1>1, <1>2, FragmentType
<1>4. EndOf(f) = offset'
  BY <1>1, <1>3, CutFacts DEF EndOf
<1>5. line' = Append(line, f) /\ lost' = lost
  BY DEF SendUsb
<1> QED
  BY <1>1, <1>3, <1>4, <1>5, AppendKeeps

(* A last fragment as long as what is left. *)
LEMMA ExactCut ==
  ASSUME TypeOK, Cut
  PROVE  /\ Least(Capacity, size - offset) \in Nat
         /\ offset + Least(Capacity, size - offset) <= size
         /\ offset' = offset + Least(Capacity, size - offset)
         /\ LastApdu => offset + Least(Capacity, size - offset) = size
<1> DEFINE c == Capacity
<1>1. c \in Nat /\ size \in Nat /\ offset \in Nat /\ offset <= size
  BY CutFacts
<1>2. offset' = Least(size, offset + c)
  BY CutFacts
<1>3. LastApdu => offset + c >= size
  BY DEF LastApdu
<1> HIDE DEF c
<1>4. /\ Least(c, size - offset) \in Nat
      /\ offset + Least(c, size - offset) <= size
      /\ offset' = offset + Least(c, size - offset)
      /\ LastApdu => offset + Least(c, size - offset) = size
  BY <1>1, <1>2, <1>3 DEF Least
<1> QED
  BY <1>4 DEF c

LEMMA SendBleBytes ==
  ASSUME BytesInv, SendBle
  PROVE  BytesInv'
<1>1. TypeOK /\ Cut /\ kind = "ble"
  BY DEF BytesInv, SendBle
<1> DEFINE length == Least(Capacity, size - offset)
           f == NextFragment(length)
<1>2. /\ length \in Nat /\ offset + length <= size /\ offset' = offset + length
      /\ size \in Nat /\ offset \in Nat
  BY <1>1, ExactCut, CutFacts
<1> HIDE DEF length
<1>3. f \in Fragments /\ f.mine /\ f.from = offset /\ f.length = length /\ ~f.last
  BY <1>1, <1>2, FragmentType
<1>4. EndOf(f) = offset'
  BY <1>2, <1>3 DEF EndOf, Least
<1>5. CASE line' = Append(line, f) /\ UNCHANGED lost
  BY <1>1, <1>2, <1>3, <1>4, <1>5, AppendKeeps DEF TypeOK
<1>6. CASE lost' = TRUE /\ UNCHANGED line
  <2>1. /\ kind' = kind /\ size' = size /\ filled' = filled /\ intact' = intact
        /\ outcome' = outcome /\ read' = read /\ foreign' = foreign /\ late' = late
        /\ offset' \in 0..size /\ sent' \in Nat /\ line' = line
    BY <1>1, <1>6, CutFacts
  <2>2. offset <= offset'
    BY <1>2
  <2>3. TypeOK'
    BY <1>1, <1>6, <2>1 DEF TypeOK
  <2>4. Joined' /\ Parts' /\ Intact' /\ LossOnBle'
    BY <1>1, <1>6, <2>1 DEF BytesInv, Joined, Parts, Intact, LossOnBle, Follows, EndOf
  <2>5. CutFollows'
    <3> SUFFICES ASSUME Len(line) > 0, line[Len(line)].mine
                 PROVE  EndOf(line[Len(line)]) <= offset'
      BY <1>1, <1>6, <2>1 DEF CutFollows, Follows, EndOf
    <3>1. line[Len(line)] \in Fragments
      BY <1>1 DEF TypeOK
    <3>2. EndOf(line[Len(line)]) \in Nat
      BY <1>2, <3>1 DEF EndOf, Least, Fragments
    <3> QED
      BY <1>2, <2>2, <3>2 DEF BytesInv, CutFollows, Follows
  <2>6. filled \in Nat
    BY <1>1 DEF TypeOK
  <2>7. ReadFollows'
    BY <1>1, <1>2, <1>6, <2>1, <2>2, <2>6 DEF BytesInv, ReadFollows, Follows
  <2>8. GapStays'
    BY <1>1, <1>2, <1>6, <2>1, <2>2, <2>6 DEF BytesInv, GapStays
  <2> QED
    BY <2>3, <2>4, <2>5, <2>7, <2>8 DEF BytesInv
<1> QED
  BY <1>5, <1>6 DEF SendBle, length

LEMMA SendNfcBytes ==
  ASSUME BytesInv, SendNfc
  PROVE  BytesInv'
<1>1. TypeOK /\ Cut /\ kind = "nfc"
  BY DEF BytesInv, SendNfc
<1> DEFINE length == Least(Capacity, size - offset)
           f == [NextFragment(length) EXCEPT !.last = LastApdu]
<1>2. /\ length \in Nat /\ offset + length <= size /\ offset' = offset + length
      /\ LastApdu => offset + length = size
      /\ size \in Nat /\ offset \in Nat
  BY <1>1, ExactCut, CutFacts
<1>3. line' = Append(line, f) /\ lost' = lost
  BY DEF SendNfc
<1> HIDE DEF length
<1>4. LastApdu \in BOOLEAN
  BY DEF LastApdu
<1>5. NextFragment(length) \in Fragments /\ NextFragment(length).mine
      /\ NextFragment(length).from = offset /\ NextFragment(length).length = length
  BY <1>1, <1>2, FragmentType
<1>6. /\ f \in Fragments /\ f.mine /\ f.from = offset /\ f.length = length
      /\ f.last = LastApdu
  BY <1>4, <1>5 DEF Fragments
<1> HIDE DEF f
<1>7. EndOf(f) = offset'
  BY <1>2, <1>6 DEF EndOf, Least
<1> QED
  BY <1>1, <1>2, <1>3, <1>6, <1>7, AppendKeeps

LEMMA ForeignBytes ==
  ASSUME BytesInv, ForeignPacket
  PROVE  BytesInv'
<1> DEFINE f == [mine |-> FALSE, first |-> TRUE, last |-> FALSE,
                 seq |-> 0, from |-> 0, length |-> First[kind]]
<1>1. /\ TypeOK /\ kind = "usb" /\ line' = Append(line, f)
      /\ kind' = kind /\ size' = size /\ offset' = offset /\ sent' = sent
      /\ read' = read /\ filled' = filled /\ intact' = intact /\ outcome' = outcome
      /\ lost' = lost /\ late' = late
      /\ foreign < MaxForeign /\ foreign' = foreign + 1
  BY DEF BytesInv, ForeignPacket, sendVars, recvVars
<1>2. f \in Fragments /\ ~f.mine
  BY <1>1, ConstantsAssumption DEF ConstantsAssumption, TypeOK, Fragments
<1> HIDE DEF f
<1>3. /\ line' \in Seq(Fragments)
      /\ Len(line') = Len(line) + 1 /\ Len(line) \in Nat
      /\ \A i \in 1..Len(line) : line'[i] = line[i]
      /\ line'[Len(line) + 1] = f
  BY <1>1, <1>2, AppendFacts DEF TypeOK
<1>4. foreign' \in 0..MaxForeign
  BY <1>1, ConstantsAssumption DEF ConstantsAssumption, TypeOK
<1>5. TypeOK'
  BY <1>1, <1>3, <1>4 DEF TypeOK
<1>6. Joined'
  <2> SUFFICES ASSUME NEW i \in 1..(Len(line') - 1), line'[i].mine, line'[i + 1].mine
               PROVE  Follows(EndOf(line'[i]), line'[i + 1].from)
    BY <1>1, <1>3 DEF Joined, Follows, EndOf
  <2>1. i < Len(line)
    BY <1>2, <1>3
  <2> QED
    BY <2>1, <1>3 DEF BytesInv, Joined
<1>7. CutFollows' /\ Parts' /\ Intact'
  BY <1>1, <1>2, <1>3 DEF BytesInv, CutFollows, Parts, Intact
<1>8. ReadFollows'
  <2>1. CASE Len(line) = 0
    BY <2>1, <1>1, <1>2, <1>3 DEF ReadFollows
  <2>2. CASE Len(line) > 0
    BY <2>2, <1>1, <1>3 DEF BytesInv, ReadFollows, Follows
  <2> QED
    BY <2>1, <2>2, <1>3
<1>9. GapStays' /\ LossOnBle'
  BY <1>1 DEF BytesInv, GapStays, LossOnBle
<1> QED
  BY <1>5, <1>6, <1>7, <1>8, <1>9 DEF BytesInv

-----------------------------------------------------------------------------
(* recv() *)

(* What every read leaves behind, whatever becomes of the fragment. *)
LEMMA ReadFacts ==
  ASSUME BytesInv, Reads
  PROVE  /\ TypeOK
         /\ size \in Nat /\ offset \in Nat /\ offset <= size
         /\ filled \in Nat /\ filled <= size
         /\ Incoming = line[1] /\ line[1] \in Fragments
         /\ line[1].from \in Nat /\ line[1].length \in Nat
         /\ Len(line) \in Nat \ {0}
         /\ line' \in Seq(Fragments) /\ Len(line') = Len(line) - 1
         /\ \A i \in 1..(Len(line) - 1) : line'[i] = line[i + 1]
         /\ outcome = "reading" /\ read' \in Nat
         /\ kind' = kind /\ size' = size /\ offset' = offset /\ sent' = sent
         /\ lost' = lost /\ foreign' = foreign /\ late' = late
<1>1. TypeOK /\ line # << >> /\ line' = Tail(line) /\ outcome = "reading" /\ read' = read + 1
  BY DEF BytesInv, Reads
<1>2. line \in Seq(Fragments) /\ read \in Nat
  BY <1>1 DEF TypeOK
<1>3. /\ Head(line) = line[1] /\ line[1] \in Fragments
      /\ Len(line) \in Nat \ {0}
      /\ Tail(line) \in Seq(Fragments) /\ Len(Tail(line)) = Len(line) - 1
      /\ \A i \in 1..(Len(line) - 1) : Tail(line)[i] = line[i + 1]
  BY <1>1, <1>2, TailFacts
<1>4. size \in Nat /\ offset \in 0..size /\ filled \in 0..size
  BY <1>1, ConstantsAssumption DEF ConstantsAssumption, TypeOK
<1>5. line[1].from \in Nat /\ line[1].length \in Nat
  BY <1>3 DEF Fragments
<1>6. UNCHANGED <<kind, size, sendVars, lost, foreign, late>>
  BY DEF Reads
<1> QED
  BY <1>1, <1>2, <1>3, <1>4, <1>5, <1>6 DEF Incoming, sendVars

(* The fragments left under way still follow each other. *)
LEMMA ReadKeeps ==
  ASSUME BytesInv, Reads
  PROVE  Joined' /\ CutFollows' /\ Parts' /\ LossOnBle'
<1> USE ReadFacts
<1>1. Joined'
  <2> SUFFICES ASSUME NEW i \in 1..(Len(line') - 1), line'[i].mine, line'[i + 1].mine
               PROVE  Follows(EndOf(line'[i]), line'[i + 1].from)
    BY DEF Joined, Follows, EndOf
  <2>1. /\ i \in 1..(Len(line) - 1) /\ i + 1 \in 1..(Len(line) - 1)
        /\ line'[i] = line[i + 1] /\ line'[i + 1] = line[(i + 1) + 1]
    BY SMTT(20)
  <2> QED
    BY <2>1 DEF BytesInv, Joined
<1>2. CutFollows'
  <2> SUFFICES ASSUME Len(line') > 0, line'[Len(line')].mine
               PROVE  Follows(EndOf(line'[Len(line')]), offset)
    BY DEF CutFollows, Follows, EndOf
  <2>1. line'[Len(line')] = line[Len(line)]
    OBVIOUS
  <2> QED
    BY <2>1 DEF BytesInv, CutFollows
<1>3. Parts'
  <2> SUFFICES ASSUME kind # "usb", NEW i \in 1..Len(line')
               PROVE  /\ line'[i].mine
                      /\ line'[i].from + line'[i].length <= size
                      /\ kind = "nfc" /\ line'[i].last
                           => line'[i].from + line'[i].length = size
    BY DEF Parts
  <2>1. i + 1 \in 1..Len(line) /\ line'[i] = line[i + 1]
    OBVIOUS
  <2> QED
    BY <2>1 DEF BytesInv, Parts
<1>4. LossOnBle'
  BY DEF BytesInv, LossOnBle
<1> QED
  BY <1>1, <1>2, <1>3, <1>4

(* What recv has, together with the fragment it reads, reaches to where the *)
(* next one starts.                                                         *)
LEMMA NextFollows ==
  ASSUME BytesInv, Reads, line[1].mine
  PROVE  /\ Follows(filled, line[1].from)
         /\ Len(line') = 0 => Follows(EndOf(line[1]), offset)
         /\ Len(line') > 0 /\ line'[1].mine => Follows(EndOf(line[1]), line'[1].from)
<1> USE ReadFacts
<1>1. Follows(filled, line[1].from)
  BY DEF BytesInv, ReadFollows
<1>2. Len(line') = 0 => Follows(EndOf(line[1]), offset)
  BY DEF BytesInv, CutFollows
<1>3. ASSUME Len(line') > 0, line'[1].mine
      PROVE  Follows(EndOf(line[1]), line'[1].from)
  <2>1. line'[1] = line[1 + 1] /\ 1 \in 1..(Len(line) - 1)
    BY <1>3
  <2> QED
    BY <1>3, <2>1 DEF BytesInv, Joined
<1> QED
  BY <1>1, <1>2, <1>3

LEMMA ThrowsBytes ==
  ASSUME BytesInv, Reads, Throws
  PROVE  BytesInv'
<1>1. outcome' = "failed" /\ filled' = filled /\ intact' = intact
  BY DEF Throws
<1>2. TypeOK'
  BY <1>1, ReadFacts DEF TypeOK
<1>3. ReadFollows' /\ GapStays' /\ Intact'
  BY <1>1 DEF ReadFollows, GapStays, Intact
<1> QED
  BY <1>2, <1>3, ReadKeeps DEF BytesInv

(***************************************************************************)
(* The heart of the matter: a fragment written behind a gap leaves the     *)
(* result behind that gap, hence not full.                                 *)
(***************************************************************************)
LEMMA WriteBytes ==
  ASSUME BytesInv, Reads, line[1].mine, Write(line[1]), kind \in {"usb", "ble"}
  PROVE  BytesInv'
<1> DEFINE f == line[1]
<1>1. /\ size \in Nat /\ filled \in Nat /\ filled <= size
      /\ f.from \in Nat /\ f.length \in Nat
      /\ Len(line) \in Nat \ {0} /\ Len(line') \in Nat
      /\ kind' = kind /\ size' = size /\ offset' = offset /\ offset \in Nat
  BY ReadFacts
<1>2. /\ filled' = Least(size, filled + f.length)
      /\ intact' = (intact /\ f.from = filled)
      /\ outcome' = IF filled' >= size THEN "returned" ELSE "reading"
  BY DEF Write, Copied
<1>3. /\ Follows(filled, f.from)
      /\ Len(line') = 0 => Follows(EndOf(f), offset)
      /\ Len(line') > 0 /\ line'[1].mine => Follows(EndOf(f), line'[1].from)
  BY NextFollows
<1>4. Len(line') > 0 => line'[1].from \in Nat
  <2>1. line' \in Seq(Fragments)
    BY ReadFacts
  <2>2. Len(line') > 0 => line'[1] \in Fragments
    BY <1>1, <2>1
  <2> QED
    BY <2>2 DEF Fragments
<1> HIDE DEF f
<1>5. EndOf(f) \in Nat /\ EndOf(f) <= size /\ filled' \in 0..size /\ Follows(filled', EndOf(f))
  <2>1. filled <= f.from /\ (~lost => filled = f.from)
    BY <1>3 DEF Follows
  <2>2. EndOf(f) = IF size <= f.from + f.length THEN size ELSE f.from + f.length
    BY DEF EndOf, Least
  <2>3. filled' = IF size <= filled + f.length THEN size ELSE filled + f.length
    BY <1>2 DEF Least
  <2>4. EndOf(f) \in Nat /\ EndOf(f) <= size
    BY <1>1, <2>2
  <2>5. filled' \in Nat /\ filled' <= size
    BY <1>1, <2>3
  <2>6. filled' <= EndOf(f)
    BY <1>1, <2>1, <2>2, <2>3
  <2>7. ~lost => filled' = EndOf(f)
    BY <2>1, <2>2, <2>3
  <2> QED
    BY <1>1, <2>4, <2>5, <2>6, <2>7 DEF Follows
<1>6. ASSUME ~intact'
      PROVE  lost /\ kind = "ble" /\ filled' < EndOf(f)
  <2>1. lost /\ filled < f.from
    <3>1. CASE ~intact
      BY <3>1, <1>1, ReadFacts DEF BytesInv, GapStays, f
    <3>2. CASE f.from # filled
      BY <3>2, <1>1, <1>3 DEF Follows
    <3> QED
      BY <3>1, <3>2, <1>2, <1>6
  <2>2. kind = "ble" /\ f.from + f.length <= size
    BY <2>1, <1>1 DEF BytesInv, LossOnBle, Parts, f
  <2>3. EndOf(f) = f.from + f.length
    BY <2>2, <1>1 DEF EndOf, Least
  <2>4. filled + f.length < size
    BY <2>1, <2>2, <1>1
  <2>5. filled' = filled + f.length
    BY <2>4, <1>1, <1>2 DEF Least
  <2> QED
    BY <2>1, <2>2, <2>3, <2>5, <1>1
<1>7. intact' \in BOOLEAN
  BY <1>2
<1>8. outcome' \in {"reading", "returned"}
  BY <1>2
<1>9. TypeOK'
  BY <1>5, <1>7, <1>8, ReadFacts DEF TypeOK
<1>10. ReadFollows'
  BY <1>1, <1>3, <1>4, <1>5, ReadFacts DEF ReadFollows, Follows
<1>11. GapStays'
  <2> SUFFICES ASSUME ~intact'
               PROVE  /\ lost
                      /\ IF Len(line') = 0 THEN filled' < offset ELSE filled' < line'[1].from
    BY <1>1, ReadFacts DEF GapStays
  <2>1. lost /\ kind = "ble" /\ filled' < EndOf(f)
    BY <1>6
  <2>2. CASE Len(line') = 0
    BY <2>1, <2>2, <1>1, <1>3, <1>5 DEF Follows
  <2>3. CASE Len(line') > 0
    <3>1. line'[1].mine
      BY <2>1, <2>3, <1>1, ReadKeeps DEF Parts
    <3> QED
      BY <2>1, <2>3, <3>1, <1>1, <1>3, <1>4, <1>5 DEF Follows
  <2> QED
    BY <2>2, <2>3, <1>1
<1>12. Intact'
  <2> SUFFICES ASSUME outcome' = "returned"
               PROVE  intact' /\ filled' = size
    BY <1>1 DEF Intact
  <2>1. filled' = size
    BY <1>1, <1>2, <1>5
  <2> QED
    BY <2>1, <1>1, <1>5, <1>6
<1> QED
  BY <1>9, <1>10, <1>11, <1>12, ReadKeeps DEF BytesInv

LEMMA RecvUsbBytes ==
  ASSUME BytesInv, RecvUsb
  PROVE  BytesInv'
<1>1. kind = "usb" /\ Reads
  BY DEF RecvUsb
<1>2. Incoming = line[1]
  BY <1>1, ReadFacts
<1>3. CASE Incoming.mine /\ (read = 0 \/ InSequence(Incoming))
  BY <1>1, <1>2, <1>3, WriteBytes DEF RecvUsb
<1>4. CASE ~(Incoming.mine /\ (read = 0 \/ InSequence(Incoming)))
  BY <1>1, <1>4, ThrowsBytes DEF RecvUsb
<1> QED
  BY <1>3, <1>4

LEMMA RecvBleBytes ==
  ASSUME BytesInv, RecvBle
  PROVE  BytesInv'
<1>1. kind = "ble" /\ Reads
  BY DEF RecvBle
<1>2. Incoming = line[1] /\ Len(line) \in Nat \ {0}
  BY <1>1, ReadFacts
<1>3. line[1].mine
  BY <1>1, <1>2 DEF BytesInv, Parts
<1>4. Write(line[1]) \/ Throws
  BY <1>2 DEF RecvBle
<1> QED
  BY <1>1, <1>3, <1>4, WriteBytes, ThrowsBytes

LEMMA RecvNfcBytes ==
  ASSUME BytesInv, RecvNfc
  PROVE  BytesInv'
<1> DEFINE f == line[1]
<1>1. kind = "nfc" /\ Reads
  BY DEF RecvNfc
<1>2. /\ size \in Nat /\ filled \in Nat /\ filled <= size
      /\ f.from \in Nat /\ f.length \in Nat
      /\ Len(line) \in Nat \ {0} /\ Len(line') \in Nat
      /\ kind' = kind /\ size' = size /\ offset' = offset /\ offset \in Nat
      /\ outcome = "reading" /\ Incoming = f
  BY <1>1, ReadFacts
<1>3. /\ f.mine /\ f.from + f.length <= size
      /\ f.last => f.from + f.length = size
  BY <1>1, <1>2 DEF BytesInv, Parts
<1>4. /\ Follows(filled, f.from)
      /\ Len(line') = 0 => Follows(EndOf(f), offset)
      /\ Len(line') > 0 /\ line'[1].mine => Follows(EndOf(f), line'[1].from)
  BY <1>1, <1>3, NextFollows
<1>5. intact /\ ~lost
  BY <1>1, <1>2 DEF BytesInv, GapStays, LossOnBle
<1>6. /\ filled' = filled + f.length
      /\ intact' = (intact /\ f.from = filled)
      /\ outcome' = IF f.last THEN "returned" ELSE "reading"
  BY <1>2 DEF RecvNfc
<1> HIDE DEF f
<1>7. filled = f.from
  BY <1>4, <1>5 DEF Follows
<1>8. intact' = TRUE
  BY <1>5, <1>6, <1>7
<1>9. filled' = EndOf(f) /\ filled' \in 0..size
  BY <1>2, <1>3, <1>6, <1>7 DEF EndOf, Least
<1>10. outcome' \in {"reading", "returned"}
  BY <1>6
<1>11. TypeOK'
  BY <1>1, <1>8, <1>9, <1>10, ReadFacts DEF TypeOK
<1>12. ReadFollows'
  BY <1>1, <1>2, <1>4, <1>9, ReadFacts, ReadKeeps DEF Parts, ReadFollows, Follows
<1>13. GapStays'
  BY <1>8 DEF GapStays
<1>14. Intact'
  BY <1>2, <1>3, <1>6, <1>7, <1>8 DEF Intact
<1> QED
  BY <1>1, <1>11, <1>12, <1>13, <1>14, ReadKeeps DEF BytesInv

LEMMA TimeoutBytes ==
  ASSUME BytesInv, RecvTimeout
  PROVE  BytesInv'
<1>1. /\ outcome' = "failed" /\ late' = (late \/ ~SendDone)
      /\ kind' = kind /\ size' = size /\ offset' = offset /\ sent' = sent
      /\ read' = read /\ filled' = filled /\ intact' = intact /\ line' = line
      /\ lost' = lost /\ foreign' = foreign
  BY DEF RecvTimeout, sendVars
<1>2. late' \in BOOLEAN
  BY <1>1
<1>3. TypeOK'
  BY <1>1, <1>2 DEF BytesInv, TypeOK
<1>4. Joined' /\ CutFollows' /\ Parts'
  BY <1>1 DEF BytesInv, Joined, CutFollows, Parts, Follows, EndOf
<1>5. ReadFollows' /\ GapStays' /\ Intact' /\ LossOnBle'
  BY <1>1 DEF BytesInv, ReadFollows, GapStays, Intact, LossOnBle
<1> QED
  BY <1>3, <1>4, <1>5 DEF BytesInv

LEMMA NextBytes ==
  ASSUME BytesInv, [Next]_vars
  PROVE  BytesInv'
<1>1. CASE SendUsb
  BY <1>1, SendUsbBytes
<1>2. CASE SendBle
  BY <1>2, SendBleBytes
<1>3. CASE SendNfc
  BY <1>3, SendNfcBytes
<1>4. CASE ForeignPacket
  BY <1>4, ForeignBytes
<1>5. CASE RecvUsb
  BY <1>5, RecvUsbBytes
<1>6. CASE RecvBle
  BY <1>6, RecvBleBytes
<1>7. CASE RecvNfc
  BY <1>7, RecvNfcBytes
<1>8. CASE RecvTimeout
  BY <1>8, TimeoutBytes
<1>9. CASE UNCHANGED vars
  BY <1>9 DEF vars, sendVars, recvVars, BytesInv, TypeOK, LossOnBle, Joined, CutFollows,
              ReadFollows, Parts, GapStays, Intact, Follows, EndOf
<1> QED
  BY <1>1, <1>2, <1>3, <1>4, <1>5, <1>6, <1>7, <1>8, <1>9 DEF Next, Recv

(* Whatever is cut, lost, padded or mixed with other programs' packets, the *)
(* bytes stay where BytesInv says.                                          *)
THEOREM BytesHold == Spec => []BytesInv
<1>1. Init => BytesInv
  BY InitBytes
<1>2. BytesInv /\ [Next]_vars => BytesInv'
  BY NextBytes
<1> QED
  BY <1>1, <1>2, PTL DEF Spec

(* The type invariant of send() and recv(): neither of them runs over the   *)
(* end of the message.                                                      *)
THEOREM TypeCorrect == Spec => []TypeOK
<1>1. BytesInv => TypeOK
  BY DEF BytesInv
<1> QED
  BY <1>1, BytesHold, PTL

(* What recv() returns is the message that was sent, for every message and  *)
(* payload size, with or without lost notifications, other programs'        *)
(* packets, and wrapped sequence numbers.                                   *)
THEOREM IntactHolds == Spec => []Intact
<1>1. BytesInv => Intact
  BY DEF BytesInv
<1> QED
  BY <1>1, BytesHold, PTL

-----------------------------------------------------------------------------
(***************************************************************************)
(* recv() fails only for a reason.  As long as nothing is lost or foreign, *)
(* the fragments carry the numbers recv counts, unless the message is so   *)
(* long that the sender's numbers wrap; and recv stops waiting only when   *)
(* the sender has not sent everything, since it returns as soon as it has  *)
(* everything.                                                             *)
(***************************************************************************)
(* Nothing has come between sender and receiver. *)
Undisturbed == ~lost /\ foreign = 0

(* Then every fragment is where its number says, and carries the number recv *)
(* counts up to when it gets there.                                          *)
Numbered ==
  Undisturbed =>
    /\ sent = read + Len(line)
    /\ \A i \in 1..Len(line) :
         /\ line[i].mine
         /\ line[i].first <=> read + i = 1
         /\ Unwrapped /\ kind # "nfc" /\ read + i > 1 => line[i].seq = read + i - 2

(* What the fragments sent add up to. *)
CutSum ==
  IF sent = 0 THEN offset = 0
  ELSE offset = Least(size, First[kind] + (sent - 1) * Rest[kind])

(* recv goes on only as long as something is missing ... *)
NotFull == kind # "nfc" /\ outcome = "reading" /\ read > 0 => filled < size

(* ... or, on nfc, until the part marked last has come. *)
LastUnderWay ==
  kind = "nfc" /\ outcome = "reading" /\ SendDone => Len(line) > 0 /\ line[Len(line)].last

ArriveInv ==
  BytesInv /\ Numbered /\ CutSum /\ NotFull /\ LastUnderWay /\ ShortMessagesArrive

LEMMA NumberFacts ==
  ASSUME TypeOK
  PROVE  /\ First[kind] \in Nat \ {0} /\ Rest[kind] \in Nat \ {0} /\ Modulus \in Nat \ {0}
         /\ size \in Nat /\ offset \in Nat /\ offset <= size
         /\ sent \in Nat /\ read \in Nat /\ Len(line) \in Nat
         /\ filled \in Nat /\ foreign \in Nat
  BY ConstantsAssumption DEF ConstantsAssumption, TypeOK

LEMMA SmallSequenceByte ==
  ASSUME NEW n \in Nat, n < Modulus
  PROVE  SequenceByte(n) = n
  BY ConstantsAssumption DEF ConstantsAssumption, SequenceByte

LEMMA Products ==
  ASSUME NEW a \in Nat, NEW b \in Nat, NEW r \in Nat \ {0}
  PROVE  /\ a * r \in Nat
         /\ a > 0 => (a - 1) * r + r = a * r
         /\ a * r < b * r => a < b
<1>1. a * r \in Nat /\ b * r \in Nat
  OBVIOUS
<1>2. a > 0 => (a - 1) * r + r = a * r
  OBVIOUS
<1>3. a >= b => a * r >= b * r
  OBVIOUS
<1> QED
  BY <1>1, <1>2, <1>3

LEMMA CutKeepsSum ==
  ASSUME TypeOK, CutSum, Cut
  PROVE  CutSum'
<1>0. /\ First[kind] \in Nat \ {0} /\ Rest[kind] \in Nat \ {0}
      /\ size \in Nat /\ offset \in Nat /\ sent \in Nat
  BY NumberFacts
<1>1. /\ ~SendDone /\ sent' = sent + 1 /\ kind' = kind /\ size' = size
      /\ offset' = Least(size, offset + Capacity)
  BY DEF Cut
<1>2. CASE sent = 0
  BY <1>0, <1>1, <1>2 DEF CutSum, Capacity
<1>3. CASE sent > 0
  <2> DEFINE done == First[kind] + (sent - 1) * Rest[kind]
  <2>1. offset = Least(size, done) /\ Capacity = Rest[kind] /\ offset < size
    BY <1>0, <1>1, <1>3 DEF CutSum, Capacity, SendDone
  <2>2. sent * Rest[kind] \in Nat /\ (sent - 1) * Rest[kind] + Rest[kind] = sent * Rest[kind]
    BY <1>0, <1>3, Products
  <2>3. (sent - 1) * Rest[kind] \in Nat
    <3>1. sent - 1 \in Nat
      BY <1>0, <1>3
    <3> QED
      BY <1>0, <3>1, Products
  <2>4. offset = done
    BY <1>0, <2>1, <2>3 DEF Least
  <2>5. offset + Capacity = First[kind] + sent * Rest[kind]
    <3> DEFINE p == (sent - 1) * Rest[kind]
               q == sent * Rest[kind]
               f == First[kind]
               r == Rest[kind]
    <3>1. /\ p \in Nat /\ q \in Nat /\ f \in Nat /\ r \in Nat /\ p + r = q
          /\ offset = f + p /\ Capacity = r
      BY <1>0, <2>1, <2>2, <2>3, <2>4
    <3> HIDE DEF p, q, f, r
    <3>2. offset + Capacity = f + q
      BY <3>1
    <3> QED
      BY <3>2 DEF f, q
  <2>6. sent' - 1 = sent /\ sent' # 0
    BY <1>0, <1>1, <1>3
  <2> QED
    BY <1>1, <2>5, <2>6 DEF CutSum
<1> QED
  BY <1>0, <1>2, <1>3

(* The number of the fragment to be cut has not wrapped. *)
LEMMA NextNumber ==
  ASSUME TypeOK, CutSum, Cut, Unwrapped, kind # "nfc", sent > 0
  PROVE  SequenceByte(sent - 1) = sent - 1
<1> DEFINE n == sent - 1
           r == Rest[kind]
           f == First[kind]
<1>1. /\ n \in Nat /\ r \in Nat \ {0} /\ f \in Nat /\ Modulus \in Nat
      /\ size \in Nat /\ offset \in Nat
  BY NumberFacts
<1>2. offset < size
  BY <1>1 DEF Cut, SendDone
<1>3. offset = Least(size, f + n * r)
  BY DEF CutSum
<1>4. size <= f + Modulus * r
  BY DEF Unwrapped
<1> HIDE DEF n, r, f
<1>5. n * r \in Nat /\ Modulus * r \in Nat
  BY <1>1, Products
<1>6. offset = f + n * r
  BY <1>1, <1>2, <1>3, <1>5 DEF Least
<1>7. n * r < Modulus * r
  BY <1>1, <1>2, <1>4, <1>5, <1>6
<1>8. n < Modulus
  BY <1>1, <1>7, Products
<1>9. SequenceByte(n) = n
  BY <1>1, <1>8, SmallSequenceByte
<1> QED
  BY <1>9 DEF n

LEMMA AppendArrives ==
  ASSUME ArriveInv, Cut, NEW f \in Fragments, line' = Append(line, f), lost' = lost,
         f.mine, f.first <=> sent = 0,
         f.seq = IF sent = 0 THEN 0 ELSE SequenceByte(sent - 1)
  PROVE  Numbered' /\ CutSum' /\ NotFull' /\ ShortMessagesArrive'
<1>1. /\ TypeOK /\ Numbered /\ CutSum /\ NotFull /\ ShortMessagesArrive
      /\ sent' = sent + 1
      /\ kind' = kind /\ size' = size /\ read' = read /\ filled' = filled
      /\ outcome' = outcome /\ foreign' = foreign /\ late' = late
  BY DEF ArriveInv, BytesInv, Cut, recvVars
<1>2. /\ Len(line') = Len(line) + 1
      /\ \A i \in 1..Len(line) : line'[i] = line[i]
      /\ line'[Len(line) + 1] = f
  BY <1>1, AppendFacts DEF TypeOK
<1>3. Numbered'
  <2> SUFFICES ASSUME Undisturbed
               PROVE  /\ sent' = read + Len(line')
                      /\ \A i \in 1..Len(line') :
                           /\ line'[i].mine
                           /\ line'[i].first <=> read + i = 1
                           /\ Unwrapped /\ kind # "nfc" /\ read + i > 1
                                => line'[i].seq = read + i - 2
    BY <1>1 DEF Numbered, Undisturbed, Unwrapped
  <2>1. sent = read + Len(line)
    BY <1>1 DEF Numbered
  <2>2. sent' = read + Len(line')
    BY <1>1, <1>2, <2>1, NumberFacts
  <2>3. ASSUME NEW i \in 1..Len(line')
        PROVE  /\ line'[i].mine
               /\ line'[i].first <=> read + i = 1
               /\ Unwrapped /\ kind # "nfc" /\ read + i > 1
                    => line'[i].seq = read + i - 2
    <3>1. CASE i \in 1..Len(line)
      BY <1>1, <1>2, <3>1 DEF Numbered
    <3>2. CASE i = Len(line) + 1
      <4>1. read + i = sent + 1 /\ sent \in Nat /\ read \in Nat /\ i \in Nat
        BY <1>1, <2>1, <3>2, NumberFacts, SMTT(20)
      <4>2. line'[i] = f
        BY <1>2, <3>2
      <4>3. sent = 0 <=> read + i = 1
        BY <4>1
      <4>4. ASSUME Unwrapped, kind # "nfc", read + i > 1
            PROVE  f.seq = read + i - 2
        <5>1. sent > 0
          BY <4>1, <4>4
        <5>2. SequenceByte(sent - 1) = sent - 1
          BY <1>1, <4>4, <5>1, NextNumber
        <5>3. f.seq = sent - 1
          BY <5>1, <5>2
        <5> QED
          BY <4>1, <5>3
      <4>5. f.first <=> read + i = 1
        BY <4>3
      <4> QED
        BY <4>2, <4>4, <4>5
    <3> QED
      BY <1>1, <1>2, <3>1, <3>2, NumberFacts, SMTT(20)
  <2> QED
    BY <2>2, <2>3
<1>4. CutSum'
  BY <1>1, CutKeepsSum
<1>5. NotFull'
  BY <1>1 DEF NotFull
<1>6. ShortMessagesArrive'
  BY <1>1 DEF ShortMessagesArrive, Unwrapped
<1> QED
  BY <1>3, <1>4, <1>5, <1>6

LEMMA FragmentNumber ==
  ASSUME NEW length
  PROVE  /\ NextFragment(length).first <=> sent = 0
         /\ NextFragment(length).seq = IF sent = 0 THEN 0 ELSE SequenceByte(sent - 1)
  BY DEF NextFragment

LEMMA SendUsbArrives ==
  ASSUME ArriveInv, SendUsb
  PROVE  ArriveInv'
<1> DEFINE f == NextFragment(Capacity)
<1>1. TypeOK /\ Cut /\ kind = "usb" /\ kind' = kind /\ line' = Append(line, f) /\ lost' = lost
  BY DEF ArriveInv, BytesInv, SendUsb, Cut
<1>2. f \in Fragments /\ f.mine
  BY <1>1, CutFacts, FragmentType
<1>3. (f.first <=> sent = 0) /\ f.seq = IF sent = 0 THEN 0 ELSE SequenceByte(sent - 1)
  BY FragmentNumber
<1> HIDE DEF f
<1>4. Numbered' /\ CutSum' /\ NotFull' /\ ShortMessagesArrive'
  BY <1>1, <1>2, <1>3, AppendArrives
<1>5. LastUnderWay'
  BY <1>1 DEF LastUnderWay
<1>6. BytesInv'
  BY SendUsbBytes DEF ArriveInv
<1> QED
  BY <1>4, <1>5, <1>6 DEF ArriveInv

LEMMA SendBleArrives ==
  ASSUME ArriveInv, SendBle
  PROVE  ArriveInv'
<1> DEFINE length == Least(Capacity, size - offset)
           f == NextFragment(length)
<1>1. TypeOK /\ Cut /\ kind = "ble" /\ kind' = kind
  BY DEF ArriveInv, BytesInv, SendBle, Cut
<1>2. length \in Nat
  BY <1>1, ExactCut
<1>3. BytesInv' /\ LastUnderWay'
  BY <1>1, SendBleBytes DEF ArriveInv, LastUnderWay
<1>4. CASE line' = Append(line, f) /\ UNCHANGED lost
  <2>1. f \in Fragments /\ f.mine
    BY <1>1, <1>2, FragmentType
  <2>2. (f.first <=> sent = 0) /\ f.seq = IF sent = 0 THEN 0 ELSE SequenceByte(sent - 1)
    BY FragmentNumber
  <2> HIDE DEF f
  <2> QED
    BY <1>1, <1>3, <1>4, <2>1, <2>2, AppendArrives DEF ArriveInv
<1>5. CASE lost' = TRUE /\ UNCHANGED line
  <2>1. Numbered' /\ ShortMessagesArrive'
    BY <1>5 DEF Numbered, Undisturbed, ShortMessagesArrive
  <2>2. CutSum'
    BY <1>1, CutKeepsSum DEF ArriveInv
  <2>3. NotFull'
    BY <1>1, CutFacts DEF ArriveInv, NotFull, Cut, recvVars
  <2> QED
    BY <1>3, <2>1, <2>2, <2>3 DEF ArriveInv
<1> QED
  BY <1>4, <1>5 DEF SendBle

LEMMA SendNfcArrives ==
  ASSUME ArriveInv, SendNfc
  PROVE  ArriveInv'
<1> DEFINE length == Least(Capacity, size - offset)
           g == NextFragment(length)
           f == [g EXCEPT !.last = LastApdu]
<1>1. TypeOK /\ Cut /\ kind = "nfc" /\ kind' = kind /\ line' = Append(line, f) /\ lost' = lost
  BY DEF ArriveInv, BytesInv, SendNfc, Cut
<1>2. length \in Nat
  BY <1>1, ExactCut
<1>3. g \in Fragments /\ g.mine
  BY <1>1, <1>2, FragmentType
<1>4. (g.first <=> sent = 0) /\ g.seq = IF sent = 0 THEN 0 ELSE SequenceByte(sent - 1)
  BY FragmentNumber
<1> HIDE DEF g
<1>5. LastApdu \in BOOLEAN
  BY DEF LastApdu
<1>6. f \in Fragments /\ f.mine /\ f.last = LastApdu /\ (f.first <=> g.first) /\ f.seq = g.seq
  BY <1>3, <1>5 DEF Fragments
<1> HIDE DEF f
<1>7. Numbered' /\ CutSum' /\ NotFull' /\ ShortMessagesArrive'
  BY <1>1, <1>4, <1>6, AppendArrives
<1>8. LastUnderWay'
  <2>1. /\ Len(line') = Len(line) + 1 /\ Len(line) \in Nat
        /\ line'[Len(line) + 1] = f
    BY <1>1, <1>6, AppendFacts DEF TypeOK
  <2>2. SendDone' => LastApdu
    BY <1>1, CutFacts DEF SendDone, LastApdu, Least
  <2>3. Len(line') > 0 /\ line'[Len(line')] = f
    BY <2>1
  <2> QED
    BY <1>6, <2>2, <2>3 DEF LastUnderWay
<1>9. BytesInv'
  BY SendNfcBytes DEF ArriveInv
<1> QED
  BY <1>7, <1>8, <1>9 DEF ArriveInv

LEMMA ForeignArrives ==
  ASSUME ArriveInv, ForeignPacket
  PROVE  ArriveInv'
<1>1. /\ kind = "usb" /\ foreign' = foreign + 1 /\ kind' = kind /\ size' = size
      /\ offset' = offset /\ sent' = sent /\ read' = read /\ filled' = filled
      /\ outcome' = outcome /\ foreign \in Nat
  BY NumberFacts DEF ArriveInv, BytesInv, ForeignPacket, sendVars, recvVars
<1>2. foreign' > 0 /\ foreign' # 0
  BY <1>1
<1>3. Numbered' /\ ShortMessagesArrive'
  BY <1>2 DEF Numbered, Undisturbed, ShortMessagesArrive
<1>4. CutSum' /\ NotFull' /\ LastUnderWay'
  BY <1>1 DEF ArriveInv, CutSum, NotFull, LastUnderWay
<1>5. BytesInv'
  BY ForeignBytes DEF ArriveInv
<1> QED
  BY <1>3, <1>4, <1>5 DEF ArriveInv

LEMMA ReadArrives ==
  ASSUME ArriveInv, Reads
  PROVE  Numbered' /\ CutSum'
<1>1. BytesInv /\ Numbered /\ CutSum /\ read' = read + 1
  BY DEF ArriveInv, Reads
<1>2. /\ read \in Nat /\ Len(line) \in Nat \ {0} /\ Len(line') = Len(line) - 1
      /\ \A i \in 1..(Len(line) - 1) : line'[i] = line[i + 1]
      /\ kind' = kind /\ size' = size /\ offset' = offset /\ sent' = sent
      /\ lost' = lost /\ foreign' = foreign
  BY <1>1, ReadFacts, NumberFacts
<1>3. CutSum'
  BY <1>1, <1>2 DEF CutSum
<1>4. Numbered'
  <2> SUFFICES ASSUME Undisturbed
               PROVE  /\ sent = read' + Len(line')
                      /\ \A i \in 1..Len(line') :
                           /\ line'[i].mine
                           /\ line'[i].first <=> read' + i = 1
                           /\ Unwrapped /\ kind # "nfc" /\ read' + i > 1
                                => line'[i].seq = read' + i - 2
    BY <1>2 DEF Numbered, Undisturbed, Unwrapped
  <2>1. /\ sent = read + Len(line)
        /\ \A i \in 1..Len(line) :
             /\ line[i].mine
             /\ line[i].first <=> read + i = 1
             /\ Unwrapped /\ kind # "nfc" /\ read + i > 1 => line[i].seq = read + i - 2
    BY <1>1 DEF Numbered
  <2>2. sent = read' + Len(line')
    BY <1>1, <1>2, <2>1
  <2>3. ASSUME NEW i \in 1..Len(line')
        PROVE  /\ line'[i].mine
               /\ line'[i].first <=> read' + i = 1
               /\ Unwrapped /\ kind # "nfc" /\ read' + i > 1
                    => line'[i].seq = read' + i - 2
    <3>1. /\ line'[i] = line[i + 1] /\ i + 1 \in 1..Len(line)
          /\ read + (i + 1) = read' + i /\ read + (i + 1) - 2 = read' + i - 2
      BY <1>1, <1>2
    <3>2. /\ line[i + 1].mine
          /\ line[i + 1].first <=> read + (i + 1) = 1
          /\ Unwrapped /\ kind # "nfc" /\ read + (i + 1) > 1
               => line[i + 1].seq = read + (i + 1) - 2
      BY <2>1, <3>1
    <3> QED
      BY <3>1, <3>2
  <2> QED
    BY <2>2, <2>3
<1> QED
  BY <1>3, <1>4

(* The fragment recv reads is the one it waits for. *)
LEMMA HeadExpected ==
  ASSUME ArriveInv, Reads, Undisturbed, Unwrapped, kind # "nfc"
  PROVE  /\ Incoming.mine
         /\ read = 0 => Incoming.first
         /\ read # 0 => InSequence(Incoming)
<1>1. TypeOK /\ BytesInv /\ Numbered
  BY DEF ArriveInv, BytesInv
<1>2. Incoming = line[1] /\ 1 \in 1..Len(line) /\ read \in Nat
  BY <1>1, ReadFacts, NumberFacts
<1>3. /\ line[1].mine /\ (line[1].first <=> read + 1 = 1)
      /\ read + 1 > 1 => line[1].seq = read + 1 - 2
  BY <1>1, <1>2 DEF Numbered
<1>4. read # 0 => ~line[1].first /\ line[1].seq = read - 1
  BY <1>2, <1>3
<1> QED
  BY <1>2, <1>3, <1>4 DEF InSequence

LEMMA WriteArrives ==
  ASSUME ArriveInv, Reads, Write(line[1]), kind # "nfc"
  PROVE  NotFull' /\ LastUnderWay' /\ ShortMessagesArrive'
<1>1. kind' = kind /\ size' = size /\ size \in Nat /\ filled \in Nat /\ line[1].length \in Nat
  BY ReadFacts DEF ArriveInv
<1>2. /\ filled' = Least(size, filled + line[1].length)
      /\ outcome' = IF filled' >= size THEN "returned" ELSE "reading"
  BY DEF Write, Copied
<1>3. filled' \in Nat
  BY <1>1, <1>2 DEF Least
<1> QED
  BY <1>1, <1>2, <1>3 DEF NotFull, LastUnderWay, ShortMessagesArrive

(* recv gives up a fragment only for a reason. *)
LEMMA ThrowsArrives ==
  ASSUME ArriveInv, Reads, Throws, ~(Undisturbed /\ Unwrapped)
  PROVE  NotFull' /\ LastUnderWay' /\ ShortMessagesArrive'
<1>1. outcome' = "failed"
  BY DEF Throws
<1>2. /\ kind' = kind /\ size' = size /\ lost' = lost /\ foreign' = foreign
      /\ foreign \in Nat
  BY ReadFacts, NumberFacts DEF ArriveInv
<1>3. lost \/ foreign > 0 \/ ~Unwrapped
  BY <1>2 DEF Undisturbed
<1> QED
  BY <1>1, <1>2, <1>3 DEF NotFull, LastUnderWay, ShortMessagesArrive, Unwrapped

LEMMA RecvUsbArrives ==
  ASSUME ArriveInv, RecvUsb
  PROVE  ArriveInv'
<1>1. kind = "usb" /\ Reads /\ Incoming = line[1]
  BY ReadFacts DEF ArriveInv, RecvUsb
<1>2. BytesInv' /\ Numbered' /\ CutSum'
  BY <1>1, RecvUsbBytes, ReadArrives DEF ArriveInv
<1>3. Write(line[1]) \/ (Throws /\ ~(Undisturbed /\ Unwrapped))
  BY <1>1, HeadExpected DEF RecvUsb
<1> QED
  BY <1>1, <1>2, <1>3, WriteArrives, ThrowsArrives DEF ArriveInv

LEMMA RecvBleArrives ==
  ASSUME ArriveInv, RecvBle
  PROVE  ArriveInv'
<1>1. kind = "ble" /\ Reads /\ Incoming = line[1]
  BY ReadFacts DEF ArriveInv, RecvBle
<1>2. BytesInv' /\ Numbered' /\ CutSum'
  BY <1>1, RecvBleBytes, ReadArrives DEF ArriveInv
<1>3. Write(line[1]) \/ (Throws /\ ~(Undisturbed /\ Unwrapped))
  BY <1>1, HeadExpected DEF RecvBle
<1> QED
  BY <1>1, <1>2, <1>3, WriteArrives, ThrowsArrives DEF ArriveInv

LEMMA RecvNfcArrives ==
  ASSUME ArriveInv, RecvNfc
  PROVE  ArriveInv'
<1>1. BytesInv /\ kind = "nfc" /\ Reads
  BY DEF ArriveInv, RecvNfc
<1>2. BytesInv' /\ Numbered' /\ CutSum'
  BY <1>1, RecvNfcBytes, ReadArrives DEF ArriveInv
<1>3. /\ kind' = kind /\ size' = size /\ offset' = offset /\ sent' = sent
      /\ Incoming = line[1] /\ Len(line) \in Nat \ {0} /\ Len(line') = Len(line) - 1
      /\ \A i \in 1..(Len(line) - 1) : line'[i] = line[i + 1]
      /\ outcome = "reading"
  BY <1>1, ReadFacts
<1>4. outcome' = IF line[1].last THEN "returned" ELSE "reading"
  BY <1>3 DEF RecvNfc
<1>5. NotFull' /\ ShortMessagesArrive'
  BY <1>1, <1>3, <1>4 DEF NotFull, ShortMessagesArrive
<1>6. LastUnderWay'
  <2> SUFFICES ASSUME outcome' = "reading", SendDone
               PROVE  Len(line') > 0 /\ line'[Len(line')].last
    BY <1>3 DEF LastUnderWay, SendDone
  <2>1. line[Len(line)].last /\ ~line[1].last
    BY <1>1, <1>3, <1>4 DEF ArriveInv, LastUnderWay
  <2>2. Len(line) # 1
    BY <2>1
  <2> QED
    BY <1>3, <2>1, <2>2
<1> QED
  BY <1>2, <1>5, <1>6 DEF ArriveInv

LEMMA TimeoutArrives ==
  ASSUME ArriveInv, RecvTimeout
  PROVE  ArriveInv'
<1>1. /\ TypeOK /\ BytesInv
      /\ outcome = "reading" /\ outcome' = "failed" /\ late' = (late \/ ~SendDone)
      /\ kind' = kind /\ size' = size /\ offset' = offset /\ sent' = sent
      /\ read' = read /\ filled' = filled /\ line' = line /\ Len(line) = 0
      /\ lost' = lost /\ foreign' = foreign
  BY DEF ArriveInv, BytesInv, RecvTimeout, sendVars
<1>2. BytesInv'
  BY TimeoutBytes DEF ArriveInv
<1>3. Numbered' /\ CutSum' /\ NotFull' /\ LastUnderWay'
  BY <1>1 DEF ArriveInv, Numbered, Undisturbed, Unwrapped, CutSum, NotFull, LastUnderWay
<1>4. ShortMessagesArrive'
  <2> SUFFICES ASSUME SendDone, ~lost, ~(foreign > 0)
               PROVE  FALSE
    BY <1>1 DEF ShortMessagesArrive
  <2>1. Undisturbed
    BY <1>1, NumberFacts DEF Undisturbed
  <2>2. sent = read /\ read > 0 /\ offset >= size
    BY <1>1, <2>1, NumberFacts DEF ArriveInv, Numbered, SendDone
  <2>3. CASE kind = "nfc"
    BY <1>1, <2>3 DEF ArriveInv, LastUnderWay
  <2>4. CASE kind # "nfc"
    <3>1. filled < size
      BY <1>1, <2>2, <2>4 DEF ArriveInv, NotFull
    <3>2. filled = offset
      BY <1>1 DEF BytesInv, ReadFollows, Follows
    <3> QED
      BY <1>1, <2>2, <3>1, <3>2, NumberFacts
  <2> QED
    BY <2>3, <2>4
<1> QED
  BY <1>2, <1>3, <1>4 DEF ArriveInv

LEMMA NextArrives ==
  ASSUME ArriveInv, [Next]_vars
  PROVE  ArriveInv'
<1>1. CASE SendUsb
  BY <1>1, SendUsbArrives
<1>2. CASE SendBle
  BY <1>2, SendBleArrives
<1>3. CASE SendNfc
  BY <1>3, SendNfcArrives
<1>4. CASE ForeignPacket
  BY <1>4, ForeignArrives
<1>5. CASE RecvUsb
  BY <1>5, RecvUsbArrives
<1>6. CASE RecvBle
  BY <1>6, RecvBleArrives
<1>7. CASE RecvNfc
  BY <1>7, RecvNfcArrives
<1>8. CASE RecvTimeout
  BY <1>8, TimeoutArrives
<1>9. CASE UNCHANGED vars
  <2>1. BytesInv'
    BY <1>9, NextBytes DEF ArriveInv
  <2> QED
    BY <1>9, <2>1 DEF vars, sendVars, recvVars, ArriveInv, Numbered, Undisturbed, Unwrapped,
                      CutSum, NotFull, LastUnderWay, SendDone, ShortMessagesArrive
<1> QED
  BY <1>1, <1>2, <1>3, <1>4, <1>5, <1>6, <1>7, <1>8, <1>9 DEF Next, Recv

(* A message that is not too long for the sequence numbers is received,     *)
(* unless something was lost, late or foreign: for every modulus, message   *)
(* and payload size.  In particular the receiver's unmasked counter, the    *)
(* padding and an exactly filled last fragment are harmless below that size. *)
THEOREM ShortMessagesHold == Spec => []ShortMessagesArrive
<1>1. Init => ArriveInv
  <2> SUFFICES ASSUME Init
               PROVE  ArriveInv
    OBVIOUS
  <2>1. BytesInv
    BY InitBytes
  <2>2. Numbered /\ CutSum /\ NotFull /\ LastUnderWay /\ ShortMessagesArrive
    BY DEF Init, Numbered, CutSum, NotFull, LastUnderWay, SendDone, ShortMessagesArrive
  <2> QED
    BY <2>1, <2>2 DEF ArriveInv
<1>2. ArriveInv /\ [Next]_vars => ArriveInv'
  BY NextArrives
<1>3. ArriveInv => ShortMessagesArrive
  BY DEF ArriveInv
<1> QED
  BY <1>1, <1>2, <1>3, PTL DEF Spec
=============================================================================
