------------------------- MODULE CtapTransactionProofs -------------------------
(***************************************************************************)
(* Theorems about CtapTransaction for every value of its constants.        *)
(***************************************************************************)
EXTENDS CtapTransaction, SequenceTheorems, TLAPS

-----------------------------------------------------------------------------
(* Queues: what appending and removing a frame leaves at each place *)

LEMMA AppendAt ==
  ASSUME NEW S, NEW s \in Seq(S), NEW e \in S
  PROVE  /\ Append(s, e) \in Seq(S)
         /\ \A i \in DOMAIN Append(s, e) :
              \/ i \in DOMAIN s /\ Append(s, e)[i] = s[i]
              \/ i = Len(s) + 1 /\ Append(s, e)[i] = e
<1>1. /\ Append(s, e) \in Seq(S)
      /\ Len(Append(s, e)) = Len(s) + 1
      /\ \A i \in 1..Len(s) : Append(s, e)[i] = s[i]
      /\ Append(s, e)[Len(s) + 1] = e
  BY AppendProperties
<1>2. DOMAIN s = 1..Len(s) /\ Len(s) \in Nat
  BY LenProperties
<1>3. DOMAIN Append(s, e) = 1..(Len(s) + 1)
  BY <1>1, LenProperties
<1> QED
  BY <1>1, <1>2, <1>3

LEMMA NoneAt ==
  DOMAIN << >> = {} /\ Len(<< >>) = 0
OBVIOUS

LEMMA TailAt ==
  ASSUME NEW S, NEW s \in Seq(S), s # << >>
  PROVE  /\ Tail(s) \in Seq(S)
         /\ Head(s) \in S /\ 1 \in DOMAIN s /\ Head(s) = s[1]
         /\ \A i \in DOMAIN Tail(s) :
              i \in Nat \ {0} /\ i + 1 \in DOMAIN s /\ Tail(s)[i] = s[i + 1]
<1>1. /\ Tail(s) \in Seq(S) /\ Head(s) \in S
      /\ Len(Tail(s)) = Len(s) - 1
      /\ \A i \in 1..Len(Tail(s)) : Tail(s)[i] = s[i + 1]
  BY HeadTailProperties
<1>2. Len(s) \in Nat \ {0}
  BY EmptySeq
<1>3. DOMAIN s = 1..Len(s) /\ DOMAIN Tail(s) = 1..Len(Tail(s))
  BY <1>1, LenProperties
<1>4. Head(s) = s[1]
  OBVIOUS
<1> QED
  BY <1>1, <1>2, <1>3, <1>4

-----------------------------------------------------------------------------
(* Types *)

(* The codes of a frame are those of its command; an answer has a channel. *)
WellFormed(f) ==
  /\ f.cmd = "keepAlive" => f.code = "status"
  /\ f.cmd = "error" => f.code \in ErrorCodes
  /\ f.cmd = "cbor" => f.chan # Broadcast

QueueOK ==
  /\ queue \in [Clis -> Seq(Frames)]
  /\ \A g \in Clis : g > cli => queue[g] = << >>
  /\ \A g \in Clis : \A i \in DOMAIN queue[g] : WellFormed(queue[g][i])

(* A call has a cli as soon as it is made. *)
MadeInv == \A c \in Calls : pc[c] = "new" <=> on[c] = 0

TypeInv == TypeOK /\ QueueOK /\ MadeInv

LEMMA CliRange ==
  ASSUME TypeOK
  PROVE  /\ Clis \subseteq Nat /\ cli \in Nat /\ cli <= MaxClis /\ MaxClis \in Nat /\ 1..cli \subseteq Clis
         /\ 0..cli \subseteq 0..Foreign /\ Foreign \notin 0..cli
         /\ \A g \in 1..cli : g \in Clis /\ g # 0 /\ g # Broadcast /\ g # Foreign
         /\ MaxCalls \in Nat /\ Calls \subseteq 0..MaxCalls
  BY ConstantsAssumption DEF ConstantsAssumption, TypeOK, Clis, Foreign, Broadcast, Calls

LEMMA FrameType ==
  ASSUME TypeOK, NEW cmd \in Commands, NEW code \in Codes, NEW c \in 0..MaxCalls,
         NEW g \in 0..Foreign
  PROVE  [cmd |-> cmd, code |-> code, call |-> c, chan |-> g] \in Frames
  BY DEF Frames

LEMMA DeliverType ==
  ASSUME TypeOK, QueueOK, cli' = cli, NEW f \in Frames, WellFormed(f), Deliver(f)
  PROVE  QueueOK'
<1>1. \A g \in Clis : queue'[g] = IF g \in linked THEN Append(queue[g], f) ELSE queue[g]
  BY DEF Deliver
<1>2. \A g \in Clis : /\ queue[g] \in Seq(Frames)
                      /\ Append(queue[g], f) \in Seq(Frames)
                      /\ \A i \in DOMAIN Append(queue[g], f) :
                           \/ i \in DOMAIN queue[g] /\ Append(queue[g], f)[i] = queue[g][i]
                           \/ i = Len(queue[g]) + 1 /\ Append(queue[g], f)[i] = f
  BY AppendAt DEF TypeOK
<1>3. queue' \in [Clis -> Seq(Frames)]
  BY <1>2 DEF Deliver
<1>4. ASSUME NEW g \in Clis, g > cli
      PROVE  queue'[g] = << >>
  <2>1. g \notin linked /\ queue[g] = << >>
    BY <1>4, CliRange DEF TypeOK
  <2> QED
    BY <1>1, <2>1
<1>5. ASSUME NEW g \in Clis, NEW i \in DOMAIN queue'[g]
      PROVE  WellFormed(queue'[g][i])
  <2>1. CASE g \in linked
    <3>1. \/ i \in DOMAIN queue[g] /\ queue'[g][i] = queue[g][i]
          \/ queue'[g][i] = f
      BY <1>1, <1>2, <1>5, <2>1
    <3> QED
      BY <3>1 DEF QueueOK
  <2>2. CASE g \notin linked
    BY <1>1, <1>5, <2>2 DEF QueueOK
  <2> QED
    BY <2>1, <2>2
<1> QED
  BY <1>3, <1>4, <1>5 DEF QueueOK, WellFormed

LEMMA ConsumedType ==
  ASSUME TypeOK, QueueOK, cli' = cli, NEW c \in Calls, on[c] # 0, queue[on[c]] # << >>,
         Consumed(c)
  PROVE  QueueOK'
<1>1. on[c] \in Clis /\ on[c] \in 1..cli
  BY CliRange DEF TypeOK
<1>2. queue[on[c]] \in Seq(Frames)
  BY <1>1 DEF TypeOK
<1>3. /\ Tail(queue[on[c]]) \in Seq(Frames)
      /\ \A i \in DOMAIN Tail(queue[on[c]]) :
           i + 1 \in DOMAIN queue[on[c]] /\ Tail(queue[on[c]])[i] = queue[on[c]][i + 1]
  BY <1>2, TailAt
<1>4. \A g \in Clis : queue'[g] = IF g = on[c] THEN Tail(queue[g]) ELSE queue[g]
  BY DEF Consumed, TypeOK
<1>5. queue' \in [Clis -> Seq(Frames)]
  BY <1>3 DEF Consumed, TypeOK
<1>6. \A g \in Clis : g > cli => queue'[g] = << >>
  BY <1>1, <1>4 DEF TypeOK
<1>7. ASSUME NEW g \in Clis, NEW i \in DOMAIN queue'[g]
      PROVE  WellFormed(queue'[g][i])
  <2>1. CASE g = on[c]
    <3>1. i \in DOMAIN Tail(queue[g]) /\ queue'[g] = Tail(queue[g])
      BY <1>4, <2>1
    <3> QED
      BY <1>3, <2>1, <3>1 DEF QueueOK
  <2>2. CASE g # on[c]
    BY <1>4, <2>2 DEF QueueOK
  <2> QED
    BY <2>1, <2>2
<1> QED
  BY <1>5, <1>6, <1>7 DEF QueueOK, WellFormed

LEMMA RequestedType ==
  ASSUME TypeOK, QueueOK, cli' = cli, NEW c \in Calls, on'[c] \in 1..cli, Requested(c)
  PROVE  QueueOK' /\ device' \in {device, c}
<1>1. CASE queue' = queue
  BY <1>1 DEF QueueOK, WellFormed, Requested, Ignored
<1>2. ASSUME Deliver(Frame("error", "busy", c))
      PROVE  QueueOK'
  <2>1. on'[c] \in 0..Foreign /\ c \in 0..MaxCalls
    BY CliRange
  <2>2. /\ "error" \in Commands /\ "busy" \in Codes
        /\ WellFormed(Frame("error", "busy", c))
    BY DEF Commands, Codes, ErrorCodes, WellFormed, Frame
  <2>3. Frame("error", "busy", c) \in Frames
    BY <2>1, <2>2, FrameType DEF Frame
  <2> QED
    BY <1>2, <2>2, <2>3, DeliverType
<1>3. device' \in {device, c}
  BY DEF Requested, Ignored
<1> QED
  BY <1>1, <1>2, <1>3 DEF Requested, Ignored

(* What the card's response leaves. *)
LEMMA RespondsType ==
  ASSUME TypeOK, QueueOK, cli' = cli, NEW g \in 1..cli, NEW c \in 0..MaxCalls,
         NEW before \in Seq(Frames), \A i \in DOMAIN before : WellFormed(before[i]),
         Responds(g, c, before)
  PROVE  QueueOK' /\ device' \in {0, c} /\ extras' \in 0..1
<1>1. device' \in {0, c}
  BY DEF Responds
<1>2. extras' \in 0..1
  BY DEF Responds, ExtraFrame, TypeOK
<1>3. PICK new \in {before} \cup {Append(before, f) : f \in {h \in Frames : WellFormed(h)}} :
        queue' = [queue EXCEPT ![g] = new]
  <2> DEFINE Reply(cmd, code) == [cmd |-> cmd, code |-> code, call |-> c, chan |-> g]
  <2>1. g \in 0..Foreign /\ g # Broadcast
    BY CliRange
  <2>2. \A cmd \in Commands, code \in Codes : Reply(cmd, code) \in Frames
    BY <2>1 DEF Frames
  <2>3. /\ "ok" \in Codes /\ "error" \in Codes /\ "none" \in Codes /\ "status" \in Codes
        /\ "cbor" \in Commands /\ "more" \in Commands /\ "keepAlive" \in Commands
    BY DEF Codes, Commands
  <2>4. /\ \A code \in {"ok", "error"} : WellFormed(Reply("cbor", code))
        /\ WellFormed(Reply("more", "none")) /\ WellFormed(Reply("keepAlive", "status"))
    BY <2>1 DEF WellFormed
  <2>5. \/ queue' = [queue EXCEPT ![g] = before]
        \/ \E code \in {"ok", "error"} : queue' = [queue EXCEPT ![g] = Append(before, Reply("cbor", code))]
        \/ queue' = [queue EXCEPT ![g] = Append(before, Reply("more", "none"))]
        \/ queue' = [queue EXCEPT ![g] = Append(before, Reply("keepAlive", "status"))]
    BY DEF Responds
  <2> HIDE DEF Reply
  <2> QED
    BY <2>2, <2>3, <2>4, <2>5
<1>4. new \in Seq(Frames) /\ \A i \in DOMAIN new : WellFormed(new[i])
  <2>1. CASE new = before
    BY <2>1
  <2>2. ASSUME NEW f \in Frames, WellFormed(f), new = Append(before, f)
        PROVE  new \in Seq(Frames) /\ \A i \in DOMAIN new : WellFormed(new[i])
    BY <2>2, AppendAt
  <2> QED
    BY <1>3, <2>1, <2>2
<1>5. g \in Clis
  BY CliRange
<1>6. \A h \in Clis : queue'[h] = IF h = g THEN new ELSE queue[h]
  BY <1>3, <1>5 DEF TypeOK
<1>7. queue' \in [Clis -> Seq(Frames)]
  <2>1. queue \in [Clis -> Seq(Frames)]
    BY DEF TypeOK
  <2> QED
    BY <1>3, <1>4, <1>5, <2>1
<1>8. \A h \in Clis : h > cli => queue'[h] = << >>
  <2>1. \A h \in Clis : h > cli => h # g
    BY CliRange
  <2> QED
    BY <1>6, <2>1 DEF QueueOK
<1>9. \A h \in Clis : \A i \in DOMAIN queue'[h] : WellFormed(queue'[h][i])
  BY <1>6, <1>4 DEF QueueOK
<1>10. QueueOK'
  BY <1>7, <1>8, <1>9 DEF QueueOK, WellFormed
<1> QED
  BY <1>1, <1>2, <1>10

LEMMA MakeType ==
  ASSUME TypeInv, NEW c \in Calls, Make(c)
  PROVE  /\ cli \in 1..MaxClis /\ cli \in 1..cli /\ cli \in Clis /\ c # 0 /\ c \in 0..MaxCalls
         /\ on[c] = 0 /\ pc[c] = "new"
         /\ on' \in [Calls -> 0..cli] /\ on'[c] = cli
         /\ \A d \in Calls \ {c} : on'[d] = on[d]
         /\ ongoing' \subseteq 1..cli /\ muddled' \subseteq 1..cli
         /\ UNCHANGED <<kind, cli, closed, answer, emitted>>
<1>1. cli # 0 /\ pc[c] = "new" /\ on' = [on EXCEPT ![c] = cli] /\ ongoing' = ongoing \cup {cli}
  BY DEF Make
<1>2. on[c] = 0
  BY <1>1 DEF TypeInv, MadeInv
<1>3. cli \in 1..MaxClis /\ cli \in 1..cli /\ cli \in Clis
  BY <1>1, CliRange DEF TypeInv, Clis
<1>4. muddled' \subseteq muddled \cup 1..cli \cup {cli}
  <2>1. Rivals \subseteq 1..cli
    BY DEF Rivals
  <2>2. muddled' = muddled \/ muddled' = muddled \cup Rivals \cup {cli}
    BY DEF Make
  <2> QED
    BY <2>1, <2>2
<1>5. /\ muddled' \subseteq 1..cli /\ ongoing' \subseteq 1..cli
      /\ UNCHANGED <<kind, cli, closed, answer, emitted>>
  BY <1>1, <1>3, <1>4 DEF Make, TypeInv, TypeOK
<1> QED
  BY <1>1, <1>2, <1>3, <1>5 DEF TypeInv, TypeOK, Calls

(* A call that is made, and what else of the state the step leaves typed. *)
LEMMA MakeStepType ==
  ASSUME TypeInv, NEW c \in Calls, Make(c),
         NEW how \in Waiting \cup Ended, pc' = [pc EXCEPT ![c] = how],
         QueueOK', linked' \subseteq 1..cli, device' \in {0, device, c}, extras' \in 0..1,
         status' \in [Clis -> {"unavailable", "initializing", "initialized"}]
  PROVE  TypeInv'
<1>1. /\ on' \in [Calls -> 0..cli] /\ on'[c] = cli /\ cli # 0 /\ on[c] = 0 /\ pc[c] = "new"
      /\ \A d \in Calls \ {c} : on'[d] = on[d]
      /\ ongoing' \subseteq 1..cli /\ muddled' \subseteq 1..cli
      /\ UNCHANGED <<kind, cli, closed, answer, emitted>>
  BY MakeType
<1>2. how # "new" /\ pc' \in [Calls -> {"new"} \cup Waiting \cup Ended]
  BY DEF TypeInv, TypeOK, Waiting, Ended
<1>3. MadeInv'
  BY <1>1, <1>2 DEF TypeInv, TypeOK, MadeInv
<1>4. device' \in 0..MaxCalls /\ (device' # 0 => on'[device'] # 0)
  BY <1>1, CliRange DEF TypeInv, TypeOK, Calls
<1>5. TypeOK'
  BY <1>1, <1>2, <1>4 DEF TypeInv, TypeOK, QueueOK
<1> QED
  BY <1>3, <1>5 DEF TypeInv

LEMMA SentType ==
  ASSUME TypeOK, QueueOK, cli' = cli, NEW c \in Calls, on'[c] \in 1..cli, Sent(c)
  PROVE  /\ QueueOK' /\ device' \in {0, device, c}
         /\ \E how \in {"recv", "failed"} : pc' = [pc EXCEPT ![c] = how]
<1>1. CASE Requested(c)
  BY <1>1, RequestedType DEF Sent
<1>2. CASE Ignored
  BY <1>2 DEF Sent, Ignored, QueueOK, WellFormed
<1> QED
  BY <1>1, <1>2 DEF Sent

LEMMA SendType ==
  ASSUME TypeInv, NEW c \in Calls,
         TooLarge(c) \/ SendInit(c) \/ SendUsb(c) \/ SendBle(c) \/ SendNfc(c)
  PROVE  TypeInv'
<1> Make(c)
  BY DEF TooLarge, SendInit, SendUsb, SendBle, SendNfc
<1> TypeOK /\ QueueOK
  BY DEF TypeInv
<1>1. /\ cli \in 1..cli /\ cli \in Clis /\ cli' = cli /\ on'[c] = cli
      /\ c \in 0..MaxCalls /\ on' \in [Calls -> 0..cli]
  BY MakeType
<1>2. {"recv", "failed", "init"} \subseteq Waiting \cup Ended
  BY DEF Waiting, Ended
<1>3. /\ linked \subseteq 1..cli /\ extras \in 0..1
      /\ status \in [Clis -> {"unavailable", "initializing", "initialized"}]
  BY DEF TypeOK
<1>4. CASE TooLarge(c)
  <2>1. QueueOK'
    BY <1>1, <1>4 DEF TooLarge, QueueOK, WellFormed
  <2> QED
    BY <1>2, <1>3, <1>4, <2>1, MakeStepType DEF TooLarge
<1>5. CASE SendInit(c)
  <2>1. QueueOK'
    <3>1. CASE queue' = queue
      BY <1>1, <3>1 DEF QueueOK, WellFormed
    <3>2. ASSUME NEW cmd \in {"init", "error"}, NEW code \in {"none", "busy"},
                 cmd = "error" => code = "busy",
                 Deliver([cmd |-> cmd, code |-> code, call |-> c, chan |-> Broadcast])
          PROVE  QueueOK'
      <4> DEFINE f == [cmd |-> cmd, code |-> code, call |-> c, chan |-> Broadcast]
      <4>1. cmd \in Commands /\ code \in Codes /\ Broadcast \in 0..Foreign
        BY CliRange DEF Commands, Codes, ErrorCodes, Broadcast, Foreign
      <4>2. f \in Frames
        BY <1>1, <4>1, FrameType
      <4>3. WellFormed(f)
        BY <3>2 DEF WellFormed, ErrorCodes
      <4> HIDE DEF f
      <4> QED
        BY <1>1, <3>2, <4>2, <4>3, DeliverType DEF f
    <3> QED
      BY <1>5, <3>1, <3>2 DEF SendInit
  <2>2. status' \in [Clis -> {"unavailable", "initializing", "initialized"}]
    BY <1>3, <1>5 DEF SendInit
  <2> QED
    BY <1>2, <1>3, <1>5, <2>1, <2>2, MakeStepType DEF SendInit
<1>6. CASE SendUsb(c)
  <2>1. /\ QueueOK' /\ device' \in {0, device, c}
        /\ \E how \in {"recv", "failed"} : pc' = [pc EXCEPT ![c] = how]
    BY <1>1, <1>6, SentType DEF SendUsb
  <2> QED
    BY <1>2, <1>3, <1>6, <2>1, MakeStepType DEF SendUsb
<1>7. CASE SendBle(c)
  <2>1. /\ QueueOK' /\ device' \in {0, device, c}
        /\ \E how \in {"recv", "failed"} : pc' = [pc EXCEPT ![c] = how]
    <3>1. CASE Sent(c)
      BY <1>1, <3>1, SentType
    <3>2. CASE pc' = [pc EXCEPT ![c] = "failed"] /\ Ignored
      BY <1>1, <3>2 DEF Ignored, QueueOK, WellFormed
    <3> QED
      BY <1>7, <3>1, <3>2 DEF SendBle
  <2>2. /\ linked' \subseteq 1..cli
        /\ status' \in [Clis -> {"unavailable", "initializing", "initialized"}]
    BY <1>1, <1>3, <1>7 DEF SendBle
  <2> QED
    BY <1>2, <1>3, <1>7, <2>1, <2>2, MakeStepType DEF SendBle
<1>8. CASE SendNfc(c)
  <2>1. /\ QueueOK' /\ device' \in {0, device, c} /\ extras' \in 0..1
        /\ \E how \in {"recv", "failed"} : pc' = [pc EXCEPT ![c] = how]
    <3>1. CASE pc' = [pc EXCEPT ![c] = "recv"] /\ Responds(cli, c, queue[cli])
      <4>1. queue[cli] \in Seq(Frames) /\ \A i \in DOMAIN queue[cli] : WellFormed(queue[cli][i])
        BY <1>1 DEF QueueOK
      <4> QED
        BY <1>1, <3>1, <4>1, RespondsType
    <3>2. CASE pc' = [pc EXCEPT ![c] = "failed"] /\ Ignored /\ UNCHANGED extras
      BY <1>1, <1>3, <3>2 DEF Ignored, QueueOK, WellFormed
    <3> QED
      BY <1>8, <3>1, <3>2 DEF SendNfc
  <2> QED
    BY <1>2, <1>3, <1>8, <2>1, MakeStepType DEF SendNfc
<1> QED
  BY <1>4, <1>5, <1>6, <1>7, <1>8

(* A call that goes on: it keeps its cli. *)
LEMMA GoOnType ==
  ASSUME TypeInv, NEW c \in Calls, pc[c] # "new",
         pc' \in {pc} \cup {[pc EXCEPT ![c] = how] : how \in Waiting \cup Ended},
         QueueOK', UNCHANGED <<kind, cli, closed, linked, on, muddled>>,
         device' \in {0, device, c}, extras' \in 0..1,
         status' \in [Clis -> {"unavailable", "initializing", "initialized"}],
         ongoing' \subseteq ongoing, answer' \in [Calls -> SUBSET (0..MaxCalls)],
         emitted' \in {"none", "status"} \cup ErrorCodes
  PROVE  TypeInv'
<1>1. on[c] # 0
  BY DEF TypeInv, MadeInv
<1>2. pc' \in [Calls -> {"new"} \cup Waiting \cup Ended]
  BY DEF TypeInv, TypeOK
<1>3. MadeInv'
  BY <1>1 DEF TypeInv, TypeOK, MadeInv, Waiting, Ended
<1>4. device' \in 0..MaxCalls /\ (device' # 0 => on[device'] # 0)
  BY <1>1, CliRange DEF TypeInv, TypeOK, Calls
<1>5. TypeOK'
  BY <1>2, <1>4 DEF TypeInv, TypeOK, QueueOK
<1> QED
  BY <1>3, <1>5 DEF TypeInv

LEMMA IncomingType ==
  ASSUME TypeInv, NEW c \in Calls, pc[c] # "new", Reads(c)
  PROVE  /\ on[c] \in 1..cli /\ on[c] \in Clis /\ on[c] # 0 /\ queue[on[c]] # << >>
         /\ Incoming(c) \in Frames /\ WellFormed(Incoming(c))
         /\ Tail(queue[on[c]]) \in Seq(Frames)
         /\ \A i \in DOMAIN Tail(queue[on[c]]) : WellFormed(Tail(queue[on[c]])[i])
         /\ UNCHANGED <<kind, cli, closed, linked, on, muddled>>
<1>1. on[c] \in 1..cli /\ on[c] \in Clis /\ on[c] # 0
  BY CliRange DEF TypeInv, TypeOK, MadeInv
<1>2. queue[on[c]] \in Seq(Frames) /\ queue[on[c]] # << >>
  BY <1>1 DEF TypeInv, TypeOK, Reads
<1>3. \A i \in DOMAIN queue[on[c]] : WellFormed(queue[on[c]][i])
  BY <1>1 DEF TypeInv, QueueOK
<1>4. /\ Tail(queue[on[c]]) \in Seq(Frames) /\ Incoming(c) \in Frames
      /\ 1 \in DOMAIN queue[on[c]] /\ Incoming(c) = queue[on[c]][1]
      /\ \A i \in DOMAIN Tail(queue[on[c]]) :
           i + 1 \in DOMAIN queue[on[c]] /\ Tail(queue[on[c]])[i] = queue[on[c]][i + 1]
  BY <1>2, TailAt DEF Incoming
<1> QED
  BY <1>1, <1>2, <1>3, <1>4 DEF Reads

LEMMA HostStepType ==
  ASSUME TypeInv, NEW c \in Calls, HostStep(c)
  PROVE  TypeInv'
<1> TypeOK /\ QueueOK
  BY DEF TypeInv
<1>1. /\ status \in [Clis -> {"unavailable", "initializing", "initialized"}]
      /\ answer \in [Calls -> SUBSET (0..MaxCalls)] /\ extras \in 0..1
      /\ emitted \in {"none", "status"} \cup ErrorCodes
  BY DEF TypeOK
<1>2. {"recv", "send", "pause", "failed", "refused", "returned"} \subseteq Waiting \cup Ended
  BY DEF Waiting, Ended
<1>3. pc[c] # "new"
  BY DEF HostStep, ReceiveInit, SendAfterInit, ReceiveUsb, ReceiveBle, ReceiveNfc, ReceiveFails,
         Resume
<1>4. CASE SendAfterInit(c)
  <2>1. on'[c] \in 1..cli /\ UNCHANGED <<kind, cli, closed, linked, status, ongoing, on, answer,
                                          emitted, muddled, extras>>
    BY <1>3, <1>4, CliRange DEF SendAfterInit, cliVars, TypeInv, TypeOK, MadeInv
  <2>2. /\ QueueOK' /\ device' \in {0, device, c}
        /\ \E how \in {"recv", "failed"} : pc' = [pc EXCEPT ![c] = how]
    BY <1>4, <2>1, SentType DEF SendAfterInit
  <2> QED
    BY <1>1, <1>2, <1>3, <2>1, <2>2, GoOnType
<1>5. CASE ReceiveFails(c) \/ Resume(c)
  <2>1. /\ \E how \in {"recv", "failed"} : pc' = [pc EXCEPT ![c] = how]
        /\ UNCHANGED <<kind, cli, closed, linked, status, ongoing, on, answer, emitted, muddled,
                       device, extras, queue>>
    BY <1>5 DEF ReceiveFails, Resume, Ends, cliVars, deviceVars
  <2>2. QueueOK'
    BY <2>1 DEF QueueOK, WellFormed
  <2> QED
    BY <1>1, <1>2, <1>3, <2>1, <2>2, GoOnType
<1>6. CASE ReceiveInit(c)
  <2>1. Reads(c) /\ Consumed(c)
    BY <1>6 DEF ReceiveInit
  <2>2. QueueOK' /\ UNCHANGED <<kind, cli, closed, linked, on, muddled>>
    BY <1>3, <2>1, IncomingType, ConsumedType
  <2>3. status' \in [Clis -> {"unavailable", "initializing", "initialized"}]
    BY <1>1, <1>6 DEF ReceiveInit
  <2>4. /\ \E how \in {"send", "failed"} : pc' = [pc EXCEPT ![c] = how]
        /\ UNCHANGED <<ongoing, answer, emitted, device, extras>>
    BY <1>6 DEF ReceiveInit, Ends, deviceVars
  <2>5. pc' \in {pc} \cup {[pc EXCEPT ![c] = how] : how \in Waiting \cup Ended}
    BY <1>2, <2>4
  <2>6. /\ ongoing' \subseteq ongoing /\ answer' \in [Calls -> SUBSET (0..MaxCalls)]
        /\ emitted' \in {"none", "status"} \cup ErrorCodes
        /\ extras' \in 0..1 /\ device' \in {0, device, c}
    BY <1>1, <2>4
  <2> QED
    BY <1>3, <2>2, <2>3, <2>5, <2>6, GoOnType
<1>7. CASE ReceiveUsb(c) \/ ReceiveBle(c)
  <2>1. Reads(c) /\ Consumed(c) /\ UNCHANGED <<status, device, extras>>
    BY <1>7 DEF ReceiveUsb, ReceiveBle, deviceVars
  <2>2. QueueOK' /\ UNCHANGED <<kind, cli, closed, linked, on, muddled>>
    BY <1>3, <2>1, IncomingType, ConsumedType
  <2>3. Incoming(c) \in Frames /\ WellFormed(Incoming(c))
    BY <1>3, <2>1, IncomingType
  <2>4. /\ ongoing' \subseteq ongoing
        /\ \E how \in {"returned", "refused", "pause", "failed"} : pc' = [pc EXCEPT ![c] = how]
    BY <1>7 DEF ReceiveUsb, ReceiveBle, OnCbor, OnError, OnKeepAlive, Throws, Ends
  <2>5. answer' \in [Calls -> SUBSET (0..MaxCalls)]
    <3>1. answer' \in {answer, [answer EXCEPT ![c] = @ \cup {Incoming(c).call}]}
      BY <1>7 DEF ReceiveUsb, ReceiveBle, OnCbor, OnError, OnKeepAlive, Throws
    <3>2. Incoming(c).call \in 0..MaxCalls
      BY <2>3 DEF Frames
    <3> QED
      BY <1>1, <3>1, <3>2
  <2>6. emitted' \in {"none", "status"} \cup ErrorCodes
    <3>1. \/ emitted' = emitted
          \/ Incoming(c).cmd \in {"error", "keepAlive"} /\ emitted' = Incoming(c).code
      BY <1>7 DEF ReceiveUsb, ReceiveBle, OnCbor, OnError, OnKeepAlive, Throws
    <3> QED
      BY <1>1, <2>3, <3>1 DEF WellFormed
  <2> QED
    BY <1>1, <1>2, <1>3, <2>1, <2>2, <2>4, <2>5, <2>6, GoOnType
<1>8. CASE ReceiveNfc(c)
  <2>1. Reads(c) /\ UNCHANGED status
    BY <1>8 DEF ReceiveNfc
  <2>2. /\ on[c] \in 1..cli /\ on[c] # 0 /\ queue[on[c]] # << >>
        /\ Incoming(c) \in Frames /\ WellFormed(Incoming(c))
        /\ Tail(queue[on[c]]) \in Seq(Frames)
        /\ \A i \in DOMAIN Tail(queue[on[c]]) : WellFormed(Tail(queue[on[c]])[i])
        /\ UNCHANGED <<kind, cli, closed, linked, on, muddled>>
    BY <1>3, <2>1, IncomingType
  <2>3. Incoming(c).call \in 0..MaxCalls
    BY <2>2 DEF Frames
  <2>4. QueueOK' /\ device' \in {0, device} /\ extras' \in 0..1
    <3>1. CASE Consumed(c) /\ UNCHANGED deviceVars
      BY <1>1, <2>2, <3>1, ConsumedType DEF deviceVars
    <3>2. CASE Responds(on[c], device, Tail(queue[on[c]]))
      <4>1. device \in 0..MaxCalls
        BY DEF TypeOK
      <4> QED
        BY <2>2, <3>2, <4>1, RespondsType
    <3> QED
      BY <1>8, <3>1, <3>2 DEF ReceiveNfc
  <2>5. /\ ongoing' \subseteq ongoing
        /\ pc' = pc \/ \E how \in {"returned", "refused"} : pc' = [pc EXCEPT ![c] = how]
    BY <1>8 DEF ReceiveNfc, OnCbor, Ends
  <2>6. answer' \in [Calls -> SUBSET (0..MaxCalls)]
    <3>1. answer' \in {[answer EXCEPT ![c] = {}], [answer EXCEPT ![c] = @ \cup {Incoming(c).call}]}
      BY <1>8 DEF ReceiveNfc, OnCbor
    <3> QED
      BY <1>1, <2>3, <3>1
  <2>7. emitted' \in {"none", "status"} \cup ErrorCodes
    <3>1. \/ emitted' = emitted
          \/ Incoming(c).cmd = "keepAlive" /\ emitted' = Incoming(c).code
      BY <1>8 DEF ReceiveNfc, OnCbor
    <3> QED
      BY <1>1, <2>2, <3>1 DEF WellFormed
  <2> QED
    BY <1>2, <1>3, <2>1, <2>2, <2>4, <2>5, <2>6, <2>7, <1>1, GoOnType
<1> QED
  BY <1>4, <1>5, <1>6, <1>7, <1>8 DEF HostStep

LEMMA CliType ==
  ASSUME TypeInv, Open \/ Close \/ Disconnected
  PROVE  TypeInv'
<1>1. CASE Open
  <2>1. /\ cli' = cli + 1 /\ linked' \subseteq linked \cup {cli + 1} /\ cli < MaxClis
        /\ UNCHANGED <<kind, closed, status, ongoing, on, pc, answer, emitted, muddled,
                       device, extras, queue>>
    BY <1>1 DEF Open, callVars, deviceVars
  <2>2. cli' \in 0..MaxClis /\ 1..cli \subseteq 1..cli' /\ 0..cli \subseteq 0..cli' /\ cli + 1 \in 1..cli'
    BY <2>1, CliRange DEF TypeInv
  <2>3. QueueOK' /\ MadeInv'
    BY <2>1, CliRange DEF TypeInv, QueueOK, MadeInv, WellFormed
  <2>4. linked' \subseteq 1..cli' /\ on' \in [Calls -> 0..cli']
    BY <2>1, <2>2 DEF TypeInv, TypeOK
  <2>5. TypeOK'
    BY <2>1, <2>2, <2>3, <2>4 DEF TypeInv, TypeOK, QueueOK
  <2> QED
    BY <2>3, <2>5 DEF TypeInv
<1>2. CASE Close \/ Disconnected
  <2>1. /\ closed' = closed \/ (cli # 0 /\ closed' = closed \cup {cli})
        /\ linked' \subseteq linked /\ device' \in {0, device}
        /\ UNCHANGED <<kind, cli, status, ongoing, on, pc, answer, emitted, muddled, extras, queue>>
    BY <1>2 DEF Close, Disconnected, callVars, deviceVars
  <2>2. closed' \subseteq 1..cli'
    <3>1. cli \in Nat /\ closed \subseteq 1..cli
      BY CliRange DEF TypeInv, TypeOK
    <3>2. cli # 0 => cli \in 1..cli
      BY <3>1
    <3> QED
      BY <2>1, <3>1, <3>2
  <2>3. QueueOK' /\ MadeInv'
    BY <2>1 DEF TypeInv, QueueOK, MadeInv, WellFormed
  <2>4. device' \in 0..MaxCalls
    BY <2>1, CliRange DEF TypeInv, TypeOK
  <2>5. TypeOK'
    BY <2>1, <2>2, <2>3, <2>4 DEF TypeInv, TypeOK, QueueOK
  <2> QED
    BY <2>3, <2>5 DEF TypeInv
<1> QED
  BY <1>1, <1>2

LEMMA AuthenticatorType ==
  ASSUME TypeInv, Cancel \/ DeviceAnswers \/ DeviceKeepsAlive \/ ForeignFrame
  PROVE  TypeInv'
<1> TypeOK /\ QueueOK
  BY DEF TypeInv
<1>1. /\ device' \in {0, device} /\ extras' \in 0..1
      /\ UNCHANGED <<kind, cli, closed, linked, status, ongoing, on, pc, answer, emitted, muddled>>
  <2>1. extras \in 0..1
    BY DEF TypeOK
  <2> QED
    BY <2>1 DEF Cancel, DeviceAnswers, DeviceKeepsAlive, ForeignFrame, ExtraFrame, cliVars, callVars
<1>2. /\ device \in 0..MaxCalls /\ 0 \in 0..MaxCalls
      /\ Foreign \in 0..Foreign /\ Foreign # Broadcast /\ cli \in 0..Foreign
  <2>1. cli \in Nat /\ MaxClis \in Nat /\ MaxCalls \in Nat /\ cli \in 0..Foreign
    BY CliRange
  <2> QED
    BY <2>1 DEF TypeOK, Foreign, Broadcast
<1>3. ASSUME device # 0
      PROVE  on[device] \in 0..Foreign /\ on[device] # Broadcast
  <2>1. device \in Calls
    BY <1>2, <1>3 DEF Calls, TypeOK
  <2>2. on[device] \in 0..cli /\ on[device] # 0
    BY <1>3, <2>1 DEF TypeOK
  <2> QED
    BY <2>2, CliRange DEF Broadcast
<1>4. \E cmd \in Commands, code \in Codes, c \in 0..MaxCalls, g \in 0..Foreign :
        /\ WellFormed([cmd |-> cmd, code |-> code, call |-> c, chan |-> g])
        /\ Deliver([cmd |-> cmd, code |-> code, call |-> c, chan |-> g])
  <2>1. /\ {"cbor", "cancel", "error", "keepAlive"} \subseteq Commands
        /\ {"ok", "error", "none", "status", "fatal", "busy", "unlisted"} \subseteq Codes
    BY DEF Commands, Codes, ErrorCodes
  <2>2. CASE Cancel
    <3>1. device # 0
      BY <2>2 DEF Cancel
    <3>2. \E cmd \in {"cbor", "cancel"}, code \in {"error", "none"} :
            Deliver([cmd |-> cmd, code |-> code, call |-> device, chan |-> on[device]])
      BY <2>2 DEF Cancel
    <3> QED
      BY <2>1, <3>1, <3>2, <1>2, <1>3 DEF WellFormed
  <2>3. CASE DeviceAnswers \/ DeviceKeepsAlive
    <3>1. device # 0
      BY <2>3 DEF DeviceAnswers, DeviceKeepsAlive, Executing
    <3>2. \E cmd \in {"cbor", "error", "keepAlive"}, code \in {"ok", "error", "fatal", "status"} :
            /\ cmd = "error" => code = "fatal"
            /\ cmd = "keepAlive" => code = "status"
            /\ Deliver([cmd |-> cmd, code |-> code, call |-> device, chan |-> on[device]])
      BY <2>3 DEF DeviceAnswers, DeviceKeepsAlive
    <3> QED
      BY <2>1, <3>1, <3>2, <1>2, <1>3 DEF WellFormed, ErrorCodes
  <2>4. CASE ForeignFrame
    BY <2>1, <2>4, <1>2 DEF ForeignFrame, WellFormed, ErrorCodes
  <2> QED
    BY <2>2, <2>3, <2>4
<1>5. QueueOK'
  <2>1. PICK f \in Frames : WellFormed(f) /\ Deliver(f)
    BY <1>4, FrameType
  <2> QED
    BY <1>1, <2>1, DeliverType
<1>6. MadeInv'
  BY <1>1 DEF TypeInv, MadeInv
<1>7. device' \in 0..MaxCalls /\ (device' # 0 => on'[device'] # 0)
  BY <1>1, <1>2 DEF TypeOK
<1>8. TypeOK'
  BY <1>1, <1>5, <1>7 DEF TypeOK, QueueOK
<1> QED
  BY <1>5, <1>6, <1>8 DEF TypeInv

LEMMA TypeInit ==
  ASSUME Init
  PROVE  TypeInv
<1>1. 0 \in 0..MaxClis /\ 0 \in 0..MaxCalls
  BY ConstantsAssumption DEF ConstantsAssumption
<1>2. QueueOK
  BY EmptySeq DEF Init, QueueOK
<1>3. MadeInv
  BY DEF Init, MadeInv
<1> QED
  BY <1>1, <1>2, <1>3 DEF Init, TypeInv, TypeOK, QueueOK

LEMMA TypeNext ==
  ASSUME TypeInv, [Next]_vars
  PROVE  TypeInv'
<1>1. CASE Open \/ Close \/ Disconnected
  BY <1>1, CliType
<1>2. CASE Cancel \/ DeviceAnswers \/ DeviceKeepsAlive \/ ForeignFrame
  BY <1>2, AuthenticatorType
<1>3. ASSUME NEW c \in Calls,
             TooLarge(c) \/ SendInit(c) \/ SendUsb(c) \/ SendBle(c) \/ SendNfc(c)
      PROVE  TypeInv'
  BY <1>3, SendType
<1>4. ASSUME NEW c \in Calls, HostStep(c)
      PROVE  TypeInv'
  BY <1>4, HostStepType
<1>5. CASE UNCHANGED vars
  BY <1>5 DEF vars, cliVars, callVars, deviceVars, TypeInv, TypeOK, QueueOK, MadeInv, WellFormed
<1> QED
  BY <1>1, <1>2, <1>3, <1>4, <1>5 DEF Next

(* Type correctness: among other things every frame a cli receives has a command, a code
   and a channel that fit each other, so that keepAlive emits nothing but a status or an
   error code (onError, onKeepAlive), and a cli never opened has an empty queue. *)
THEOREM TypeCorrect == Spec => []TypeOK
<1>1. TypeInv => TypeOK
  BY DEF TypeInv
<1> QED
  BY <1>1, TypeInit, TypeNext, PTL DEF Spec

-----------------------------------------------------------------------------
(* One transaction at a time *)

OneUnanswered ==
  \A c, d \in Calls :
    Unanswered(c) /\ Unanswered(d) /\ on[c] = on[d] /\ on[c] \notin muddled => c = d

SingleInv == OneUnanswered /\ WaitingCancellable

(* Only a HID cli initializes a channel, only the frames of HID and BLE pause. *)
PhaseInv ==
  \A c \in Calls : /\ pc[c] \in {"init", "send"} => kind = "usb"
                   /\ pc[c] = "pause" => kind # "nfc"

(* The clis a call made now is mixed with. *)
LEMMA MakeMuddles ==
  ASSUME TypeInv, NEW c \in Calls, Make(c)
  PROVE  /\ muddled \subseteq muddled'
         /\ \A d \in Calls : Unanswered(d) /\ (on[d] = cli \/ kind = "nfc") =>
                             on[d] \in muddled' /\ cli \in muddled'
         /\ kind = "ble" => \A g \in linked :
              \/ g \notin muddled /\ \A d \in Calls : on[d] = g => ~Unanswered(d)
              \/ g \in muddled' /\ cli \in muddled'
<1>1. muddled' = IF Rivals = {} THEN muddled ELSE muddled \cup Rivals \cup {cli}
  BY DEF Make
<1>2. linked \subseteq 1..cli /\ cli \in 1..cli
  BY MakeType DEF TypeInv, TypeOK
<1>3. ASSUME NEW d \in Calls, Unanswered(d), on[d] = cli \/ kind = "nfc"
      PROVE  on[d] \in Rivals
  <2>1. pc[d] # "new"
    BY <1>3 DEF Unanswered, Waiting
  <2>2. on[d] \in 1..cli
    BY <2>1, CliRange DEF TypeInv, TypeOK, MadeInv
  <2> QED
    BY <1>3, <2>2 DEF Rivals
<1>4. ASSUME kind = "ble", NEW g \in linked,
             ~(g \notin muddled /\ \A d \in Calls : on[d] = g => ~Unanswered(d))
      PROVE  g \in Rivals
  BY <1>2, <1>4 DEF Rivals
<1> QED
  BY <1>1, <1>3, <1>4

(* What a step that makes call c and sends its request does to the rest. *)
LEMMA SendEffect ==
  ASSUME TypeInv, NEW c \in Calls,
         TooLarge(c) \/ SendInit(c) \/ SendUsb(c) \/ SendBle(c) \/ SendNfc(c)
  PROVE  /\ Make(c)
         /\ \E how \in {"init", "recv", "failed"} :
              /\ pc' = [pc EXCEPT ![c] = how]
              /\ how = "init" => kind = "usb"
              /\ kind # "nfc" => device' = device \/ (how = "recv" /\ device' = c)
         /\ linked' = linked \/ (kind = "ble" /\ linked' = linked \cup {cli})
         /\ kind = "ble" /\ device' # device => cli \in linked'
         /\ \/ queue' = queue
            \/ kind = "nfc"
            \/ \E f \in Frames : f.cmd \in {"init", "error"} /\ Deliver(f)
<1> Make(c)
  BY DEF TooLarge, SendInit, SendUsb, SendBle, SendNfc
<1>1. /\ on'[c] = cli /\ cli \in 0..Foreign /\ c \in 0..MaxCalls
  BY MakeType, CliRange DEF TypeInv
<1>2. ASSUME Sent(c)
      PROVE  /\ \E how \in {"recv", "failed"} :
                  /\ pc' = [pc EXCEPT ![c] = how]
                  /\ device' = device \/ (how = "recv" /\ device' = c)
             /\ queue' = queue \/ Deliver(Frame("error", "busy", c))
  BY <1>2 DEF Sent, Requested, Ignored
<1>3. Deliver(Frame("error", "busy", c)) =>
        \E f \in Frames : f.cmd \in {"init", "error"} /\ Deliver(f)
  <2>1. "error" \in Commands /\ "busy" \in Codes
    BY DEF Commands, Codes, ErrorCodes
  <2>2. Frame("error", "busy", c) = [cmd |-> "error", code |-> "busy", call |-> c, chan |-> cli]
    BY <1>1 DEF Frame
  <2>3. [cmd |-> "error", code |-> "busy", call |-> c, chan |-> cli] \in Frames
    BY <1>1, <2>1, FrameType DEF TypeInv
  <2> QED
    BY <2>2, <2>3
<1>4. CASE TooLarge(c)
  BY <1>4 DEF TooLarge
<1>5. CASE SendInit(c)
  <2>1. queue' = queue \/ \E f \in Frames : f.cmd \in {"init", "error"} /\ Deliver(f)
    <3>1. ASSUME NEW cmd \in {"init", "error"}, NEW code \in {"none", "busy"},
                 Deliver([cmd |-> cmd, code |-> code, call |-> c, chan |-> Broadcast])
          PROVE  \E f \in Frames : f.cmd \in {"init", "error"} /\ Deliver(f)
      <4>1. cmd \in Commands /\ code \in Codes /\ Broadcast \in 0..Foreign
        BY CliRange DEF TypeInv, Commands, Codes, ErrorCodes, Broadcast, Foreign
      <4>2. [cmd |-> cmd, code |-> code, call |-> c, chan |-> Broadcast] \in Frames
        BY <1>1, <4>1, FrameType DEF TypeInv
      <4> QED
        BY <3>1, <4>2
    <3> QED
      BY <1>5, <3>1 DEF SendInit
  <2> QED
    BY <1>5, <2>1 DEF SendInit
<1>6. CASE SendUsb(c)
  BY <1>2, <1>3, <1>6 DEF SendUsb
<1>7. CASE SendBle(c)
  <2>1. \/ cli \in linked' /\ Sent(c)
        \/ pc' = [pc EXCEPT ![c] = "failed"] /\ device' = device /\ queue' = queue
    BY <1>7 DEF SendBle, Ignored
  <2> QED
    BY <1>2, <1>3, <1>7, <2>1 DEF SendBle
<1>8. CASE SendNfc(c)
  BY <1>8 DEF SendNfc
<1> QED
  BY <1>4, <1>5, <1>6, <1>7, <1>8

(* What a step of call c that has been made does: it reads one frame or none. *)
LEMMA HostEffect ==
  ASSUME TypeInv, NEW c \in Calls, HostStep(c)
  PROVE  /\ UNCHANGED <<kind, cli, closed, linked, on, muddled>>
         /\ \/ ongoing' = ongoing
            \/ ongoing' = ongoing \ {on[c]} /\ pc'[c] \in {"returned", "refused"}
         /\ \/ ReceiveNfc(c) /\ pc' = pc
            \/ \E how \in {"send", "recv", "pause", "failed", "returned", "refused"} :
                 /\ pc' = [pc EXCEPT ![c] = how]
                 /\ how = "send" => pc[c] = "init"
                 /\ how = "pause" => ReceiveUsb(c) \/ ReceiveBle(c)
         /\ pc[c] \in Waiting
<1>1. pc \in [Calls -> {"new"} \cup Waiting \cup Ended]
  BY DEF TypeInv, TypeOK
<1>2. CASE SendAfterInit(c)
  BY <1>1, <1>2 DEF SendAfterInit, Sent, cliVars, Waiting
<1>3. CASE ReceiveFails(c) \/ Resume(c)
  BY <1>1, <1>3 DEF ReceiveFails, Resume, Ends, cliVars, Waiting
<1>4. CASE ReceiveInit(c)
  BY <1>1, <1>4 DEF ReceiveInit, Reads, Ends, Waiting
<1>5. CASE ReceiveUsb(c) \/ ReceiveBle(c)
  <2>1. /\ UNCHANGED <<kind, cli, closed, linked, on, muddled>>
        /\ pc[c] = "recv"
    BY <1>5 DEF ReceiveUsb, ReceiveBle, Reads
  <2>2. \/ ongoing' = ongoing /\ \E how \in {"pause", "failed"} : pc' = [pc EXCEPT ![c] = how]
        \/ /\ ongoing' = ongoing \ {on[c]}
           /\ \E how \in {"returned", "refused"} : pc' = [pc EXCEPT ![c] = how]
    BY <1>5 DEF ReceiveUsb, ReceiveBle, OnCbor, OnError, OnKeepAlive, Throws, Ends
  <2> QED
    BY <1>1, <1>5, <2>1, <2>2 DEF Waiting
<1>6. CASE ReceiveNfc(c)
  <2>1. /\ UNCHANGED <<kind, cli, closed, linked, on, muddled>>
        /\ pc[c] = "recv"
    BY <1>6 DEF ReceiveNfc, Reads
  <2>2. \/ ongoing' = ongoing /\ pc' = pc
        \/ /\ ongoing' = ongoing \ {on[c]}
           /\ \E how \in {"returned", "refused"} : pc' = [pc EXCEPT ![c] = how]
    BY <1>6 DEF ReceiveNfc, OnCbor, Ends
  <2> QED
    BY <1>1, <1>6, <2>1, <2>2 DEF Waiting
<1> QED
  BY <1>2, <1>3, <1>4, <1>5, <1>6 DEF HostStep

LEMMA AuthenticatorEffect ==
  ASSUME Cancel \/ DeviceAnswers \/ DeviceKeepsAlive \/ ForeignFrame
  PROVE  UNCHANGED <<kind, cli, closed, linked, status, ongoing, on, pc, answer, emitted, muddled>>
  BY DEF Cancel, DeviceAnswers, DeviceKeepsAlive, ForeignFrame, cliVars, callVars

LEMMA CliEffect ==
  ASSUME Open \/ Close \/ Disconnected
  PROVE  UNCHANGED <<kind, ongoing, on, pc, answer, muddled, queue>>
  BY DEF Open, Close, Disconnected, callVars, deviceVars

LEMMA SingleNext ==
  ASSUME TypeInv, SingleInv, PhaseInv, [Next]_vars
  PROVE  SingleInv' /\ PhaseInv'
<1>1. ASSUME UNCHANGED <<kind, ongoing, on, pc, muddled>>
      PROVE  SingleInv' /\ PhaseInv'
  BY <1>1 DEF SingleInv, OneUnanswered, Unanswered, WaitingCancellable, PhaseInv
<1>2. ASSUME NEW c \in Calls,
             TooLarge(c) \/ SendInit(c) \/ SendUsb(c) \/ SendBle(c) \/ SendNfc(c)
      PROVE  SingleInv' /\ PhaseInv'
  <2>1. Make(c)
    BY <1>2, SendEffect
  <2>2. PICK how \in {"init", "recv", "failed"} :
          pc' = [pc EXCEPT ![c] = how] /\ (how = "init" => kind = "usb")
    BY <1>2, SendEffect
  <2>3. /\ on'[c] = cli /\ on[c] = 0 /\ cli # 0 /\ pc[c] = "new" /\ kind' = kind
        /\ \A d \in Calls \ {c} : on'[d] = on[d] /\ pc'[d] = pc[d]
        /\ pc'[c] = how
    BY <2>1, <2>2, MakeType DEF TypeInv, TypeOK
  <2>4. /\ ongoing' = ongoing \cup {cli} /\ muddled \subseteq muddled'
        /\ cli \notin muddled' => \A d \in Calls : on[d] = cli => ~Unanswered(d)
    BY <2>1, MakeMuddles DEF Make
  <2>5. OneUnanswered'
    BY <2>3, <2>4 DEF SingleInv, OneUnanswered, Unanswered
  <2>6. WaitingCancellable'
    BY <2>3, <2>4 DEF SingleInv, WaitingCancellable
  <2>7. PhaseInv'
    BY <2>2, <2>3 DEF PhaseInv
  <2> QED
    BY <2>5, <2>6, <2>7 DEF SingleInv
<1>3. ASSUME NEW c \in Calls, HostStep(c)
      PROVE  SingleInv' /\ PhaseInv'
  <2>1. /\ UNCHANGED <<kind, on, muddled>> /\ pc[c] \in Waiting
        /\ \/ ongoing' = ongoing
           \/ ongoing' = ongoing \ {on[c]} /\ pc'[c] \in {"returned", "refused"}
    BY <1>3, HostEffect
  <2>2. \A d \in Calls \ {c} : pc'[d] = pc[d]
    BY <1>3, HostEffect DEF TypeInv, TypeOK
  <2>3. Unanswered(c)
    BY <2>1 DEF Unanswered
  <2>4. \A d \in Calls : Unanswered(d)' => Unanswered(d)
    BY <2>1, <2>2, <2>3 DEF Unanswered
  <2>5. OneUnanswered'
    BY <2>1, <2>4 DEF SingleInv, OneUnanswered
  <2>6. ASSUME NEW d \in Calls, pc'[d] \in Waiting, on[d] \notin muddled
        PROVE  on[d] \in ongoing'
    <3>1. Unanswered(d) /\ pc[d] \in Waiting
      BY <2>1, <2>2, <2>6 DEF Unanswered
    <3>2. on[d] \in ongoing
      BY <2>6, <3>1 DEF SingleInv, WaitingCancellable
    <3>3. CASE d = c
      BY <2>1, <2>6, <3>2, <3>3 DEF Waiting
    <3>4. CASE d # c
      BY <2>1, <2>3, <2>6, <3>1, <3>2, <3>4 DEF SingleInv, OneUnanswered
    <3> QED
      BY <3>3, <3>4
  <2>7. PhaseInv'
    <3>1. ReceiveUsb(c) \/ ReceiveBle(c) => kind # "nfc"
      BY DEF ReceiveUsb, ReceiveBle
    <3>2. \/ pc'[c] = pc[c]
          \/ /\ pc'[c] \in {"send", "recv", "pause", "failed", "returned", "refused"}
             /\ pc'[c] = "send" => pc[c] = "init"
             /\ pc'[c] = "pause" => kind # "nfc"
      BY <1>3, <3>1, HostEffect DEF TypeInv, TypeOK
    <3> QED
      BY <2>1, <2>2, <3>2 DEF PhaseInv
  <2> QED
    BY <2>1, <2>5, <2>6, <2>7 DEF SingleInv, WaitingCancellable
<1>4. CASE Open \/ Close \/ Disconnected
  BY <1>1, <1>4, CliEffect
<1>5. CASE Cancel \/ DeviceAnswers \/ DeviceKeepsAlive \/ ForeignFrame
  BY <1>1, <1>5, AuthenticatorEffect
<1>6. CASE UNCHANGED vars
  BY <1>1, <1>6 DEF vars, cliVars, callVars
<1> QED
  BY <1>2, <1>3, <1>4, <1>5, <1>6 DEF Next

LEMMA SingleInit ==
  ASSUME Init
  PROVE  SingleInv /\ PhaseInv
  BY DEF Init, SingleInv, OneUnanswered, Unanswered, WaitingCancellable, PhaseInv, Waiting

(* A call that waits can be cancelled: while it waits, the flag that cancel(), which
   Fido2Client.onCancel calls, asks for (ongoingTransaction) is set.  No answer of another
   call of the cli clears it, because an unmuddled cli has one unanswered call at most. *)
THEOREM CancellableHolds == Spec => []WaitingCancellable
<1>1. Init => TypeInv /\ SingleInv /\ PhaseInv
  BY TypeInit, SingleInit
<1>2. TypeInv /\ SingleInv /\ PhaseInv /\ [Next]_vars => (TypeInv /\ SingleInv /\ PhaseInv)'
  BY TypeNext, SingleNext
<1>3. SingleInv => WaitingCancellable
  BY DEF SingleInv
<1> QED
  BY <1>1, <1>2, <1>3, PTL DEF Spec

-----------------------------------------------------------------------------
(* Where the answers are, on usb and ble *)

Tasked == {"recv", "pause", "failed"}

(* The frame ends a transaction of cli g: an answer, or ble's CANCEL.  A ble cli reads
   the frames of every channel. *)
Ending(f, g) == f.cmd \in {"cbor", "cancel"} /\ (f.chan = g \/ kind = "ble")

(* A cli whose queue is still to be read. *)
Live(g) == g = cli \/ \E d \in Calls : on[d] = g /\ pc[d] \in Waiting

(* What a ble authenticator executes is a call of a cli that hears of it. *)
LinkInv == kind = "ble" /\ device # 0 => on[device] \in linked

(* A ble cli that is read hears of no other cli's calls. *)
AloneOnLine(g) ==
  \A h \in linked :
    h # g => h \notin muddled /\ \A d \in Calls : on[d] = h => ~Unanswered(d)

LineInv == kind = "ble" => \A g \in linked : g \notin muddled /\ Live(g) => AloneOnLine(g)

(* The authenticator executes a call that was sent and has not been answered. *)
DeviceInv ==
  kind # "nfc" /\ device # 0 /\ on[device] \notin muddled => pc[device] \in Tasked

(***************************************************************************)
(* The queue of a cli holds one ending frame at most, of the call that     *)
(* waits for it (or waited until it failed), which the authenticator no    *)
(* longer executes.                                                        *)
(***************************************************************************)
EndingAt(g, i) ==
  LET c == queue[g][i].call
  IN Ending(queue[g][i], g) =>
       /\ c \in Calls /\ on[c] = g /\ pc[c] \in Tasked /\ device # c
       /\ \A j \in DOMAIN queue[g] : Ending(queue[g][j], g) => i = j

EndingInv ==
  kind # "nfc" =>
    \A g \in Clis \ muddled : Live(g) => \A i \in DOMAIN queue[g] : EndingAt(g, i)

WireInv == LinkInv /\ LineInv /\ DeviceInv /\ EndingInv

(* No ending frame is added, and those that stay keep their order. *)
Quietly ==
  \A g \in Clis : \E k \in {0, 1} : \A i \in DOMAIN queue'[g] :
    Ending(queue'[g][i], g) /\ g \notin muddled' =>
      i \in Nat /\ i + k \in DOMAIN queue[g] /\ queue'[g][i] = queue[g][i + k]

LEMMA SameQuietly ==
  ASSUME TypeInv, queue' = queue
  PROVE  Quietly
<1>1. \A g \in Clis : \A i \in DOMAIN queue[g] : i \in Nat /\ i + 0 = i
  <2>1. \A g \in Clis : queue[g] \in Seq(Frames)
    BY DEF TypeInv, TypeOK
  <2>2. \A g \in Clis : DOMAIN queue[g] = 1..Len(queue[g])
    BY <2>1, LenProperties
  <2> QED
    BY <2>2
<1> QED
  BY <1>1 DEF Quietly

(* What is delivered, frame by frame. *)
LEMMA DeliverAt ==
  ASSUME TypeInv, NEW f \in Frames, Deliver(f)
  PROVE  \A g \in Clis :
           /\ g \notin linked => queue'[g] = queue[g]
           /\ \A i \in DOMAIN queue'[g] :
                \/ i \in DOMAIN queue[g] /\ i \in Nat /\ queue'[g][i] = queue[g][i]
                \/ i = Len(queue[g]) + 1 /\ queue'[g][i] = f /\ g \in linked
<1> TAKE g \in Clis
<1>1. queue[g] \in Seq(Frames) /\ DOMAIN queue[g] = 1..Len(queue[g])
  BY LenProperties DEF TypeInv, TypeOK
<1>2. queue'[g] = IF g \in linked THEN Append(queue[g], f) ELSE queue[g]
  BY DEF Deliver
<1>3. \A i \in DOMAIN Append(queue[g], f) :
        \/ i \in DOMAIN queue[g] /\ Append(queue[g], f)[i] = queue[g][i]
        \/ i = Len(queue[g]) + 1 /\ Append(queue[g], f)[i] = f
  BY <1>1, AppendAt
<1> QED
  BY <1>1, <1>2, <1>3

LEMMA DeliverQuietly ==
  ASSUME TypeInv, NEW f \in Frames, Deliver(f),
         \A g \in Clis \ muddled' : ~Ending(f, g)
  PROVE  Quietly
<1> SUFFICES ASSUME NEW g \in Clis, NEW i \in DOMAIN queue'[g],
                    Ending(queue'[g][i], g), g \notin muddled'
             PROVE  i \in Nat /\ i + 0 \in DOMAIN queue[g] /\ queue'[g][i] = queue[g][i + 0]
  BY DEF Quietly
<1>1. i \in DOMAIN queue[g] /\ i \in Nat /\ queue'[g][i] = queue[g][i]
  BY DeliverAt
<1> QED
  BY <1>1

LEMMA ConsumeAt ==
  ASSUME TypeInv, NEW c \in Calls, pc[c] # "new", Reads(c), Consumed(c)
  PROVE  /\ on[c] \in Clis
         /\ \A g \in Clis \ {on[c]} : queue'[g] = queue[g]
         /\ 1 \in DOMAIN queue[on[c]] /\ Incoming(c) = queue[on[c]][1]
         /\ \A i \in DOMAIN queue'[on[c]] :
              /\ i \in Nat \ {0} /\ i + 1 \in DOMAIN queue[on[c]]
              /\ queue'[on[c]][i] = queue[on[c]][i + 1]
<1>1. on[c] \in Clis /\ queue[on[c]] # << >>
  BY IncomingType
<1>2. queue[on[c]] \in Seq(Frames)
  BY <1>1 DEF TypeInv, TypeOK
<1>3. \A g \in Clis : queue'[g] = IF g = on[c] THEN Tail(queue[g]) ELSE queue[g]
  BY DEF Consumed, TypeInv, TypeOK
<1>4. /\ 1 \in DOMAIN queue[on[c]] /\ Head(queue[on[c]]) = queue[on[c]][1]
      /\ \A i \in DOMAIN Tail(queue[on[c]]) :
           /\ i \in Nat \ {0} /\ i + 1 \in DOMAIN queue[on[c]]
           /\ Tail(queue[on[c]])[i] = queue[on[c]][i + 1]
  BY <1>1, <1>2, TailAt
<1> QED
  BY <1>1, <1>3, <1>4 DEF Incoming

LEMMA ConsumeQuietly ==
  ASSUME TypeInv, NEW c \in Calls, pc[c] # "new", Reads(c), Consumed(c)
  PROVE  Quietly
<1>1. ASSUME NEW g \in Clis, g = on[c]
      PROVE  \A i \in DOMAIN queue'[g] :
               i \in Nat /\ i + 1 \in DOMAIN queue[g] /\ queue'[g][i] = queue[g][i + 1]
  BY <1>1, ConsumeAt
<1>2. ASSUME NEW g \in Clis, g # on[c]
      PROVE  \A i \in DOMAIN queue'[g] :
               i \in Nat /\ i + 0 \in DOMAIN queue[g] /\ queue'[g][i] = queue[g][i + 0]
  <2>1. queue'[g] = queue[g]
    BY <1>2, ConsumeAt
  <2>2. DOMAIN queue[g] = 1..Len(queue[g])
    BY LenProperties DEF TypeInv, TypeOK
  <2> QED
    BY <2>1, <2>2
<1> QED
  BY <1>1, <1>2 DEF Quietly

(* A quiet step that leaves the calls with an ending frame as they were. *)
LEMMA EndingKept ==
  ASSUME TypeInv, EndingInv, Quietly, kind' = kind, muddled \subseteq muddled',
         \A g \in Clis \ muddled' : Live(g)' => Live(g) \/ queue'[g] = << >>,
         \A c \in Calls : pc[c] \in Tasked /\ on[c] \notin muddled' /\ device # c =>
                            on'[c] = on[c] /\ pc'[c] \in Tasked /\ device' # c
  PROVE  EndingInv'
<1> SUFFICES ASSUME kind # "nfc", NEW g \in Clis \ muddled', Live(g)', NEW i \in DOMAIN queue'[g],
                    Ending(queue'[g][i], g)
             PROVE  LET c == queue'[g][i].call
                    IN /\ c \in Calls /\ on'[c] = g /\ pc'[c] \in Tasked /\ device' # c
                       /\ \A j \in DOMAIN queue'[g] : Ending(queue'[g][j], g) => i = j
  BY DEF EndingInv, EndingAt, Ending
<1>1. PICK k \in {0, 1} : \A j \in DOMAIN queue'[g] :
        Ending(queue'[g][j], g) =>
          j \in Nat /\ j + k \in DOMAIN queue[g] /\ queue'[g][j] = queue[g][j + k]
  BY DEF Quietly
<1>2. i \in Nat /\ i + k \in DOMAIN queue[g] /\ queue'[g][i] = queue[g][i + k]
  BY <1>1
<1>3. EndingAt(g, i + k)
  <2>1. queue'[g] # << >>
    BY NoneAt
  <2>2. Live(g)
    BY <2>1
  <2> QED
    BY <1>2, <2>2 DEF EndingInv
<1> DEFINE c == queue'[g][i].call
<1>4. /\ c \in Calls /\ on[c] = g /\ pc[c] \in Tasked /\ device # c
      /\ \A j \in DOMAIN queue[g] : Ending(queue[g][j], g) => i + k = j
  BY <1>2, <1>3 DEF EndingAt
<1>5. on'[c] = g /\ pc'[c] \in Tasked /\ device' # c
  BY <1>4
<1>6. ASSUME NEW j \in DOMAIN queue'[g], Ending(queue'[g][j], g)
      PROVE  i = j
  <2>1. j \in Nat /\ j + k \in DOMAIN queue[g] /\ queue'[g][j] = queue[g][j + k]
    BY <1>1, <1>6
  <2>2. i + k = j + k
    BY <1>4, <1>6, <2>1
  <2> QED
    BY <1>2, <2>1, <2>2
<1> QED
  BY <1>4, <1>5, <1>6

(* A call reads an ending frame: on an unmuddled cli it is its own. *)
LEMMA EndingIsOwn ==
  ASSUME TypeInv, SingleInv, EndingInv, kind # "nfc", NEW c \in Calls, pc[c] = "recv",
         Reads(c), Consumed(c), Ending(Incoming(c), on[c]), on[c] \notin muddled
  PROVE  /\ Incoming(c).call = c /\ device # c
         /\ \A j \in DOMAIN queue[on[c]] : Ending(queue[on[c]][j], on[c]) => j = 1
<1> DEFINE d == Incoming(c).call
<1>1. on[c] \in Clis /\ 1 \in DOMAIN queue[on[c]] /\ Incoming(c) = queue[on[c]][1]
  BY ConsumeAt
<1>2. EndingAt(on[c], 1)
  <2>1. Live(on[c])
    BY DEF Live, Waiting
  <2> QED
    BY <1>1, <2>1 DEF EndingInv
<1>3. /\ d \in Calls /\ on[d] = on[c] /\ pc[d] \in Tasked /\ device # d
      /\ \A j \in DOMAIN queue[on[c]] : Ending(queue[on[c]][j], on[c]) => j = 1
  BY <1>1, <1>2 DEF EndingAt
<1>4. Unanswered(c) /\ Unanswered(d)
  BY <1>3 DEF Unanswered, Tasked, Waiting
<1>5. d = c
  BY <1>3, <1>4 DEF SingleInv, OneUnanswered
<1> QED
  BY <1>3, <1>5

LEMMA EndingTaken ==
  ASSUME TypeInv, SingleInv, EndingInv, DeviceInv, kind # "nfc", NEW c \in Calls, pc[c] = "recv",
         Reads(c), Consumed(c), Ending(Incoming(c), on[c]),
         NEW how \in {"returned", "refused"}, pc' = [pc EXCEPT ![c] = how],
         UNCHANGED <<kind, cli, on, muddled, device>>
  PROVE  EndingInv' /\ DeviceInv'
<1>1. /\ on[c] \in Clis /\ \A g \in Clis \ {on[c]} : queue'[g] = queue[g]
      /\ \A i \in DOMAIN queue'[on[c]] :
           /\ i \in Nat \ {0} /\ i + 1 \in DOMAIN queue[on[c]]
           /\ queue'[on[c]][i] = queue[on[c]][i + 1]
  BY ConsumeAt
<1>2. on[c] \notin muddled =>
        /\ device # c
        /\ \A j \in DOMAIN queue[on[c]] : Ending(queue[on[c]][j], on[c]) => j = 1
  BY EndingIsOwn
<1>3. \A d \in Calls \ {c} : pc'[d] = pc[d]
  BY DEF TypeInv, TypeOK
<1>4. ASSUME NEW g \in Clis \ muddled, Live(g)', NEW i \in DOMAIN queue'[g],
             Ending(queue'[g][i], g)
      PROVE  LET d == queue'[g][i].call
             IN /\ d \in Calls /\ on[d] = g /\ pc'[d] \in Tasked /\ device # d
                /\ \A j \in DOMAIN queue'[g] : Ending(queue'[g][j], g) => i = j
  <2>1. g # on[c]
    <3>1. SUFFICES ASSUME g = on[c]
                   PROVE  FALSE
      OBVIOUS
    <3>2. i \in Nat \ {0} /\ i + 1 \in DOMAIN queue[g] /\ Ending(queue[g][i + 1], g)
      BY <1>1, <1>4, <3>1
    <3>3. i + 1 = 1
      BY <1>2, <3>1, <3>2
    <3> QED
      BY <3>2, <3>3
  <2>2. queue'[g] = queue[g]
    BY <1>1, <2>1
  <2>3. EndingAt(g, i)
    <3>1. Live(g)
      BY <1>3, <1>4, <2>1 DEF Live
    <3> QED
      BY <2>2, <3>1 DEF EndingInv
  <2> DEFINE d == queue[g][i].call
  <2>4. /\ d \in Calls /\ on[d] = g /\ pc[d] \in Tasked /\ device # d
        /\ \A j \in DOMAIN queue[g] : Ending(queue[g][j], g) => i = j
    BY <1>4, <2>2, <2>3 DEF EndingAt
  <2>5. pc'[d] = pc[d]
    BY <1>3, <2>1, <2>4
  <2> QED
    BY <2>2, <2>4, <2>5
<1>5. EndingInv'
  BY <1>4 DEF EndingInv, EndingAt, Ending
<1>6. DeviceInv'
  <2>1. device # 0 => device \in Calls
    BY DEF TypeInv, TypeOK, Calls
  <2> QED
    BY <1>2, <1>3, <2>1 DEF DeviceInv
<1> QED
  BY <1>5, <1>6

(* The authenticator ends the call it executes, the only unanswered one of its cli. *)
LEMMA EndingGiven ==
  ASSUME TypeInv, SingleInv, WireInv, kind # "nfc", device # 0,
         NEW f \in Frames, f.call = device, f.chan = on[device], Deliver(f), device' = 0,
         UNCHANGED <<kind, cli, on, pc, muddled>>
  PROVE  EndingInv'
<1> SUFFICES ASSUME NEW g \in Clis \ muddled, Live(g), NEW i \in DOMAIN queue'[g],
                    Ending(queue'[g][i], g)
             PROVE  LET d == queue'[g][i].call
                    IN /\ d \in Calls /\ on[d] = g /\ pc[d] \in Tasked /\ 0 # d
                       /\ \A j \in DOMAIN queue'[g] : Ending(queue'[g][j], g) => i = j
  BY DEF EndingInv, EndingAt, Ending, Live
<1> LinkInv /\ LineInv /\ DeviceInv /\ EndingInv
  BY DEF WireInv
<1>1. device \in Calls /\ 0 \notin Calls
  BY DEF TypeInv, TypeOK, Calls
<1>2. \A j \in DOMAIN queue'[g] :
        \/ j \in DOMAIN queue[g] /\ queue'[g][j] = queue[g][j]
        \/ j = Len(queue[g]) + 1 /\ queue'[g][j] = f /\ g \in linked
  BY DeliverAt
<1>3. \A j \in DOMAIN queue[g] : EndingAt(g, j)
  BY DEF EndingInv
<1>4. \A j \in DOMAIN queue[g] : Ending(queue[g][j], g) => on[device] # g
  <2> SUFFICES ASSUME NEW j \in DOMAIN queue[g], Ending(queue[g][j], g), on[device] = g
               PROVE  FALSE
    OBVIOUS
  <2> DEFINE d == queue[g][j].call
  <2>1. d \in Calls /\ on[d] = g /\ pc[d] \in Tasked /\ device # d
    BY <1>3 DEF EndingAt
  <2>2. Unanswered(device) /\ Unanswered(d)
    BY <2>1 DEF DeviceInv, Unanswered, Tasked, Waiting
  <2> QED
    BY <1>1, <2>1, <2>2 DEF SingleInv, OneUnanswered
<1>5. g \in linked /\ Ending(f, g) => on[device] = g
  <2> SUFFICES ASSUME g \in linked, kind = "ble", on[device] # g
               PROVE  FALSE
    BY DEF Ending
  <2>1. /\ on[device] \in linked /\ on[device] \notin muddled
        /\ \A d \in Calls : on[d] = on[device] => ~Unanswered(d)
    BY DEF LinkInv, LineInv, AloneOnLine
  <2>2. Unanswered(device)
    BY <2>1 DEF DeviceInv, Unanswered, Tasked, Waiting
  <2> QED
    BY <1>1, <2>1, <2>2
<1>6. CASE i \in DOMAIN queue[g] /\ queue'[g][i] = queue[g][i]
  <2> DEFINE d == queue[g][i].call
  <2>1. /\ d \in Calls /\ on[d] = g /\ pc[d] \in Tasked
        /\ \A j \in DOMAIN queue[g] : Ending(queue[g][j], g) => i = j
    BY <1>3, <1>6 DEF EndingAt
  <2>2. on[device] # g
    BY <1>4, <1>6
  <2>3. \A j \in DOMAIN queue'[g] : Ending(queue'[g][j], g) => i = j
    BY <1>2, <1>5, <2>1, <2>2
  <2> QED
    BY <1>1, <1>6, <2>1, <2>3
<1>7. CASE queue'[g][i] = f /\ i = Len(queue[g]) + 1 /\ g \in linked
  <2>1. on[device] = g
    BY <1>7, <1>5
  <2>2. pc[device] \in Tasked
    BY <2>1 DEF DeviceInv
  <2>3. \A j \in DOMAIN queue'[g] : Ending(queue'[g][j], g) => i = j
    BY <1>2, <1>4, <1>7, <2>1
  <2> QED
    BY <1>1, <1>7, <2>1, <2>2, <2>3
<1> QED
  BY <1>2, <1>6, <1>7

LEMMA SendWire ==
  ASSUME TypeInv, SingleInv, PhaseInv, WireInv, NEW c \in Calls,
         TooLarge(c) \/ SendInit(c) \/ SendUsb(c) \/ SendBle(c) \/ SendNfc(c)
  PROVE  WireInv'
<1>1. PICK how \in {"init", "recv", "failed"} :
        /\ pc' = [pc EXCEPT ![c] = how]
        /\ kind # "nfc" => device' = device \/ (how = "recv" /\ device' = c)
  BY SendEffect
<1>2. /\ linked' = linked \/ (kind = "ble" /\ linked' = linked \cup {cli})
      /\ kind = "ble" /\ device' # device => cli \in linked'
      /\ \/ queue' = queue
         \/ kind = "nfc"
         \/ \E f \in Frames : f.cmd \in {"init", "error"} /\ Deliver(f)
  BY SendEffect
<1>3. Make(c)
  BY SendEffect
<1>4. /\ on'[c] = cli /\ on[c] = 0 /\ pc[c] = "new" /\ cli # 0 /\ UNCHANGED <<kind, cli>>
      /\ \A d \in Calls \ {c} : on'[d] = on[d] /\ pc'[d] = pc[d]
      /\ pc'[c] = how
  BY <1>1, <1>3, MakeType DEF TypeInv, TypeOK
<1>5. muddled \subseteq muddled' /\ linked \subseteq 1..cli
  BY <1>3 DEF Make, TypeInv, TypeOK
<1>6. device # 0 => device \in Calls \ {c} /\ on[device] # 0
  BY <1>4 DEF TypeInv, TypeOK, Calls
<1>7. LinkInv'
  BY <1>1, <1>2, <1>4, <1>6 DEF WireInv, LinkInv
<1>8. DeviceInv'
  BY <1>1, <1>4, <1>5, <1>6 DEF WireInv, DeviceInv, Tasked
<1>9. ASSUME kind # "nfc"
      PROVE  EndingInv'
  <2>1. Quietly
    <3>1. CASE queue' = queue
      BY <3>1, SameQuietly
    <3>2. ASSUME NEW f \in Frames, f.cmd \in {"init", "error"}, Deliver(f)
          PROVE  Quietly
      <4>1. \A g \in Clis : ~Ending(f, g)
        BY <3>2 DEF Ending
      <4> QED
        BY <3>2, <4>1, DeliverQuietly
    <3> QED
      BY <1>2, <1>9, <3>1, <3>2
  <2>2. \A d \in Calls : pc[d] \in Tasked /\ on[d] \notin muddled' /\ device # d =>
                            on'[d] = on[d] /\ pc'[d] \in Tasked /\ device' # d
    BY <1>1, <1>4, <1>9 DEF Tasked
  <2>3. \A g \in Clis : Live(g)' => Live(g)
    BY <1>4 DEF Live
  <2> QED
    BY <1>4, <1>5, <2>1, <2>2, <2>3, EndingKept DEF WireInv
<1>10. EndingInv'
  BY <1>4, <1>9 DEF EndingInv
<1>11. ASSUME kind = "ble", NEW g \in linked', g \notin muddled', Live(g)'
       PROVE  AloneOnLine(g)'
  <2> SUFFICES ASSUME NEW h \in linked', h # g
               PROVE  h \notin muddled' /\ \A d \in Calls : on'[d] = h => ~Unanswered(d)'
    BY DEF AloneOnLine
  <2>1. /\ \A d \in Calls : Unanswered(d) /\ on[d] = cli => cli \in muddled'
        /\ \A k \in linked :
             \/ k \notin muddled /\ \A d \in Calls : on[d] = k => ~Unanswered(d)
             \/ k \in muddled' /\ cli \in muddled'
    BY <1>3, <1>11, MakeMuddles
  <2>2. g # cli => g \in linked /\ \E d \in Calls : on[d] = g /\ Unanswered(d)
    BY <1>2, <1>4, <1>11 DEF Live, Unanswered
  <2>3. g = cli
    BY <1>11, <2>1, <2>2
  <2>4. h \in linked /\ h # cli
    BY <1>2, <2>3
  <2>5. h \notin muddled /\ \A d \in Calls : on[d] = h => ~Unanswered(d)
    BY <1>11, <2>1, <2>3, <2>4
  <2>6. muddled' = muddled
    BY <1>3, <1>11, <2>3 DEF Make
  <2> QED
    BY <1>4, <2>4, <2>5, <2>6 DEF Unanswered
<1>12. LineInv'
  BY <1>4, <1>11 DEF LineInv
<1> QED
  BY <1>7, <1>8, <1>10, <1>12 DEF WireInv

LEMMA HostWire ==
  ASSUME TypeInv, SingleInv, PhaseInv, WireInv, NEW c \in Calls, HostStep(c)
  PROVE  WireInv'
<1>1. /\ UNCHANGED <<kind, cli, closed, linked, on, muddled>> /\ pc[c] \in Waiting
  BY HostEffect
<1>2. \A d \in Calls \ {c} : pc'[d] = pc[d]
  BY HostEffect DEF TypeInv, TypeOK
<1>3. device # 0 => device \in Calls
  BY DEF TypeInv, TypeOK, Calls
<1>4. pc[c] # "new"
  BY <1>1 DEF Waiting
<1>5. \A g \in Clis : Live(g)' => Live(g)
  BY <1>1, <1>2 DEF Live
<1>6. LineInv'
  <2>1. \A g \in linked : g \in Clis
    BY CliRange DEF TypeInv, TypeOK
  <2>2. ASSUME kind = "ble", NEW g \in linked, g \notin muddled, Live(g)'
        PROVE  AloneOnLine(g)'
    <3>1. AloneOnLine(g)
      BY <1>5, <2>1, <2>2 DEF WireInv, LineInv
    <3>2. ASSUME NEW h \in linked, h # g
          PROVE  h \notin muddled /\ \A d \in Calls : on[d] = h => ~Unanswered(d)'
      <4>1. h \notin muddled /\ \A d \in Calls : on[d] = h => ~Unanswered(d)
        BY <3>1, <3>2 DEF AloneOnLine
      <4>2. ASSUME NEW d \in Calls, on[d] = h
            PROVE  ~Unanswered(d)'
        <5>1. ~Unanswered(d)
          BY <4>1, <4>2
        <5>2. pc[d] \notin Waiting /\ d # c
          BY <1>1, <5>1 DEF Unanswered
        <5> QED
          BY <1>1, <1>2, <5>1, <5>2 DEF Unanswered
      <4> QED
        BY <4>1, <4>2
    <3>3. linked' = linked /\ muddled' = muddled /\ on' = on
      BY <1>1
    <3> QED
      BY <3>2, <3>3 DEF AloneOnLine
  <2> QED
    BY <1>1, <2>2 DEF LineInv
<1>7. CASE SendAfterInit(c)
  <2>1. /\ kind = "usb" /\ pc[c] = "send"
        /\ \/ device' = device
           \/ device' = c /\ pc'[c] = "recv"
        /\ pc'[c] \in {"recv", "failed"}
    BY <1>7 DEF SendAfterInit, Sent, Requested, Ignored, PhaseInv, TypeInv, TypeOK
  <2>2. queue' = queue \/ Deliver(Frame("error", "busy", c))
    BY <1>7 DEF SendAfterInit, Sent, Requested, Ignored
  <2>3. Quietly
    <3>1. CASE Deliver(Frame("error", "busy", c))
      <4>1. "error" \in Commands /\ "busy" \in Codes /\ on[c] \in 0..Foreign /\ c \in 0..MaxCalls
        BY CliRange DEF Commands, Codes, ErrorCodes, TypeInv, TypeOK
      <4>2. PICK f \in Frames : f.cmd = "error" /\ Deliver(f)
        BY <1>1, <3>1, <4>1, FrameType DEF Frame, TypeInv
      <4> QED
        BY <4>2, DeliverQuietly DEF Ending
    <3> QED
      BY <2>2, <3>1, SameQuietly
  <2>4. EndingInv'
    <3>1. \A d \in Calls : pc[d] \in Tasked /\ on[d] \notin muddled' /\ device # d =>
                             on'[d] = on[d] /\ pc'[d] \in Tasked /\ device' # d
      BY <1>1, <1>2, <2>1 DEF Tasked
    <3> QED
      BY <1>1, <1>5, <2>3, <3>1, EndingKept DEF WireInv
  <2>5. DeviceInv'
    BY <1>1, <1>2, <1>3, <2>1 DEF WireInv, DeviceInv, Tasked
  <2> QED
    BY <1>1, <1>6, <2>1, <2>4, <2>5 DEF WireInv, LinkInv
<1>8. CASE ReceiveNfc(c)
  BY <1>1, <1>8, <1>6 DEF ReceiveNfc, WireInv, LinkInv, DeviceInv, EndingInv
<1>9. ASSUME UNCHANGED <<device, queue>> \/ (UNCHANGED device /\ Reads(c) /\ Consumed(c)),
             pc[c] \in Tasked => pc'[c] \in Tasked
      PROVE  WireInv'
  <2>1. Quietly
    BY <1>4, <1>9, SameQuietly, ConsumeQuietly
  <2>2. EndingInv'
    <3>1. \A d \in Calls : pc[d] \in Tasked /\ on[d] \notin muddled' /\ device # d =>
                             on'[d] = on[d] /\ pc'[d] \in Tasked /\ device' # d
      BY <1>1, <1>2, <1>9
    <3> QED
      BY <1>1, <1>5, <2>1, <3>1, EndingKept DEF WireInv
  <2>3. DeviceInv'
    BY <1>1, <1>2, <1>3, <1>9 DEF WireInv, DeviceInv
  <2>4. LinkInv'
    BY <1>1, <1>9 DEF WireInv, LinkInv
  <2> QED
    BY <1>6, <2>2, <2>3, <2>4 DEF WireInv
<1>10. CASE ReceiveFails(c) \/ Resume(c)
  <2>1. UNCHANGED <<device, queue>> /\ pc'[c] \in Tasked
    BY <1>10 DEF ReceiveFails, Resume, Ends, deviceVars, Tasked, TypeInv, TypeOK
  <2> QED
    BY <1>9, <2>1
<1>11. CASE ReceiveInit(c)
  <2>1. UNCHANGED device /\ Reads(c) /\ Consumed(c) /\ pc[c] = "init"
    BY <1>11 DEF ReceiveInit, deviceVars
  <2> QED
    BY <1>9, <2>1 DEF Tasked
<1>12. CASE ReceiveUsb(c) \/ ReceiveBle(c)
  <2>1. UNCHANGED device /\ Reads(c) /\ Consumed(c) /\ pc[c] = "recv" /\ kind # "nfc"
    BY <1>12 DEF ReceiveUsb, ReceiveBle, deviceVars
  <2>2. on[c] \in Clis /\ 1 \in DOMAIN queue[on[c]] /\ Incoming(c) = queue[on[c]][1]
    BY <1>4, <2>1, ConsumeAt
  <2>3. WellFormed(Incoming(c))
    BY <1>4, <2>1, IncomingType
  <2>4. \/ \E how \in {"pause", "failed"} : pc' = [pc EXCEPT ![c] = how]
        \/ /\ \E how \in {"returned", "refused"} : pc' = [pc EXCEPT ![c] = how]
           /\ Ending(Incoming(c), on[c])
    <3>1. CASE ReceiveUsb(c)
      <4>1. Mine(on[c], Incoming(c)) /\ Incoming(c).cmd = "cbor" => Ending(Incoming(c), on[c])
        BY <2>3 DEF Mine, Ending, WellFormed
      <4> QED
        BY <3>1, <4>1 DEF ReceiveUsb, OnCbor, OnError, OnKeepAlive, Throws, Ends
    <3>2. CASE ReceiveBle(c)
      BY <3>2 DEF ReceiveBle, OnCbor, OnError, OnKeepAlive, Throws, Ends, Ending
    <3> QED
      BY <1>12, <3>1, <3>2
  <2>5. CASE \E how \in {"pause", "failed"} : pc' = [pc EXCEPT ![c] = how]
    <3>1. pc'[c] \in Tasked
      BY <2>5 DEF Tasked, TypeInv, TypeOK
    <3> QED
      BY <1>9, <2>1, <3>1
  <2>6. ASSUME NEW how \in {"returned", "refused"}, pc' = [pc EXCEPT ![c] = how],
               Ending(Incoming(c), on[c])
        PROVE  WireInv'
    <3>1. EndingInv' /\ DeviceInv'
      BY <1>1, <2>1, <2>6, EndingTaken DEF WireInv
    <3>2. LinkInv'
      BY <1>1, <2>1 DEF WireInv, LinkInv
    <3> QED
      BY <1>6, <3>1, <3>2 DEF WireInv
  <2> QED
    BY <2>4, <2>5, <2>6
<1> QED
  BY <1>7, <1>8, <1>10, <1>11, <1>12 DEF HostStep

LEMMA CliWire ==
  ASSUME TypeInv, WireInv, Open \/ Close \/ Disconnected
  PROVE  WireInv'
<1>1. UNCHANGED <<kind, ongoing, on, pc, answer, muddled, queue>> /\ device' \in {0, device}
  BY CliEffect DEF Open, Close, Disconnected, deviceVars
<1>2. device # 0 => device \in Calls
  BY DEF TypeInv, TypeOK, Calls
<1>3. LinkInv'
  BY <1>1 DEF Open, Close, Disconnected, WireInv, LinkInv, deviceVars
<1>4. DeviceInv'
  BY <1>1, <1>2 DEF WireInv, DeviceInv
<1>5. /\ cli' = cli \/ cli' = cli + 1
      /\ \A g \in Clis : Live(g)' => Live(g) \/ (g = cli + 1 /\ cli' = cli + 1)
  BY <1>1 DEF Open, Close, Disconnected, Live
<1>6. EndingInv'
  <2>1. \A d \in Calls : d # 0
    BY DEF Calls
  <2>2. \A g \in Clis : Live(g)' => Live(g) \/ queue'[g] = << >>
    <3>1. cli + 1 > cli
      BY CliRange DEF TypeInv
    <3> QED
      BY <1>1, <1>5, <3>1 DEF TypeInv, QueueOK
  <2> QED
    BY <1>1, <2>1, <2>2, SameQuietly, EndingKept DEF WireInv
<1>7. LineInv'
  <2>1. CASE kind = "ble" /\ linked' = linked
    <3>1. \A g \in linked : g \in Clis /\ g # cli + 1
      BY CliRange DEF TypeInv, TypeOK
    <3>2. \A g \in linked : Live(g)' => Live(g)
      BY <1>5, <3>1
    <3>3. ASSUME NEW g \in linked, g \notin muddled, Live(g)'
          PROVE  AloneOnLine(g)'
      <4>1. AloneOnLine(g)
        BY <2>1, <3>2, <3>3 DEF WireInv, LineInv
      <4> QED
        BY <1>1, <2>1, <4>1 DEF AloneOnLine, Unanswered
    <3> QED
      BY <1>1, <2>1, <3>3 DEF LineInv
  <2>2. CASE kind # "ble" \/ linked' = {}
    BY <1>1, <2>2 DEF LineInv
  <2>3. kind # "ble" \/ linked' = linked \/ linked' = {}
    BY DEF Open, Close, Disconnected
  <2> QED
    BY <2>1, <2>2, <2>3
<1> QED
  BY <1>3, <1>4, <1>6, <1>7 DEF WireInv

LEMMA AuthenticatorWire ==
  ASSUME TypeInv, SingleInv, WireInv, Cancel \/ DeviceAnswers \/ DeviceKeepsAlive \/ ForeignFrame
  PROVE  WireInv'
<1>1. UNCHANGED <<kind, cli, closed, linked, status, ongoing, on, pc, answer, emitted, muddled>>
  BY AuthenticatorEffect
<1>2. device' \in {0, device} /\ kind # "nfc"
  BY DEF Cancel, DeviceAnswers, DeviceKeepsAlive, ForeignFrame, Executing
<1>3. (device # 0 => device \in Calls) /\ \A d \in Calls : d # 0
  BY DEF TypeInv, TypeOK, Calls
<1>4. LinkInv' /\ DeviceInv' /\ LineInv'
  <2>1. LinkInv' /\ DeviceInv'
    BY <1>1, <1>2, <1>3 DEF WireInv, LinkInv, DeviceInv
  <2>2. LineInv
    BY DEF WireInv
  <2>3. LineInv' <=> LineInv
    <3>1. \A g : Live(g)' <=> Live(g)
      BY <1>1 DEF Live
    <3>2. \A g : AloneOnLine(g)' <=> AloneOnLine(g)
      BY <1>1 DEF AloneOnLine, Unanswered
    <3> QED
      BY <1>1, <3>1, <3>2 DEF LineInv
  <2> QED
    BY <2>1, <2>2, <2>3
<1>5. PICK f \in Frames :
        /\ Deliver(f)
        /\ \/ device # 0 /\ device' = 0 /\ f.call = device /\ f.chan = on[device]
           \/ device # 0 /\ f.cmd = "keepAlive" /\ f.chan = on[device]
           \/ kind = "usb" /\ f.chan = Foreign
  <2>1. /\ {"cbor", "cancel", "error", "keepAlive"} \subseteq Commands
        /\ {"ok", "error", "none", "status", "fatal", "busy", "unlisted"} \subseteq Codes
        /\ device \in 0..MaxCalls /\ 0 \in 0..MaxCalls
        /\ Foreign \in 0..Foreign /\ (device # 0 => on[device] \in 0..Foreign)
    <3>1. /\ {"cbor", "cancel", "error", "keepAlive"} \subseteq Commands
          /\ {"ok", "error", "none", "status", "fatal", "busy", "unlisted"} \subseteq Codes
      BY DEF Commands, Codes, ErrorCodes
    <3>2. device \in 0..MaxCalls /\ (device # 0 => on[device] \in 0..cli) /\ cli \in 0..MaxClis
      BY <1>3 DEF TypeInv, TypeOK
    <3> QED
      BY <3>1, <3>2, ConstantsAssumption DEF Foreign
  <2>2. CASE Cancel
    <3>1. device # 0 /\ device' = 0
      BY <2>2 DEF Cancel
    <3>2. PICK cmd \in {"cbor", "cancel"}, code \in {"error", "none"} :
            Deliver([cmd |-> cmd, code |-> code, call |-> device, chan |-> on[device]])
      BY <2>2, <3>1 DEF Cancel
    <3>3. [cmd |-> cmd, code |-> code, call |-> device, chan |-> on[device]] \in Frames
      BY <2>1, <3>1, FrameType DEF TypeInv
    <3> QED
      BY <3>1, <3>2, <3>3
  <2>3. CASE DeviceAnswers
    <3>1. device # 0 /\ device' = 0
      BY <2>3 DEF DeviceAnswers, Executing
    <3>2. PICK cmd \in {"cbor", "error"}, code \in {"ok", "error", "fatal"} :
            Deliver([cmd |-> cmd, code |-> code, call |-> device, chan |-> on[device]])
      BY <2>3 DEF DeviceAnswers
    <3>3. [cmd |-> cmd, code |-> code, call |-> device, chan |-> on[device]] \in Frames
      BY <2>1, <3>1, FrameType DEF TypeInv
    <3> QED
      BY <3>1, <3>2, <3>3
  <2>4. CASE DeviceKeepsAlive
    <3>1. /\ device # 0
          /\ Deliver([cmd |-> "keepAlive", code |-> "status", call |-> device, chan |-> on[device]])
      BY <2>4 DEF DeviceKeepsAlive, Executing
    <3>2. [cmd |-> "keepAlive", code |-> "status", call |-> device, chan |-> on[device]] \in Frames
      BY <2>1, <3>1, FrameType DEF TypeInv
    <3> QED
      BY <3>1, <3>2
  <2>5. CASE ForeignFrame
    <3>1. PICK cmd \in {"cbor", "error"}, code \in {"ok", "busy", "unlisted"} :
            Deliver([cmd |-> cmd, code |-> code, call |-> 0, chan |-> Foreign])
      BY <2>5 DEF ForeignFrame
    <3>2. [cmd |-> cmd, code |-> code, call |-> 0, chan |-> Foreign] \in Frames
      BY <2>1, FrameType DEF TypeInv
    <3> QED
      BY <2>5, <3>1, <3>2 DEF ForeignFrame
  <2> QED
    BY <2>2, <2>3, <2>4, <2>5
<1>6. EndingInv'
  <2>1. CASE device # 0 /\ device' = 0 /\ f.call = device /\ f.chan = on[device]
    BY <1>1, <1>2, <1>5, <2>1, EndingGiven DEF WireInv
  <2>2. CASE f.cmd = "keepAlive" \/ (kind = "usb" /\ f.chan = Foreign)
    <3>1. \A g \in Clis : g # Foreign
      BY CliRange DEF TypeInv, Clis, Foreign
    <3>2. Quietly
      BY <1>5, <2>2, <3>1, DeliverQuietly DEF Ending
    <3>3. \A g \in Clis : Live(g)' => Live(g)
      BY <1>1 DEF Live
    <3> QED
      BY <1>1, <1>2, <1>3, <3>2, <3>3, EndingKept DEF WireInv
  <2> QED
    BY <1>5, <2>1, <2>2
<1> QED
  BY <1>4, <1>6 DEF WireInv

LEMMA WireNext ==
  ASSUME TypeInv, SingleInv, PhaseInv, WireInv, [Next]_vars
  PROVE  WireInv'
<1>1. CASE Open \/ Close \/ Disconnected
  BY <1>1, CliWire
<1>2. CASE Cancel \/ DeviceAnswers \/ DeviceKeepsAlive \/ ForeignFrame
  BY <1>2, AuthenticatorWire
<1>3. ASSUME NEW c \in Calls,
             TooLarge(c) \/ SendInit(c) \/ SendUsb(c) \/ SendBle(c) \/ SendNfc(c)
      PROVE  WireInv'
  BY <1>3, SendWire
<1>4. ASSUME NEW c \in Calls, HostStep(c)
      PROVE  WireInv'
  BY <1>4, HostWire
<1>5. CASE UNCHANGED vars
  BY <1>5 DEF vars, cliVars, callVars, deviceVars, WireInv, LinkInv, LineInv, AloneOnLine,
              Live, Unanswered, DeviceInv, EndingInv, EndingAt, Ending
<1> QED
  BY <1>1, <1>2, <1>3, <1>4, <1>5 DEF Next

-----------------------------------------------------------------------------
(* Where the answers are, on nfc *)

(* Calls of the cli were not mixed with others. *)
Undisturbed(g) == g \notin muddled

(***************************************************************************)
(* An undisturbed nfc cli has one frame at most, the card's last response  *)
(* to the call that waits for it; and the card works for that call or for  *)
(* none, so that GET RESPONSE fetches no other call's data.                *)
(***************************************************************************)
CardQueueAt(g, i) ==
  LET c == queue[g][i].call
  IN i = 1 /\ c \in Calls /\ on[c] = g /\ pc[c] = "recv"

CardInv ==
  kind = "nfc" =>
    /\ \A g \in Clis : Undisturbed(g) => \A i \in DOMAIN queue[g] : CardQueueAt(g, i)
    /\ \A c \in Calls : pc[c] = "recv" /\ Undisturbed(on[c]) => device \in {0, c}

(* The card's response is the one new frame of the reader's queue. *)
LEMMA RespondsAt ==
  ASSUME TypeInv, NEW g \in 1..cli, NEW c \in 0..MaxCalls, NEW before \in Seq(Frames),
         Responds(g, c, before)
  PROVE  /\ \A h \in Clis \ {g} : queue'[h] = queue[h]
         /\ device' \in {0, c}
         /\ \A i \in DOMAIN queue'[g] :
              \/ i \in DOMAIN before /\ queue'[g][i] = before[i]
              \/ i = Len(before) + 1 /\ c # 0 /\ queue'[g][i].call = c
<1>1. device' \in {0, c}
  BY DEF Responds
<1>2. PICK new \in {before} \cup {Append(before, f) : f \in {h \in Frames : h.call = c /\ c # 0}} :
        queue' = [queue EXCEPT ![g] = new]
  <2> DEFINE Reply(cmd, code) == [cmd |-> cmd, code |-> code, call |-> c, chan |-> g]
  <2>1. g \in 0..Foreign
    BY CliRange DEF TypeInv
  <2>2. \A cmd \in Commands, code \in Codes : Reply(cmd, code) \in Frames /\ Reply(cmd, code).call = c
    BY <2>1 DEF Frames
  <2>3. /\ "ok" \in Codes /\ "error" \in Codes /\ "none" \in Codes /\ "status" \in Codes
        /\ "cbor" \in Commands /\ "more" \in Commands /\ "keepAlive" \in Commands
    BY DEF Codes, Commands
  <2>4. \/ queue' = [queue EXCEPT ![g] = before]
        \/ /\ c # 0
           /\ \E code \in {"ok", "error"} : queue' = [queue EXCEPT ![g] = Append(before, Reply("cbor", code))]
        \/ c # 0 /\ queue' = [queue EXCEPT ![g] = Append(before, Reply("more", "none"))]
        \/ c # 0 /\ queue' = [queue EXCEPT ![g] = Append(before, Reply("keepAlive", "status"))]
    BY DEF Responds
  <2> HIDE DEF Reply
  <2> QED
    BY <2>2, <2>3, <2>4
<1>3. g \in Clis
  BY CliRange DEF TypeInv
<1>4. \A h \in Clis : queue'[h] = IF h = g THEN new ELSE queue[h]
  BY <1>2, <1>3 DEF TypeInv, TypeOK
<1>5. \A i \in DOMAIN new :
        \/ i \in DOMAIN before /\ new[i] = before[i]
        \/ i = Len(before) + 1 /\ c # 0 /\ new[i].call = c
  <2>1. CASE new = before
    BY <2>1
  <2>2. ASSUME NEW f \in Frames, f.call = c, c # 0, new = Append(before, f)
        PROVE  \A i \in DOMAIN new :
                 \/ i \in DOMAIN before /\ new[i] = before[i]
                 \/ i = Len(before) + 1 /\ c # 0 /\ new[i].call = c
    BY <2>2, AppendAt
  <2> QED
    BY <1>2, <2>1, <2>2
<1> QED
  BY <1>1, <1>3, <1>4, <1>5

(* A step that neither reads nor sends anything on nfc. *)
LEMMA CardKept ==
  ASSUME TypeInv, CardInv, kind' = kind, muddled \subseteq muddled',
         queue' = queue, device' \in {0, device},
         \A c \in Calls : /\ on[c] # 0 => on'[c] = on[c]
                          /\ pc'[c] = "recv" <=> pc[c] = "recv"
  PROVE  CardInv'
<1>1. \A c \in Calls : pc[c] # "new" => on[c] # 0
  BY DEF TypeInv, MadeInv
<1>2. \A g \in Clis : Undisturbed(g)' => Undisturbed(g)
  BY DEF Undisturbed
<1>3. ASSUME kind = "nfc", NEW g \in Clis, Undisturbed(g)', NEW i \in DOMAIN queue[g]
      PROVE  CardQueueAt(g, i)'
  BY <1>1, <1>2, <1>3 DEF CardInv, CardQueueAt
<1>4. \A c \in Calls : pc'[c] = "recv" => pc[c] = "recv" /\ on'[c] = on[c]
  BY <1>1
<1>5. ASSUME kind = "nfc", NEW c \in Calls, pc'[c] = "recv", on'[c] \notin muddled'
      PROVE  device' \in {0, c}
  <2>1. pc[c] = "recv" /\ Undisturbed(on[c])
    BY <1>4, <1>5 DEF Undisturbed
  <2> QED
    BY <1>5, <2>1 DEF CardInv
<1>6. kind' = "nfc" => \A g \in Clis : Undisturbed(g)' => \A i \in DOMAIN queue'[g] : CardQueueAt(g, i)'
  BY <1>3
<1>7. kind' = "nfc" => \A c \in Calls : pc'[c] = "recv" /\ Undisturbed(on[c])' => device' \in {0, c}
  BY <1>5 DEF Undisturbed
<1> QED
  BY <1>6, <1>7 DEF CardInv

LEMMA SendCard ==
  ASSUME TypeInv, SingleInv, CardInv, NEW c \in Calls,
         TooLarge(c) \/ SendInit(c) \/ SendUsb(c) \/ SendBle(c) \/ SendNfc(c)
  PROVE  CardInv'
<1>1. PICK how \in {"init", "recv", "failed"} : pc' = [pc EXCEPT ![c] = how]
  BY SendEffect
<1>2. Make(c)
  BY SendEffect
<1>3. /\ on'[c] = cli /\ on[c] = 0 /\ pc[c] = "new" /\ cli # 0 /\ UNCHANGED <<kind, cli, closed>>
      /\ cli \in 1..cli /\ cli \in Clis /\ c \in 0..MaxCalls /\ c # 0
      /\ \A d \in Calls \ {c} : on'[d] = on[d] /\ pc'[d] = pc[d]
      /\ pc'[c] = how
  BY <1>1, <1>2, MakeType DEF TypeInv, TypeOK
<1>4. /\ muddled \subseteq muddled'
      /\ kind = "nfc" => \A d \in Calls : pc[d] = "recv" =>
                           on[d] \in muddled' /\ cli \in muddled'
  BY <1>2, MakeMuddles DEF Unanswered, Waiting
<1>5. CASE kind # "nfc"
  BY <1>3, <1>5 DEF CardInv
<1>6. CASE kind = "nfc" /\ queue' = queue /\ device' = device /\ how = "failed"
  BY <1>3, <1>4, <1>6, CardKept
<1>7. CASE kind = "nfc" /\ how = "recv" /\ Responds(cli, c, queue[cli])
  <2>1. queue[cli] \in Seq(Frames)
    BY <1>3 DEF TypeInv, TypeOK
  <2>2. /\ \A h \in Clis \ {cli} : queue'[h] = queue[h]
        /\ device' \in {0, c}
        /\ \A i \in DOMAIN queue'[cli] :
             \/ i \in DOMAIN queue[cli] /\ queue'[cli][i] = queue[cli][i]
             \/ i = Len(queue[cli]) + 1 /\ queue'[cli][i].call = c
    BY <1>3, <1>7, <2>1, RespondsAt
  <2>3. \A g \in Clis \ muddled' : \A i \in DOMAIN queue[g] : FALSE
    BY <1>4, <1>7 DEF CardInv, CardQueueAt, Undisturbed
  <2>4. ASSUME NEW g \in Clis, Undisturbed(g)', NEW i \in DOMAIN queue'[g]
        PROVE  CardQueueAt(g, i)'
    <3>1. g = cli
      BY <2>2, <2>3, <2>4 DEF Undisturbed
    <3>2. queue[cli] = << >>
      <4> SUFFICES ASSUME queue[cli] # << >>
                   PROVE  FALSE
        OBVIOUS
      <4>1. 1 \in DOMAIN queue[cli]
        BY <2>1, TailAt
      <4> QED
        BY <1>3, <2>3, <2>4, <3>1, <4>1 DEF Undisturbed
    <3>3. i = 1 /\ queue'[cli][i].call = c
      BY <2>2, <2>4, <3>1, <3>2, EmptySeq
    <3> QED
      BY <1>3, <1>7, <3>1, <3>3 DEF CardQueueAt
  <2>5. ASSUME NEW d \in Calls, pc'[d] = "recv", Undisturbed(on[d])', on'[d] = on[d]
        PROVE  d = c
    <3>1. SUFFICES ASSUME d # c
                   PROVE  FALSE
      OBVIOUS
    <3>2. pc[d] = "recv"
      BY <1>3, <2>5, <3>1
    <3> QED
      BY <1>4, <1>7, <2>5, <3>2 DEF Undisturbed
  <2>6. \A d \in Calls : pc'[d] = "recv" /\ Undisturbed(on[d])' /\ on'[d] = on[d] => device' \in {0, d}
    BY <2>2, <2>5
  <2>7. \A d \in Calls : d # c => on'[d] = on[d]
    BY <1>3
  <2> QED
    BY <1>3, <2>2, <2>4, <2>6, <2>7 DEF CardInv, Undisturbed
<1>8. \/ kind # "nfc"
      \/ queue' = queue /\ device' = device /\ pc'[c] = "failed"
      \/ kind = "nfc" /\ pc'[c] = "recv" /\ Responds(cli, c, queue[cli])
  BY DEF TooLarge, SendInit, SendUsb, SendBle, SendNfc, Ignored, TypeInv, TypeOK
<1> QED
  BY <1>3, <1>5, <1>6, <1>7, <1>8

LEMMA HostCard ==
  ASSUME TypeInv, SingleInv, PhaseInv, CardInv, NEW c \in Calls, HostStep(c)
  PROVE  CardInv'
<1>1. /\ UNCHANGED <<kind, cli, closed, linked, on, muddled>> /\ pc[c] \in Waiting
      /\ c \in 0..MaxCalls /\ c # 0 /\ device \in 0..MaxCalls
  BY HostEffect DEF Calls, TypeInv, TypeOK
<1>2. \A d \in Calls \ {c} : pc'[d] = pc[d]
  BY HostEffect DEF TypeInv, TypeOK
<1>3. CASE kind # "nfc"
  BY <1>1, <1>3 DEF CardInv
<1>4. CASE kind = "nfc" /\ (ReceiveFails(c) \/ Resume(c))
  <2>1. UNCHANGED <<device, queue>> /\ pc'[c] = "failed" /\ queue[on[c]] = << >>
    BY <1>4 DEF ReceiveFails, Resume, Ends, deviceVars, PhaseInv, TypeInv, TypeOK
  <2>2. ASSUME NEW g \in Clis, Undisturbed(g)', NEW i \in DOMAIN queue'[g]
        PROVE  CardQueueAt(g, i)'
    <3>1. CardQueueAt(g, i)
      BY <1>1, <1>4, <2>1, <2>2 DEF CardInv, Undisturbed
    <3>2. g # on[c]
      BY <2>1, <2>2, NoneAt
    <3> QED
      BY <1>1, <1>2, <2>1, <3>1, <3>2 DEF CardQueueAt
  <2>3. \A d \in Calls : pc'[d] = "recv" /\ Undisturbed(on[d])' => device' \in {0, d}
    BY <1>1, <1>2, <1>4, <2>1 DEF CardInv, Undisturbed
  <2> QED
    BY <1>1, <2>2, <2>3 DEF CardInv
<1>5. CASE kind = "nfc" /\ ReceiveNfc(c)
  <2>1. pc[c] = "recv" /\ Reads(c)
    BY <1>5 DEF ReceiveNfc
  <2>2. /\ on[c] \in 1..cli /\ on[c] \in Clis /\ queue[on[c]] # << >>
        /\ queue[on[c]] \in Seq(Frames) /\ Tail(queue[on[c]]) \in Seq(Frames)
    BY <2>1, IncomingType DEF TypeInv, TypeOK
  <2>3. \A i \in DOMAIN Tail(queue[on[c]]) : i \in Nat \ {0} /\ i + 1 \in DOMAIN queue[on[c]]
    BY <2>2, TailAt
  <2>4. Undisturbed(on[c]) => Tail(queue[on[c]]) = << >>
    <3>1. SUFFICES ASSUME Undisturbed(on[c]), Tail(queue[on[c]]) # << >>
                   PROVE  FALSE
      OBVIOUS
    <3>2. 1 \in DOMAIN Tail(queue[on[c]])
      BY <2>2, <3>1, TailAt
    <3>3. CardQueueAt(on[c], 2)
      BY <1>5, <2>2, <2>3, <3>1, <3>2 DEF CardInv
    <3> QED
      BY <3>3 DEF CardQueueAt
  <2>5. CASE Consumed(c) /\ device' = device /\ pc'[c] \in {"returned", "refused"}
    <3>1. /\ \A g \in Clis \ {on[c]} : queue'[g] = queue[g]
          /\ queue'[on[c]] = Tail(queue[on[c]])
      BY <2>2, <2>5 DEF Consumed, TypeInv, TypeOK
    <3>2. ASSUME NEW g \in Clis, Undisturbed(g)', NEW i \in DOMAIN queue'[g]
          PROVE  CardQueueAt(g, i)'
      <4>1. Undisturbed(g)
        BY <1>1, <3>2 DEF Undisturbed
      <4>2. g # on[c]
        BY <2>4, <3>1, <3>2, <4>1, NoneAt
      <4>3. CardQueueAt(g, i) /\ queue'[g] = queue[g]
        BY <1>5, <3>1, <3>2, <4>1, <4>2 DEF CardInv
      <4> QED
        BY <1>1, <1>2, <4>2, <4>3 DEF CardQueueAt
    <3>3. \A d \in Calls : pc'[d] = "recv" /\ Undisturbed(on[d])' => device' \in {0, d}
      BY <1>1, <1>2, <1>5, <2>5 DEF CardInv, Undisturbed
    <3> QED
      BY <3>2, <3>3 DEF CardInv
  <2>6. CASE Responds(on[c], device, Tail(queue[on[c]])) /\ pc' = pc
    <3>1. /\ \A g \in Clis \ {on[c]} : queue'[g] = queue[g]
          /\ device' \in {0, device}
          /\ \A i \in DOMAIN queue'[on[c]] :
               \/ i \in DOMAIN Tail(queue[on[c]]) /\ queue'[on[c]][i] = Tail(queue[on[c]])[i]
               \/ i = Len(Tail(queue[on[c]])) + 1 /\ device # 0 /\ queue'[on[c]][i].call = device
      BY <1>1, <2>2, <2>6, RespondsAt
    <3>2. ASSUME NEW g \in Clis, Undisturbed(g)', NEW i \in DOMAIN queue'[g]
          PROVE  CardQueueAt(g, i)'
      <4>1. Undisturbed(g)
        BY <1>1, <3>2 DEF Undisturbed
      <4>2. CASE g = on[c]
        <5>1. i = 1 /\ device # 0 /\ queue'[g][i].call = device
          BY <2>4, <3>1, <3>2, <4>1, <4>2, NoneAt
        <5>2. device = c
          BY <1>5, <2>1, <4>1, <4>2, <5>1 DEF CardInv
        <5> QED
          BY <1>1, <2>1, <2>6, <4>2, <5>1, <5>2 DEF CardQueueAt
      <4>3. CASE g # on[c]
        <5>1. CardQueueAt(g, i) /\ queue'[g] = queue[g]
          BY <1>5, <3>1, <3>2, <4>1, <4>3 DEF CardInv
        <5> QED
          BY <1>1, <2>6, <5>1 DEF CardQueueAt
      <4> QED
        BY <4>2, <4>3
    <3>3. \A d \in Calls : pc'[d] = "recv" /\ Undisturbed(on[d])' => device' \in {0, d}
      BY <1>1, <1>5, <2>6, <3>1 DEF CardInv, Undisturbed
    <3> QED
      BY <3>2, <3>3 DEF CardInv
  <2>7. \/ Consumed(c) /\ device' = device /\ pc'[c] \in {"returned", "refused"}
        \/ Responds(on[c], device, Tail(queue[on[c]])) /\ pc' = pc
    BY <1>5 DEF ReceiveNfc, OnCbor, Ends, deviceVars, TypeInv, TypeOK
  <2> QED
    BY <2>5, <2>6, <2>7
<1>6. \/ kind # "nfc" \/ ReceiveFails(c) \/ Resume(c) \/ ReceiveNfc(c)
  BY DEF HostStep, ReceiveInit, SendAfterInit, ReceiveUsb, ReceiveBle, PhaseInv
<1> QED
  BY <1>3, <1>4, <1>5, <1>6

LEMMA CardNext ==
  ASSUME TypeInv, SingleInv, PhaseInv, CardInv, [Next]_vars
  PROVE  CardInv'
<1>1. CASE Open \/ Close \/ Disconnected
  <2>1. UNCHANGED <<kind, on, pc, muddled, queue>>
    BY <1>1, CliEffect
  <2>2. device' \in {0, device}
    BY <1>1 DEF Open, Close, Disconnected, deviceVars
  <2> QED
    BY <2>1, <2>2, CardKept
<1>2. CASE Cancel \/ DeviceAnswers \/ DeviceKeepsAlive \/ ForeignFrame
  <2>1. kind' = kind /\ kind # "nfc"
    BY <1>2, AuthenticatorEffect
       DEF Cancel, DeviceAnswers, DeviceKeepsAlive, ForeignFrame, Executing
  <2> QED
    BY <2>1 DEF CardInv
<1>3. ASSUME NEW c \in Calls,
             TooLarge(c) \/ SendInit(c) \/ SendUsb(c) \/ SendBle(c) \/ SendNfc(c)
      PROVE  CardInv'
  BY <1>3, SendCard
<1>4. ASSUME NEW c \in Calls, HostStep(c)
      PROVE  CardInv'
  BY <1>4, HostCard
<1>5. CASE UNCHANGED vars
  BY <1>5 DEF vars, cliVars, callVars, deviceVars, CardInv, CardQueueAt, Undisturbed
<1> QED
  BY <1>1, <1>2, <1>3, <1>4, <1>5 DEF Next

-----------------------------------------------------------------------------
(* What a call collects *)

(* Before its end a call has collected nothing, or on nfc the parts of its own answer. *)
CollectedAt(c) ==
  /\ kind # "nfc" /\ pc[c] \notin Ended => answer[c] = {}
  /\ pc[c] = "new" => answer[c] = {}
  /\ kind = "nfc" /\ pc[c] = "recv" /\ Undisturbed(on[c]) => answer[c] \subseteq {c}

AnsweredAt(c) ==
  /\ pc[c] = "returned"
  /\ on[c] \notin muddled
  => answer[c] = {c}

CollectInv == \A c \in Calls : CollectedAt(c) /\ AnsweredAt(c)

(* A call whose state and answer stay. *)
LEMMA CollectKept ==
  ASSUME NEW c \in Calls, CollectedAt(c), AnsweredAt(c), kind' = kind,
         muddled \subseteq muddled', answer'[c] = answer[c], on'[c] = on[c], pc'[c] = pc[c]
  PROVE  CollectedAt(c)' /\ AnsweredAt(c)'
BY DEF CollectedAt, AnsweredAt, Undisturbed

(* The answer a usb or ble call takes is its own. *)
LEMMA TakesOwn ==
  ASSUME TypeInv, SingleInv, WireInv, NEW c \in Calls, ReceiveUsb(c) \/ ReceiveBle(c),
         OnCbor(c, Incoming(c)), Incoming(c).cmd = "cbor", on[c] \notin muddled,
         ReceiveUsb(c) => Mine(on[c], Incoming(c))
  PROVE  Incoming(c).call = c
<1>1. Reads(c) /\ Consumed(c) /\ pc[c] = "recv" /\ pc[c] # "new" /\ kind # "nfc"
  BY DEF ReceiveUsb, ReceiveBle
<1>2. on[c] \in Clis /\ 1 \in DOMAIN queue[on[c]] /\ Incoming(c) = queue[on[c]][1]
  BY <1>1, ConsumeAt
<1>3. WellFormed(Incoming(c))
  BY <1>1, IncomingType
<1>4. Ending(Incoming(c), on[c])
  <2>1. CASE ReceiveUsb(c)
    BY <1>3, <2>1 DEF Mine, Ending, WellFormed
  <2>2. CASE ReceiveBle(c)
    BY <2>2 DEF ReceiveBle, Ending
  <2> QED
    BY <2>1, <2>2
<1> QED
  BY <1>1, <1>4, EndingIsOwn DEF WireInv

LEMMA CollectHost ==
  ASSUME TypeInv, SingleInv, PhaseInv, WireInv, CardInv, CollectInv, NEW c \in Calls, HostStep(c)
  PROVE  CollectInv'
<1>1. UNCHANGED <<kind, cli, closed, on, muddled>> /\ pc[c] \in Waiting
  BY HostEffect
<1>2. \A d \in Calls \ {c} : pc'[d] = pc[d]
  BY HostEffect DEF TypeInv, TypeOK
<1>3. /\ \A d \in Calls \ {c} : answer'[d] = answer[d]
      /\ answer' = answer \/ ReceiveNfc(c) \/ OnCbor(c, Incoming(c))
  BY DEF TypeInv, TypeOK, HostStep, ReceiveInit, SendAfterInit, ReceiveUsb, ReceiveBle, ReceiveNfc,
         ReceiveFails, Resume, OnCbor, OnError, OnKeepAlive, Throws
<1>4. ASSUME NEW d \in Calls \ {c}
      PROVE  CollectedAt(d)' /\ AnsweredAt(d)'
  BY <1>1, <1>2, <1>3, CollectKept DEF CollectInv
<1>5. /\ pc[c] \notin Ended /\ pc[c] # "new"
      /\ CollectedAt(c) /\ AnsweredAt(c)
  BY <1>1 DEF CollectInv, Waiting, Ended
<1>6. CASE answer' = answer /\ pc'[c] \notin {"new", "returned"} /\ (kind = "nfc" => pc'[c] # "recv")
  BY <1>1, <1>4, <1>5, <1>6 DEF CollectInv, CollectedAt, AnsweredAt
<1>7. CASE (ReceiveUsb(c) \/ ReceiveBle(c)) /\ OnCbor(c, Incoming(c)) /\ Incoming(c).cmd = "cbor"
           /\ (ReceiveUsb(c) => Mine(on[c], Incoming(c)))
  <2>1. kind # "nfc" /\ pc[c] = "recv" /\ pc'[c] \in Ended
    BY <1>7 DEF ReceiveUsb, ReceiveBle, OnCbor, Ends, Ended, TypeInv, TypeOK
  <2>2. answer'[c] = {Incoming(c).call}
    BY <1>5, <1>7, <2>1 DEF OnCbor, CollectedAt, TypeInv, TypeOK
  <2>3. on[c] \notin muddled => answer'[c] = {c}
    BY <1>7, <2>2, TakesOwn
  <2>4. CollectedAt(c)' /\ AnsweredAt(c)'
    BY <1>1, <2>1, <2>3 DEF CollectedAt, AnsweredAt, Ended
  <2> QED
    BY <1>4, <2>4 DEF CollectInv
<1>8. CASE ReceiveNfc(c)
  <2>1. /\ kind = "nfc" /\ pc[c] = "recv" /\ Reads(c)
        /\ pc'[c] \in {"recv", "returned", "refused"}
        /\ \/ answer'[c] = {} /\ pc'[c] = "recv"
           \/ answer'[c] = answer[c] \cup {Incoming(c).call}
    BY <1>8 DEF ReceiveNfc, OnCbor, Ends, TypeInv, TypeOK
  <2>2. Undisturbed(on[c]) => Incoming(c).call = c
    <3>1. /\ on[c] \in Clis /\ queue[on[c]] # << >> /\ queue[on[c]] \in Seq(Frames)
      BY <1>5, <2>1, IncomingType DEF TypeInv, TypeOK
    <3>2. 1 \in DOMAIN queue[on[c]] /\ Incoming(c) = queue[on[c]][1]
      BY <3>1, TailAt DEF Incoming
    <3>3. SUFFICES ASSUME Undisturbed(on[c])
                   PROVE  Incoming(c).call = c
      OBVIOUS
    <3>4. CardQueueAt(on[c], 1)
      BY <2>1, <3>1, <3>2, <3>3 DEF CardInv
    <3>5. PICK d \in Calls : d = Incoming(c).call /\ on[d] = on[c] /\ Unanswered(d)
      BY <3>2, <3>4 DEF CardQueueAt, Unanswered, Waiting
    <3>6. Unanswered(c)
      BY <2>1 DEF Unanswered, Waiting
    <3> QED
      BY <3>3, <3>5, <3>6 DEF SingleInv, OneUnanswered, Undisturbed
  <2>3. CollectedAt(c)' /\ AnsweredAt(c)'
    <3>1. Undisturbed(on[c]) => answer'[c] \subseteq {c}
      BY <1>5, <2>1, <2>2 DEF CollectedAt
    <3>2. Undisturbed(on[c]) /\ pc'[c] = "returned" => answer'[c] = {c}
      BY <1>5, <2>1, <2>2 DEF CollectedAt
    <3> QED
      BY <1>1, <2>1, <3>1, <3>2 DEF CollectedAt, AnsweredAt, Undisturbed
  <2> QED
    BY <1>4, <2>3 DEF CollectInv
<1>9. \/ ReceiveNfc(c)
      \/ /\ (ReceiveUsb(c) \/ ReceiveBle(c)) /\ OnCbor(c, Incoming(c)) /\ Incoming(c).cmd = "cbor"
         /\ ReceiveUsb(c) => Mine(on[c], Incoming(c))
      \/ answer' = answer /\ pc'[c] \notin {"new", "returned"} /\ (kind = "nfc" => pc'[c] # "recv")
  <2>1. pc \in [Calls -> {"new"} \cup Waiting \cup Ended]
    BY DEF TypeInv, TypeOK
  <2>2. CASE SendAfterInit(c) \/ ReceiveInit(c)
    BY <2>1, <2>2 DEF SendAfterInit, Sent, ReceiveInit, Ends, PhaseInv
  <2>3. CASE ReceiveFails(c) \/ Resume(c)
    BY <2>1, <2>3 DEF ReceiveFails, Resume, Ends, PhaseInv
  <2>4. CASE ReceiveUsb(c)
    BY <2>1, <2>4 DEF ReceiveUsb, OnError, OnKeepAlive, Throws, Ends
  <2>5. CASE ReceiveBle(c)
    BY <2>1, <2>5 DEF ReceiveUsb, ReceiveBle, OnError, OnKeepAlive, Throws, Ends
  <2> QED
    BY <2>2, <2>3, <2>4, <2>5 DEF HostStep
<1> QED
  BY <1>6, <1>7, <1>8, <1>9

LEMMA CollectNext ==
  ASSUME TypeInv, SingleInv, PhaseInv, WireInv, CardInv, CollectInv, [Next]_vars
  PROVE  CollectInv'
<1>1. CASE UNCHANGED <<kind, on, pc, answer, muddled>>
  BY <1>1, CollectKept DEF CollectInv
<1>2. CASE Open \/ Close \/ Disconnected
  BY <1>1, <1>2, CliEffect
<1>3. CASE Cancel \/ DeviceAnswers \/ DeviceKeepsAlive \/ ForeignFrame \/ UNCHANGED vars
  BY <1>1, <1>3, AuthenticatorEffect DEF vars, cliVars, callVars
<1>4. ASSUME NEW c \in Calls,
             TooLarge(c) \/ SendInit(c) \/ SendUsb(c) \/ SendBle(c) \/ SendNfc(c)
      PROVE  CollectInv'
  <2>1. PICK how \in {"init", "recv", "failed"} : pc' = [pc EXCEPT ![c] = how]
    BY <1>4, SendEffect
  <2>2. Make(c)
    BY <1>4, SendEffect
  <2>3. /\ pc[c] = "new" /\ UNCHANGED <<kind, closed, answer>> /\ muddled \subseteq muddled'
        /\ \A d \in Calls \ {c} : on'[d] = on[d] /\ pc'[d] = pc[d]
        /\ pc'[c] = how
    BY <2>1, <2>2 DEF Make, TypeInv, TypeOK
  <2>4. CollectedAt(c)' /\ AnsweredAt(c)'
    BY <2>3 DEF CollectInv, CollectedAt, AnsweredAt
  <2>5. \A d \in Calls \ {c} : CollectedAt(d)' /\ AnsweredAt(d)'
    BY <2>3, CollectKept DEF CollectInv
  <2> QED
    BY <2>4, <2>5 DEF CollectInv
<1>5. ASSUME NEW c \in Calls, HostStep(c)
      PROVE  CollectInv'
  BY <1>5, CollectHost
<1> QED
  BY <1>2, <1>3, <1>4, <1>5 DEF Next

LEMMA AnswerInit ==
  ASSUME Init
  PROVE  WireInv /\ CardInv /\ CollectInv
<1>1. /\ cli = 0 /\ linked = {} /\ device = 0
      /\ \A g \in Clis : DOMAIN queue[g] = {}
      /\ \A c \in Calls : pc[c] = "new" /\ answer[c] = {}
  BY NoneAt DEF Init
<1>2. WireInv
  BY <1>1 DEF WireInv, LinkInv, LineInv, DeviceInv, EndingInv
<1>3. CardInv
  BY <1>1 DEF CardInv
<1>4. CollectInv
  BY <1>1 DEF CollectInv, CollectedAt, AnsweredAt
<1> QED
  BY <1>2, <1>3, <1>4

(* A call that returns data returns the answer to its own command, on every transport, for
   any number of clis, one open beside the other, and of calls, and whether or not its cli is
   closed meanwhile: neither an answer left over from another cli, nor a frame of another
   program's channel, nor what GET RESPONSE fetches of another command. *)
THEOREM AnswerBelongsHolds == Spec => []AnswerBelongs
<1> DEFINE Inv == TypeInv /\ SingleInv /\ PhaseInv /\ WireInv /\ CardInv /\ CollectInv
<1>1. Init => Inv
  BY TypeInit, SingleInit, AnswerInit
<1>2. Inv /\ [Next]_vars => Inv'
  BY TypeNext, SingleNext, WireNext, CardNext, CollectNext
<1>3. Inv => AnswerBelongs
  BY DEF AnswerBelongs, CollectInv, AnsweredAt
<1> QED
  BY <1>1, <1>2, <1>3, PTL DEF Spec
=============================================================================
