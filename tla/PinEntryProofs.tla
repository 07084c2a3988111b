---------------------------- MODULE PinEntryProofs ----------------------------
(***************************************************************************)
(* Theorems about PIN entry in console mode, when the application makes    *)
(* one request at a time.  Which handlers it gives matters: the event of a *)
(* missing one goes to the next handler of the switch.                     *)
(***************************************************************************)
EXTENDS RequestLifeProofs

-----------------------------------------------------------------------------
(* One PIN at a time *)

(* Unanswered handler calls that ask for a PIN. *)
Prompted == prompts["onEnterPin"] + prompts["onSetPin"] + prompts["onPinInvalid"]

PinWaits == {"pin", "newPin"}

(***************************************************************************)
(* A PIN is either being asked for or being tried: of the prompts and the  *)
(* device calls of a request there is at most one.  A blocked request has  *)
(* none, and waits for a PIN nobody asks for.                              *)
(***************************************************************************)
PinAt(r) ==
  /\ pc[r] # "pin" => tokenCalls[r] = 0 /\ retryCalls[r] = 0
  /\ tokenCalls[r] + retryCalls[r] + Prompted <= 1
  /\ r \in blocked => /\ pc[r] = "pin"
                      /\ tokenCalls[r] + retryCalls[r] + Prompted = 0
  /\ pc[r] \in PinWaits => subs = {} \/ <<r, pc[r]>> \in subs

PinInv ==
  /\ \A r \in Requests : PinAt(r)
  /\ Prompted > 0 => \E r \in Requests : pc[r] \in PinWaits

LEMMA PromptedType ==
  ASSUME TypeOK
  PROVE  /\ Prompted \in Nat
         /\ \A h \in PinHandlers : prompts[h] > 0 => Prompted > 0
  BY DEF TypeOK, Prompted, PinHandlers, PromptNames, Prompts

(* An event whose handler is given goes to it. *)
LEMMA AskOwn ==
  ASSUME ~DefaultModal, NEW handler \in Handlers \cap PromptNames, Ask(handler)
  PROVE  prompts' = [prompts EXCEPT ![handler] = IF @ < MaxPrompts THEN @ + 1 ELSE @]
<1> DEFINE reached == {i \in DOMAIN Prompts : /\ Prompts[i] \in Handlers
                                              /\ \E j \in 1..i : Prompts[j] = handler}
<1>1. PICK k \in 1..5 : Prompts[k] = handler
  BY DEF PromptNames, Prompts
<1>2. DOMAIN Prompts = 1..5
  BY DEF Prompts
<1>3. \A i, j \in 1..5 : Prompts[i] = Prompts[j] => i = j
  BY DEF Prompts
<1>4. k \in reached /\ \A i \in reached : k <= i
  BY <1>1, <1>2, <1>3
<1>5. Min(reached) = k
  BY <1>2, <1>4 DEF Min
<1>6. prompts' = [prompts EXCEPT ![Prompts[Min(reached)]] = IF @ < MaxPrompts THEN @ + 1 ELSE @]
  BY <1>4 DEF Ask
<1> QED
  BY <1>1, <1>5, <1>6

(* The handlers of consent and of devices are given, so that neither event falls through to
   a handler that asks for a PIN; those of PINs may be missing. *)
AnswersConsent == {"onRequest", "onDeviceAttached"} \subseteq Handlers

LEMMA AskPrompted ==
  ASSUME TypeOK, ~DefaultModal, AnswersConsent, NEW handler \in PromptNames, Ask(handler)
  PROVE  /\ Prompted' \in {Prompted, Prompted + 1}
         /\ handler \notin PinHandlers => Prompted' = Prompted
<1>1. ASSUME NEW h, prompts' = [prompts EXCEPT ![h] = IF @ < MaxPrompts THEN @ + 1 ELSE @]
      PROVE  Prompted' \in {Prompted, Prompted + 1}
  <2>1. CASE h \notin PinHandlers
    <3>1. \A x \in PinHandlers : prompts'[x] = prompts[x]
      BY <1>1, <2>1 DEF TypeOK, PinHandlers, PromptNames, Prompts
    <3> QED
      BY <3>1 DEF Prompted, PinHandlers
  <2>2. CASE h \in PinHandlers
    BY <1>1, <2>2 DEF TypeOK, Prompted, PinHandlers, PromptNames, Prompts
  <2> QED
    BY <2>1, <2>2
<1>2. ASSUME handler \notin PinHandlers
      PROVE  Prompted' = Prompted
  <2>1. handler \in {"onRequest", "onDeviceAttached"}
    BY <1>2 DEF PinHandlers, PromptNames, Prompts
  <2>2. prompts' = [prompts EXCEPT ![handler] = IF @ < MaxPrompts THEN @ + 1 ELSE @]
    BY <2>1, AskOwn DEF AnswersConsent
  <2>3. \A x \in PinHandlers : prompts'[x] = prompts[x]
    BY <2>1, <2>2 DEF TypeOK, PinHandlers, PromptNames, Prompts
  <2> QED
    BY <2>3 DEF Prompted, PinHandlers
<1>3. CASE prompts' = prompts
  BY <1>3, <1>2 DEF Prompted
<1>4. CASE \E h : prompts' = [prompts EXCEPT ![h] = IF @ < MaxPrompts THEN @ + 1 ELSE @]
  BY <1>1, <1>2, <1>4
<1> QED
  BY <1>3, <1>4, Zenon DEF Ask

LEMMA AnswerPrompted ==
  ASSUME TypeOK, ~DefaultModal, NEW handlers \in SUBSET PromptNames, Answer(handlers)
  PROVE  /\ Prompted' \in {Prompted, Prompted - 1}
         /\ handlers \cap PinHandlers = {} => Prompted' = Prompted
         /\ handlers \subseteq PinHandlers => Prompted' = Prompted - 1
<1>1. PICK h \in handlers : prompts' = [prompts EXCEPT ![h] = @ - 1]
  BY DEF Answer
<1> QED
  BY <1>1 DEF TypeOK, Prompted, PinHandlers, PromptNames, Prompts

(* No PIN call begins or ends, no prompt is added, and nobody begins or ends to wait. *)
LEMMA PinFrame ==
  ASSUME TypeOK, TypeOK', PinInv, UNCHANGED <<tokenCalls, retryCalls, blocked>>, Prompted' <= Prompted,
         \A q \in Requests : pc'[q] = pc[q] \/ (pc[q] \notin PinWaits /\ pc'[q] \notin PinWaits),
         \A q \in Requests : pc[q] \in PinWaits =>
           subs' = {} \/ subs' = subs \/ <<q, pc[q]>> \in subs'
  PROVE  PinInv'
<1>1. Prompted \in Nat /\ Prompted' \in Nat
  BY DEF TypeOK, Prompted, PromptNames, Prompts
<1>2. ASSUME NEW q \in Requests
      PROVE  PinAt(q)'
  <2>1. PinAt(q) /\ tokenCalls[q] \in Nat /\ retryCalls[q] \in Nat
    BY DEF PinInv, TypeOK
  <2>2. tokenCalls'[q] + retryCalls'[q] + Prompted' <= tokenCalls[q] + retryCalls[q] + Prompted
    BY <1>1, <2>1
  <2>3. (pc'[q] = "pin") <=> (pc[q] = "pin")
    BY DEF PinWaits
  <2>4. q \in blocked' => tokenCalls'[q] + retryCalls'[q] + Prompted' = 0
    <3>1. q \in blocked' => tokenCalls[q] + retryCalls[q] + Prompted = 0
      BY <2>1 DEF PinAt
    <3>2. tokenCalls'[q] + retryCalls'[q] + Prompted' \in Nat
      BY <1>1, <2>1
    <3>3. tokenCalls[q] + retryCalls[q] + Prompted \in Nat
      BY <1>1, <2>1
    <3> QED
      BY <2>2, <3>1, <3>2, <3>3
  <2>5. pc'[q] # "pin" => tokenCalls'[q] = 0 /\ retryCalls'[q] = 0
    BY <2>1, <2>3 DEF PinAt
  <2>6. tokenCalls'[q] + retryCalls'[q] + Prompted' <= 1
    <3>1. tokenCalls[q] + retryCalls[q] + Prompted <= 1
      BY <2>1 DEF PinAt
    <3> QED
      BY <1>1, <2>1, <2>2, <3>1
  <2>7. q \in blocked' => pc'[q] = "pin"
    BY <2>1, <2>3 DEF PinAt
  <2>8. pc'[q] \in PinWaits => subs' = {} \/ <<q, pc'[q]>> \in subs'
    BY <2>1 DEF PinAt
  <2> QED
    BY <2>4, <2>5, <2>6, <2>7, <2>8 DEF PinAt
<1>3. Prompted' > 0 => \E r \in Requests : pc'[r] \in PinWaits
  BY <1>1 DEF PinInv
<1> QED
  BY <1>2, <1>3 DEF PinInv

(* In console mode nobody waits for a PIN beside another pending request. *)
LEMMA WaitsAlone ==
  ASSUME LifeInv, ConsoleInv, NEW q \in Requests, pc[q] \in PinWaits, NEW r \in Requests,
         Pending(r) \/ pc[r] \notin {"new", "end"}
  PROVE  q = r
<1>1. Pending(q) /\ Pending(r)
  BY DEF ConsoleInv, PinWaits
<1> QED
  BY <1>1 DEF LifeInv, AlonePending

(* A PIN call under way is the only one, and nobody is asked for a PIN meanwhile. *)
LEMMA PinUnderWay ==
  ASSUME TypeOK, PinInv, NEW r \in Requests, tokenCalls[r] > 0 \/ retryCalls[r] > 0
  PROVE  /\ pc[r] = "pin" /\ r \notin blocked
         /\ tokenCalls[r] + retryCalls[r] = 1 /\ Prompted = 0
<1>1. PinAt(r) /\ tokenCalls[r] \in Nat /\ retryCalls[r] \in Nat /\ Prompted \in Nat
  BY PromptedType DEF PinInv, TypeOK
<1> QED
  BY <1>1 DEF PinAt

LEMMA NoCallsSum ==
  ASSUME NEW token, NEW retry, NEW asked \in Nat, token = 0, retry = 0, asked <= 1
  PROVE  token + retry + asked <= 1
  OBVIOUS

(* A PIN call of r is answered: it was the only thing under way, and one at most follows. *)
LEMMA PinAnswered ==
  ASSUME TypeOK, TypeOK', LifeInv, ConsoleInv, PinInv, NEW r \in Requests,
         tokenCalls[r] > 0 \/ retryCalls[r] > 0,
         \A q \in Requests \ {r} : /\ tokenCalls'[q] = tokenCalls[q]
                                   /\ retryCalls'[q] = retryCalls[q]
                                   /\ pc'[q] = pc[q],
         tokenCalls'[r] + retryCalls'[r] + Prompted' <= tokenCalls[r] + retryCalls[r] + Prompted,
         subs' = subs, blocked' \subseteq blocked \cup {r},
         \/ pc'[r] = pc[r] /\ r \notin blocked'
         \/ pc'[r] \in {pc[r], "ready"} /\ tokenCalls'[r] + retryCalls'[r] + Prompted' = 0,
         r \in blocked' => pc'[r] = pc[r]
  PROVE  PinInv'
<1>1. Prompted \in Nat /\ Prompted' \in Nat
  BY DEF TypeOK, Prompted, PromptNames, Prompts
<1>2. /\ tokenCalls[r] \in Nat /\ retryCalls[r] \in Nat
      /\ tokenCalls'[r] \in Nat /\ retryCalls'[r] \in Nat
  BY DEF TypeOK
<1>3. PinAt(r)
  BY DEF PinInv
<1>4. pc[r] = "pin" /\ tokenCalls[r] + retryCalls[r] = 1 /\ Prompted = 0 /\ r \notin blocked
  BY PinUnderWay
<1>5. ASSUME NEW q \in Requests \ {r}
      PROVE  PinAt(q)'
  <2>1. ~Pending(q) /\ pc[q] \in {"new", "end"}
    BY <1>4, WaitsAlone DEF PinWaits, ConsoleInv
  <2>2. PinAt(q)
    BY DEF PinInv
  <2>3. tokenCalls[q] = 0 /\ retryCalls[q] = 0 /\ q \notin blocked
    BY <2>1, <2>2 DEF PinAt
  <2>4. tokenCalls'[q] = 0 /\ retryCalls'[q] = 0 /\ q \notin blocked' /\ pc'[q] \notin PinWaits
    BY <2>1, <2>3 DEF PinWaits
  <2>5. Prompted' <= 1
    BY <1>1, <1>2, <1>4
  <2>6. tokenCalls'[q] + retryCalls'[q] + Prompted' <= 1
    BY <1>1, <2>4, <2>5, NoCallsSum, Zenon
  <2> QED
    BY <2>4, <2>6 DEF PinAt, PinWaits
<1>6. PinAt(r)'
  <2>1. tokenCalls'[r] + retryCalls'[r] + Prompted' <= 1
    BY <1>1, <1>2, <1>4
  <2>2. CASE pc'[r] = pc[r] /\ r \notin blocked'
    BY <1>3, <1>4, <2>1, <2>2 DEF PinAt
  <2>3. CASE pc'[r] \in {pc[r], "ready"} /\ tokenCalls'[r] + retryCalls'[r] + Prompted' = 0
    <3>1. tokenCalls'[r] = 0 /\ retryCalls'[r] = 0
      BY <1>1, <1>2, <2>3
    <3>2. pc'[r] \in PinWaits => pc'[r] = pc[r]
      BY <2>3 DEF PinWaits
    <3> QED
      BY <1>3, <1>4, <2>1, <2>3, <3>1, <3>2 DEF PinAt
  <2> QED
    BY <2>2, <2>3
<1>7. Prompted' > 0 => pc'[r] \in PinWaits
  BY <1>1, <1>2, <1>4 DEF PinWaits
<1> QED
  BY <1>5, <1>6, <1>7 DEF PinInv

LEMMA PinDevice ==
  ASSUME ~DefaultModal, AnswersConsent, TypeOK, TypeOK',
         LifeInv, ConsoleInv, PinInv, NEW r \in Requests, DeviceStep(r)
  PROVE  PinInv'
<1> "onPinInvalid" \in PromptNames
  BY DEF PromptNames, Prompts
<1>1. CASE \/ \E o \in Authenticators : InfoAnswered(r, o)
           \/ HandlerThrows(r) \/ RetriesRead(r) \/ SetPinReturns(r)
           \/ ExtensionsBuilt(r) \/ CredentialReturns(r)
  <2>1. UNCHANGED <<subs, tokenCalls, retryCalls, blocked, prompts>>
    BY <1>1 DEF InfoAnswered, HandlerThrows, RetriesRead, SetPinReturns, ExtensionsBuilt,
                CredentialReturns, subVars, pinVars
  <2>2. \A q \in Requests \ {r} : pc'[q] = pc[q]
    BY <1>1 DEF InfoAnswered, HandlerThrows, RetriesRead, SetPinReturns, ExtensionsBuilt,
                CredentialReturns, TypeOK
  <2>3. pc[r] \notin PinWaits /\ pc'[r] \notin PinWaits
    BY <1>1 DEF InfoAnswered, HandlerThrows, RetriesRead, SetPinReturns, ExtensionsBuilt,
                CredentialReturns, TypeOK, PinWaits
  <2>4. Prompted' <= Prompted
    BY <2>1, PromptedType DEF Prompted
  <2> QED
    BY <2>1, <2>2, <2>3, <2>4, PinFrame
<1>2. CASE ExtensionsOutput(r)
  <2>1. UNCHANGED <<tokenCalls, retryCalls, blocked, prompts>>
    BY <1>2 DEF ExtensionsOutput, pinVars
  <2>2. /\ subs' \in {subs, {}}
        /\ \A q \in Requests \ {r} : pc'[q] = pc[q]
        /\ pc[r] \notin PinWaits /\ pc'[r] \notin PinWaits
    BY <1>2 DEF ExtensionsOutput, Finish, TypeOK, PinWaits
  <2>3. Prompted' <= Prompted
    BY <2>1, PromptedType DEF Prompted
  <2> QED
    BY <2>1, <2>2, <2>3, PinFrame
<1>3. CASE TokenGranted(r)
  <2>1. /\ tokenCalls[r] > 0 /\ tokenCalls' = [tokenCalls EXCEPT ![r] = @ - 1]
        /\ UNCHANGED <<retryCalls, blocked, prompts, subs>>
        /\ \/ pc' = [pc EXCEPT ![r] = "ready"]
           \/ pc' = pc
    BY <1>3 DEF TokenGranted, subVars
  <2>2. tokenCalls'[r] + retryCalls'[r] + Prompted' = 0
    <3>1. tokenCalls[r] \in Nat /\ retryCalls[r] \in Nat
      BY DEF TypeOK
    <3>2. tokenCalls[r] = 1 /\ retryCalls[r] = 0 /\ Prompted = 0
      BY <2>1, <3>1, PinUnderWay
    <3>3. tokenCalls'[r] = 0 /\ retryCalls'[r] = 0 /\ Prompted' = 0
      BY <2>1, <3>2 DEF Prompted, TypeOK
    <3> QED
      BY <3>3
  <2>3. r \notin blocked
    BY <2>1, PinUnderWay
  <2>4. pc'[r] \in {pc[r], "ready"} /\ \A q \in Requests \ {r} : pc'[q] = pc[q] /\ tokenCalls'[q] = tokenCalls[q]
    BY <2>1 DEF TypeOK
  <2>5. tokenCalls'[r] + retryCalls'[r] + Prompted' <= tokenCalls[r] + retryCalls[r] + Prompted
    BY <2>2, PromptedType DEF TypeOK
  <2> QED
    BY <2>1, <2>2, <2>3, <2>4, <2>5, PinAnswered
<1>4. CASE PinInvalid(r)
  <2>1. /\ tokenCalls[r] > 0 /\ tokenCalls' = [tokenCalls EXCEPT ![r] = @ - 1]
        /\ UNCHANGED <<pc, blocked, prompts, subs>>
    BY <1>4 DEF PinInvalid, reqVars, subVars
  <2>2. retryCalls' \in {retryCalls, [retryCalls EXCEPT ![r] = @ + 1]}
    BY <1>4, Zenon DEF PinInvalid
  <2>3. r \notin blocked
    BY <2>1, PinUnderWay
  <2>4. /\ \A q \in Requests \ {r} : tokenCalls'[q] = tokenCalls[q] /\ retryCalls'[q] = retryCalls[q]
        /\ tokenCalls'[r] = tokenCalls[r] - 1 /\ retryCalls'[r] \in {retryCalls[r], retryCalls[r] + 1}
    BY <2>1, <2>2 DEF TypeOK
  <2>5. tokenCalls'[r] + retryCalls'[r] + Prompted' <= tokenCalls[r] + retryCalls[r] + Prompted
    <3>1. Prompted' = Prompted /\ Prompted \in Nat /\ tokenCalls[r] \in Nat /\ retryCalls[r] \in Nat
      BY <2>1, PromptedType DEF Prompted, TypeOK
    <3> QED
      BY <2>4, <3>1
  <2> QED
    BY <2>1, <2>3, <2>4, <2>5, PinAnswered
<1>5. CASE PinBlocked(r)
  <2>1. /\ tokenCalls[r] > 0 /\ tokenCalls' = [tokenCalls EXCEPT ![r] = @ - 1]
        /\ blocked' = blocked \cup {r}
        /\ UNCHANGED <<pc, retryCalls, prompts, subs>>
    BY <1>5 DEF PinBlocked, reqVars, subVars
  <2>2. tokenCalls'[r] + retryCalls'[r] + Prompted' = 0
    <3>1. tokenCalls[r] \in Nat /\ retryCalls[r] \in Nat
      BY DEF TypeOK
    <3>2. tokenCalls[r] = 1 /\ retryCalls[r] = 0 /\ Prompted = 0
      BY <2>1, <3>1, PinUnderWay
    <3>3. tokenCalls'[r] = 0 /\ retryCalls'[r] = 0 /\ Prompted' = 0
      BY <2>1, <3>2 DEF Prompted, TypeOK
    <3> QED
      BY <3>3
  <2>3. \A q \in Requests \ {r} : tokenCalls'[q] = tokenCalls[q]
    BY <2>1 DEF TypeOK
  <2>4. tokenCalls'[r] + retryCalls'[r] + Prompted' <= tokenCalls[r] + retryCalls[r] + Prompted
    BY <2>2, PromptedType DEF TypeOK
  <2> QED
    BY <2>1, <2>2, <2>3, <2>4, PinAnswered
<1>6. CASE TokenFails(r)
  <2>1. /\ tokenCalls[r] > 0 /\ tokenCalls' = [tokenCalls EXCEPT ![r] = @ - 1]
        /\ UNCHANGED <<pc, blocked, retryCalls, prompts, subs>>
    BY <1>6 DEF TokenFails, subVars
  <2>2. r \notin blocked
    BY <2>1, PinUnderWay
  <2>3. /\ \A q \in Requests \ {r} : tokenCalls'[q] = tokenCalls[q]
        /\ tokenCalls'[r] = tokenCalls[r] - 1
    BY <2>1 DEF TypeOK
  <2>4. tokenCalls'[r] + retryCalls'[r] + Prompted' <= tokenCalls[r] + retryCalls[r] + Prompted
    <3>1. Prompted' = Prompted /\ Prompted \in Nat /\ tokenCalls[r] \in Nat /\ retryCalls[r] \in Nat
      BY <2>1, PromptedType DEF Prompted, TypeOK
    <3> QED
      BY <2>1, <2>3, <3>1
  <2> QED
    BY <2>1, <2>2, <2>3, <2>4, PinAnswered
<1>7. CASE PinInvalidReported(r)
  <2>1. /\ retryCalls[r] > 0 /\ retryCalls' = [retryCalls EXCEPT ![r] = @ - 1]
        /\ UNCHANGED <<pc, blocked, tokenCalls, subs>>
    BY <1>7 DEF PinInvalidReported, reqVars, subVars
  <2>2. Prompted' \in {Prompted, Prompted + 1}
    <3>1. CASE Ask("onPinInvalid")
      BY <3>1, AskPrompted
    <3>2. CASE UNCHANGED prompts
      BY <3>2 DEF Prompted
    <3> QED
      BY <1>7, <3>1, <3>2 DEF PinInvalidReported
  <2>3. r \notin blocked
    BY <2>1, PinUnderWay
  <2>4. /\ \A q \in Requests \ {r} : retryCalls'[q] = retryCalls[q]
        /\ retryCalls'[r] = retryCalls[r] - 1
    BY <2>1 DEF TypeOK
  <2>5. tokenCalls'[r] + retryCalls'[r] + Prompted' <= tokenCalls[r] + retryCalls[r] + Prompted
    <3>1. Prompted \in Nat /\ tokenCalls[r] \in Nat /\ retryCalls[r] \in Nat
      BY PromptedType DEF TypeOK
    <3> QED
      BY <2>1, <2>2, <2>4, <3>1
  <2> QED
    BY <2>1, <2>3, <2>4, <2>5, PinAnswered
<1> QED
  BY <1>1, <1>2, <1>3, <1>4, <1>5, <1>6, <1>7 DEF DeviceStep

LEMMA PinUser ==
  ASSUME ~DefaultModal, AnswersConsent, TypeOK, TypeOK',
         LifeInv, ConsoleInv, EarlyInv, PinInv, UserStep
  PROVE  PinInv'
<1> /\ PinHandlers \subseteq PromptNames
    /\ {"onRequest"} \subseteq PromptNames /\ {"onRequest"} \cap PinHandlers = {}
    /\ {"onDeviceAttached"} \subseteq PromptNames /\ {"onDeviceAttached"} \cap PinHandlers = {}
    /\ PromptNames \ {"onRequest"} \subseteq PromptNames
  BY DEF PromptNames, Prompts, PinHandlers
<1>1. CASE Accept
  <2> DEFINE listeners == Live("request")
  <2>1. /\ UNCHANGED <<tokenCalls, retryCalls, blocked>>
        /\ Answer({"onRequest"})
        /\ \A q \in Requests \ listeners : pc'[q] = pc[q]
        /\ \A q \in listeners : pc'[q] = "select"
        /\ subs' = (subs \ (listeners \X {"request"})) \cup (listeners \X {"device", "enumerate"})
    BY <1>1 DEF Accept, pinVars, Live
  <2>2. Prompted' <= Prompted
    BY <2>1, AnswerPrompted, PromptedType
  <2>3. \A q \in listeners : q \in Requests /\ pc[q] = "asked"
    BY DEF Live, LifeInv, LifeAt
  <2>4. ASSUME NEW q \in Requests, pc[q] \in PinWaits
        PROVE  listeners = {}
    BY <2>3, <2>4, WaitsAlone DEF PinWaits
  <2>5. \A q \in Requests : pc[q] \in PinWaits => subs' = subs
    BY <2>1, <2>4
  <2>6. \A q \in Requests : pc'[q] = pc[q] \/ (pc[q] \notin PinWaits /\ pc'[q] \notin PinWaits)
    BY <2>1, <2>3 DEF PinWaits
  <2> QED
    BY <2>1, <2>2, <2>5, <2>6, PinFrame
<1>2. CASE Deny
  <2> DEFINE listeners == Live("request")
  <2>1. /\ UNCHANGED <<tokenCalls, retryCalls, blocked>>
        /\ Answer({"onRequest"})
    BY <1>2 DEF Deny, pinVars
  <2>2. Prompted' <= Prompted
    BY <2>1, AnswerPrompted, PromptedType
  <2>3. CASE listeners = {}
    <3>1. subs' = subs /\ \A q \in Requests : pc'[q] = pc[q]
      BY <1>2, <2>3 DEF Deny
    <3> QED
      BY <2>1, <2>2, <3>1, PinFrame
  <2>4. CASE listeners # {}
    <3>1. PICK r \in Requests : <<r, "request">> \in subs
      BY <2>4 DEF Live
    <3>2. pc[r] = "asked"
      BY <3>1 DEF LifeInv, LifeAt
    <3>3. \A q \in Requests : pc[q] \notin PinWaits
      BY <3>2, WaitsAlone DEF PinWaits
    <3>4. \A q \in Requests : pc'[q] \in {pc[q], "end"}
      BY <1>2 DEF Deny
    <3>5. \A q \in Requests : pc'[q] \notin PinWaits
      BY <3>3, <3>4 DEF PinWaits
    <3> QED
      BY <2>1, <2>2, <3>3, <3>5, PinFrame
  <2> QED
    BY <2>3, <2>4
<1>3. CASE PinAvailable
  <2> DEFINE readers == Live("pin")
             setters == Live("newPin")
  <2>1. /\ UNCHANGED <<retryCalls, blocked>> /\ Answer(PinHandlers)
        /\ subs' = subs \ (setters \X {"newPin"})
        /\ \A q \in Requests \ setters : pc'[q] = pc[q]
        /\ \A q \in setters : pc'[q] \in {"setPin", "decide"}
        /\ \A q \in Requests \ readers : tokenCalls'[q] = tokenCalls[q]
        /\ \A q \in readers : tokenCalls'[q] \in {tokenCalls[q], tokenCalls[q] + 1}
    BY <1>3 DEF PinAvailable, Live, TypeOK
  <2>2. Prompted = 1 /\ Prompted' = 0
    <3>1. Prompted' = Prompted - 1
      BY <2>1, AnswerPrompted
    <3>2. Prompted > 0
      BY <2>1, PromptedType DEF Answer
    <3>3. PICK q \in Requests : pc[q] \in PinWaits
      BY <3>2 DEF PinInv
    <3>4. PinAt(q) /\ tokenCalls[q] \in Nat /\ retryCalls[q] \in Nat
      BY DEF PinInv, TypeOK
    <3> QED
      BY <3>1, <3>2, <3>4, PromptedType DEF PinAt
  <2>3. PICK r \in Requests : pc[r] \in PinWaits
    BY <2>2 DEF PinInv
  <2>4. \A q \in Requests : tokenCalls[q] = 0 /\ retryCalls[q] = 0 /\ q \notin blocked
    <3>1. ASSUME NEW q \in Requests
          PROVE  tokenCalls[q] = 0 /\ retryCalls[q] = 0 /\ q \notin blocked
      <4>1. PinAt(q) /\ tokenCalls[q] \in Nat /\ retryCalls[q] \in Nat
        BY DEF PinInv, TypeOK
      <4>2. tokenCalls[q] = 0 /\ retryCalls[q] = 0
        BY <2>2, <4>1 DEF PinAt
      <4> QED
        BY <2>2, <4>1, <4>2 DEF PinAt
    <3> QED
      BY <3>1
  <2>5. \A q \in Requests \ {r} : pc[q] \in {"new", "end"} /\ q \notin readers /\ q \notin setters
    <3>1. ASSUME NEW q \in Requests \ {r}
          PROVE  ~Pending(q) /\ pc[q] \in {"new", "end"}
      BY <2>3, WaitsAlone DEF ConsoleInv
    <3> QED
      BY <3>1 DEF ConsoleInv, Subjects, Live
  <2>6. ASSUME NEW q \in Requests \ {r}
        PROVE  PinAt(q)'
    BY <2>1, <2>2, <2>4, <2>5 DEF PinAt, PinWaits
  <2>7. PinAt(r)'
    <3>1. CASE pc[r] = "newPin"
      <4>1. r \notin readers
        BY <3>1 DEF Live, EarlyInv, Early
      <4>2. pc'[r] \in PinWaits => pc'[r] = pc[r] /\ r \notin setters
        BY <2>1, <3>1 DEF PinWaits
      <4>3. tokenCalls'[r] = 0 /\ retryCalls'[r] = 0 /\ r \notin blocked'
        BY <2>1, <2>4, <4>1
      <4>4. pc'[r] \in PinWaits => subs' = {} \/ <<r, pc'[r]>> \in subs'
        <5>1. PinAt(r)
          BY DEF PinInv
        <5> QED
          BY <2>1, <2>3, <4>2, <5>1 DEF PinAt
      <4> QED
        BY <2>2, <4>3, <4>4 DEF PinAt
    <3>2. CASE pc[r] = "pin"
      <4>1. r \notin setters
        BY <3>2 DEF Live, LifeInv, LifeAt
      <4>2. pc'[r] = pc[r] /\ tokenCalls'[r] \in {0, 1} /\ retryCalls'[r] = 0 /\ r \notin blocked'
        BY <2>1, <2>4, <4>1
      <4>3. subs' = {} \/ <<r, pc'[r]>> \in subs'
        <5>1. PinAt(r)
          BY DEF PinInv
        <5> QED
          BY <2>1, <2>3, <3>2, <4>2, <5>1 DEF PinAt
      <4> QED
        BY <2>2, <3>2, <4>2, <4>3 DEF PinAt
    <3> QED
      BY <2>3, <3>1, <3>2 DEF PinWaits
  <2> QED
    BY <2>2, <2>6, <2>7 DEF PinInv
<1>4. CASE HandlerGivesNothing
  <2>1. UNCHANGED <<pc, subs, tokenCalls, retryCalls, blocked>> /\ Answer(PromptNames \ {"onRequest"})
    BY <1>4 DEF HandlerGivesNothing, reqVars, subVars, pinVars
  <2>2. Prompted' <= Prompted
    BY <2>1, AnswerPrompted, PromptedType
  <2> QED
    BY <2>1, <2>2, PinFrame
<1>5. CASE CancelEvent \/ ErrorEvent
  BY <1>5 DEF CancelEvent, ErrorEvent
<1>6. ASSUME NEW opened \in SUBSET Requests, SelectDevice(opened)
      PROVE  PinInv'
  <2> DEFINE listeners == Live("device")
  <2>1. /\ UNCHANGED <<tokenCalls, retryCalls, blocked>>
        /\ Answer({"onDeviceAttached"})
        /\ subs' = subs \ (Requests \X {"device", "enumerate"})
        /\ \A q \in Requests \ listeners : pc'[q] = pc[q]
        /\ \A q \in listeners : pc'[q] \in {"info", "dead"}
    BY <1>6 DEF SelectDevice, pinVars, Live
  <2>2. Prompted' <= Prompted
    BY <2>1, AnswerPrompted, PromptedType
  <2>3. \A q \in listeners : q \in Requests /\ pc[q] = "select"
    BY DEF Live, LifeInv, LifeAt
  <2>4. \A q \in Requests : pc'[q] = pc[q] \/ (pc[q] \notin PinWaits /\ pc'[q] \notin PinWaits)
    BY <2>1, <2>3 DEF PinWaits
  <2>5. ASSUME NEW q \in Requests, pc[q] \in PinWaits
        PROVE  subs' = {} \/ <<q, pc[q]>> \in subs'
    <3>1. subs = {} \/ <<q, pc[q]>> \in subs
      BY <2>5 DEF PinInv, PinAt
    <3> QED
      BY <2>1, <2>5, <3>1 DEF PinWaits
  <2> QED
    BY <2>1, <2>2, <2>4, <2>5, PinFrame
<1> QED
  BY <1>1, <1>2, <1>3, <1>4, <1>5, <1>6 DEF UserStep

LEMMA PinMicrotask ==
  ASSUME ~DefaultModal, AnswersConsent, TypeOK, TypeOK',
         LifeInv, ConsoleInv, PinInv, NEW r \in Requests, MicrotaskStep(r)
  PROVE  PinInv'
<1>1. CASE Decide(r)
  <2>1. pc[r] = "decide" /\ UNCHANGED <<tokenCalls, retryCalls, blocked>>
    BY <1>1 DEF Decide, pinVars
  <2>2. \A q \in Requests : pc[q] \notin PinWaits
    BY <2>1, WaitsAlone DEF PinWaits
  <2>3. /\ Prompted = 0
        /\ \A q \in Requests : tokenCalls[q] = 0 /\ retryCalls[q] = 0 /\ q \notin blocked
    <3>1. Prompted = 0
      BY <2>2, PromptedType DEF PinInv
    <3> QED
      BY <2>2, <3>1 DEF PinInv, PinAt, PinWaits
  <2>4. \A q \in Requests \ {r} : pc'[q] = pc[q]
    BY <1>1 DEF Decide, TypeOK
  <2>5. CASE UNCHANGED <<subs, prompts>> /\ pc'[r] \in {"dead", "ready"}
    <3>1. Prompted' <= Prompted
      BY <2>5, PromptedType DEF Prompted
    <3>2. \A q \in Requests : pc[q] \notin PinWaits /\ pc'[q] \notin PinWaits
      BY <2>2, <2>4, <2>5 DEF PinWaits
    <3> QED
      BY <2>1, <3>1, <3>2, PinFrame
  <2>6. CASE pc'[r] \in PinWaits /\ <<r, pc'[r]>> \in subs' /\ Ask("onEnterPin")
    <3>1. Prompted' \in {0, 1}
      <4>1. "onEnterPin" \in PromptNames
        BY DEF PromptNames, Prompts
      <4> QED
        BY <2>3, <2>6, <4>1, AskPrompted
    <3>2. ASSUME NEW q \in Requests \ {r}
          PROVE  PinAt(q)'
      BY <2>1, <2>2, <2>3, <2>4, <3>1 DEF PinAt
    <3>3. PinAt(r)'
      BY <2>1, <2>3, <2>6, <3>1 DEF PinAt
    <3> QED
      BY <2>6, <3>2, <3>3 DEF PinInv
  <2>7. \/ UNCHANGED <<subs, prompts>> /\ pc'[r] \in {"dead", "ready"}
        \/ pc'[r] \in PinWaits /\ <<r, pc'[r]>> \in subs' /\ Ask("onEnterPin")
    BY <1>1 DEF Decide, TypeOK, PinWaits
  <2> QED
    BY <2>5, <2>6, <2>7
<1>2. CASE MakeExtensionsInput(r) \/ SendCredentialCommand(r)
  <2>1. UNCHANGED <<tokenCalls, retryCalls, blocked, prompts, subs>>
    BY <1>2 DEF MakeExtensionsInput, SendCredentialCommand, subVars, pinVars
  <2>2. /\ \A q \in Requests \ {r} : pc'[q] = pc[q]
        /\ pc[r] \notin PinWaits /\ pc'[r] \notin PinWaits
    BY <1>2 DEF MakeExtensionsInput, SendCredentialCommand, CallDevice, TypeOK, PinWaits
  <2>3. Prompted' <= Prompted
    BY <2>1, PromptedType DEF Prompted
  <2> QED
    BY <2>1, <2>2, <2>3, PinFrame
<1>3. CASE CredentialParsed(r)
  <2>1. UNCHANGED <<tokenCalls, retryCalls, blocked, prompts>> /\ subs' \in {subs, {}}
    BY <1>3 DEF CredentialParsed, Finish, pinVars
  <2>2. pc[r] = "succeeded" /\ \E after \in {"end", "failed", "output"} : pc' = [pc EXCEPT ![r] = after]
    BY <1>3 DEF CredentialParsed, Finish, CallDevice
  <2>3. /\ \A q \in Requests \ {r} : pc'[q] = pc[q]
        /\ pc[r] \notin PinWaits /\ pc'[r] \notin PinWaits
    BY <2>2 DEF TypeOK, PinWaits
  <2>4. Prompted' <= Prompted
    BY <2>1, PromptedType DEF Prompted
  <2> QED
    BY <2>1, <2>3, <2>4, PinFrame
<1>4. CASE CommandFails(r)
  <2>1. UNCHANGED <<tokenCalls, retryCalls, blocked, prompts>> /\ subs' \in {subs, {}}
    BY <1>4 DEF CommandFails, RaiseError, pinVars
  <2>2. /\ \A q \in Requests \ {r} : pc'[q] = pc[q]
        /\ pc[r] \notin PinWaits /\ pc'[r] \notin PinWaits
    BY <1>4 DEF CommandFails, TypeOK, PinWaits
  <2>3. Prompted' <= Prompted
    BY <2>1, PromptedType DEF Prompted
  <2> QED
    BY <2>1, <2>2, <2>3, PinFrame
<1> QED
  BY <1>1, <1>2, <1>3, <1>4 DEF MicrotaskStep

LEMMA PinCaller ==
  ASSUME ~DefaultModal, AnswersConsent, ~Overlap, TypeOK, TypeOK',
         ConsoleInv, PinInv, CallerStep
  PROVE  PinInv'
<1>1. PICK r \in Requests : CallRefused(r) \/ \E uv \in Verifications : Call(r, uv)
  BY DEF CallerStep
<1>2. /\ pc[r] = "new" /\ pc'[r] \in {"asked", "end", "dead"}
      /\ \A q \in Requests : ~Pending(q)
      /\ \A q \in Requests \ {r} : pc'[q] = pc[q]
      /\ UNCHANGED <<tokenCalls, retryCalls, blocked>>
  BY <1>1 DEF Call, CallRefused, MayCall, pinVars, TypeOK
<1>3. \A q \in Requests : pc[q] \notin PinWaits /\ pc'[q] \notin PinWaits
  BY <1>2 DEF ConsoleInv, PinWaits
<1>4. Prompted' <= Prompted
  <2>1. CASE UNCHANGED prompts
    BY <2>1, PromptedType DEF Prompted
  <2>2. CASE Ask("onRequest")
    <3>1. "onRequest" \in PromptNames /\ "onRequest" \notin PinHandlers
      BY DEF PromptNames, Prompts, PinHandlers
    <3> QED
      BY <2>2, <3>1, AskPrompted, PromptedType
  <2> QED
    BY <1>1, <2>1, <2>2 DEF Call, CallRefused
<1> QED
  BY <1>2, <1>3, <1>4, PinFrame

LEMMA PinNext ==
  ASSUME ~DefaultModal, AnswersConsent, ~Overlap, TypeOK, TypeOK',
         LifeInv, ConsoleInv, EarlyInv, PinInv, [Next]_vars
  PROVE  PinInv'
<1>1. CASE CallerStep
  BY <1>1, PinCaller
<1>2. CASE UserStep
  BY <1>2, PinUser
<1>3. ASSUME NEW r \in Requests, DeviceStep(r)
      PROVE  PinInv'
  BY <1>3, PinDevice
<1>4. ASSUME NEW r \in Requests, MicrotaskStep(r)
      PROVE  PinInv'
  BY <1>4, PinMicrotask
<1>5. CASE Release \/ UnawaitedReturns \/ UNCHANGED vars \/ \E r \in Requests : TimerFires(r)
  <2>1. UNCHANGED <<pc, tokenCalls, retryCalls, blocked, prompts>> /\ subs' \in {subs, {}}
    BY <1>5 DEF Release, UnawaitedReturns, TimerFires, vars, reqVars, subVars, pinVars
  <2>2. Prompted' <= Prompted
    BY <2>1, PromptedType DEF Prompted
  <2> QED
    BY <2>1, <2>2, PinFrame
<1>6. ASSUME NEW r \in Requests, DeviceAttached(r)
      PROVE  PinInv'
  <2>1. UNCHANGED <<pc, tokenCalls, retryCalls, blocked, subs>> /\ Ask("onDeviceAttached")
    BY <1>6 DEF DeviceAttached, reqVars, subVars, pinVars
  <2>2. "onDeviceAttached" \in PromptNames /\ "onDeviceAttached" \notin PinHandlers
    BY DEF PromptNames, Prompts, PinHandlers
  <2>3. Prompted' <= Prompted
    BY <2>1, <2>2, AskPrompted, PromptedType
  <2> QED
    BY <2>1, <2>3, PinFrame
<1> QED
  BY <1>1, <1>2, <1>3, <1>4, <1>5, <1>6 DEF Next

LEMMA PinInit ==
  ASSUME Init
  PROVE  PinInv
<1>1. Prompted = 0
  BY DEF Init, Prompted, PromptNames, Prompts
<1> QED
  BY <1>1 DEF Init, PinInv, PinAt, PinWaits

-----------------------------------------------------------------------------
(* The theorems *)

ConsolePinInv == TypeOK /\ LifeInv /\ ConsoleInv /\ EarlyInv /\ PinInv

LEMMA ConsolePinInvariant ==
  ASSUME ~Overlap, ~DefaultModal, AnswersConsent
  PROVE  /\ Init => ConsolePinInv
         /\ ConsolePinInv /\ [Next]_vars => ConsolePinInv'
<1>1. Init => ConsolePinInv
  BY InitType, LifeInit, ConsoleInit, EarlyInit, PinInit DEF ConsolePinInv
<1>2. ASSUME ConsolePinInv, [Next]_vars
      PROVE  ConsolePinInv'
  <2>1. TypeOK'
    BY <1>2, NextType DEF ConsolePinInv
  <2> QED
    BY <1>2, <2>1, LifeNext, ConsoleNext, EarlyNext, PinNext DEF ConsolePinInv
<1> QED
  BY <1>1, <1>2

(* Console mode with handlers for consent and devices, one request at a time: a PIN prompt
   the user sees has a reader, until the client tears its subscriptions down. *)
THEOREM PinPromptHolds ==
  ASSUME ~Overlap, ~DefaultModal, AnswersConsent
  PROVE  Spec => []PinPromptHeard
<1>1. ASSUME ConsolePinInv
      PROVE  PinPromptHeard
  <2> SUFFICES ASSUME subs # {}, NEW h \in PinHandlers, prompts[h] > 0
               PROVE  Live("pin") \cup Live("newPin") # {}
    BY DEF PinPromptHeard
  <2>1. Prompted > 0
    BY <1>1, PromptedType DEF ConsolePinInv
  <2>2. PICK r \in Requests : pc[r] \in PinWaits
    BY <1>1, <2>1 DEF ConsolePinInv, PinInv
  <2>3. <<r, pc[r]>> \in subs
    BY <1>1, <2>2 DEF ConsolePinInv, PinInv, PinAt
  <2> QED
    BY <2>2, <2>3 DEF PinWaits, Live
<1> QED
  BY <1>1, ConsolePinInvariant, PTL DEF Spec

LEMMA BlockedStep ==
  ASSUME ~DefaultModal, ConsolePinInv, [Next]_vars, NEW r \in blocked
  PROVE  tokenCalls'[r] <= tokenCalls[r]
<1>1. TypeOK /\ r \in Requests /\ tokenCalls[r] \in Nat /\ tokenCalls \in [Requests -> Nat]
  BY DEF ConsolePinInv, TypeOK
<1>2. ~PinAvailable
  <2>1. tokenCalls[r] + retryCalls[r] + Prompted = 0 /\ retryCalls[r] \in Nat
    BY <1>1 DEF ConsolePinInv, PinInv, PinAt, TypeOK
  <2>2. Prompted = 0
    BY <1>1, <2>1, PromptedType
  <2>3. \A h \in PinHandlers : ~(prompts[h] > 0)
    BY <1>1, <2>2, PromptedType
  <2> QED
    BY <2>3 DEF PinAvailable, Answer
<1>3. CASE UNCHANGED tokenCalls
  BY <1>1, <1>3
<1>4. ASSUME NEW q \in Requests, tokenCalls[q] > 0, tokenCalls' = [tokenCalls EXCEPT ![q] = @ - 1]
      PROVE  tokenCalls'[r] <= tokenCalls[r]
  BY <1>1, <1>4
<1>5. CASE CallerStep \/ Release \/ UserStep \/ UnawaitedReturns \/ UNCHANGED vars
  <2>1. UNCHANGED tokenCalls
    BY <1>2, <1>5 DEF CallerStep, Call, CallRefused, Release, UserStep, Accept, Deny,
                      HandlerGivesNothing, CancelEvent, ErrorEvent, SelectDevice,
                      UnawaitedReturns, vars, pinVars
  <2> QED
    BY <1>3, <2>1
<1>6. CASE \E q \in Requests : DeviceAttached(q) \/ TimerFires(q) \/ MicrotaskStep(q)
  <2>1. UNCHANGED tokenCalls
    BY <1>6 DEF DeviceAttached, TimerFires, MicrotaskStep, Decide, MakeExtensionsInput,
                SendCredentialCommand, CredentialParsed, CommandFails, pinVars
  <2> QED
    BY <1>3, <2>1
<1>7. ASSUME NEW q \in Requests, DeviceStep(q)
      PROVE  tokenCalls'[r] <= tokenCalls[r]
  <2>1. \/ UNCHANGED tokenCalls
        \/ tokenCalls[q] > 0 /\ tokenCalls' = [tokenCalls EXCEPT ![q] = @ - 1]
    BY <1>7 DEF DeviceStep, InfoAnswered, HandlerThrows, RetriesRead, SetPinReturns, TokenGranted,
                PinInvalid, PinBlocked, TokenFails, PinInvalidReported, ExtensionsBuilt,
                CredentialReturns, ExtensionsOutput, pinVars
  <2> QED
    BY <1>3, <1>4, <1>7, <2>1
<1> QED
  BY <1>5, <1>6, <1>7 DEF Next

-----------------------------------------------------------------------------
(* Without a handler for consent or for devices nobody gets to a PIN *)

Unserved == {"new", "asked", "select", "end", "dead"}

UnservedInv ==
  /\ \A h \in PromptNames \ Handlers : prompts[h] = 0
  /\ blocked = {}
  /\ \A r \in Requests : /\ pc[r] \in Unserved /\ tokenCalls[r] = 0 /\ retryCalls[r] = 0
                         /\ <<r, "pin">> \notin subs
                         /\ "onRequest" \notin Handlers => pc[r] # "select"

LEMMA LeastOfFive ==
  ASSUME NEW S, S \subseteq 1..5, S # {}
  PROVE  \E k \in S : \A i \in S : k <= i
<1>1. \A i \in S : i \in {1, 2, 3, 4, 5}
  OBVIOUS
<1>2. ASSUME NEW k \in {1, 2, 3, 4, 5}, k \in S, \A i \in {1, 2, 3, 4, 5} : i < k => i \notin S
      PROVE  \E j \in S : \A i \in S : j <= i
  <2>1. ASSUME NEW i \in S
        PROVE  k <= i
    <3>1. i \in {1, 2, 3, 4, 5} /\ ~(i < k)
      BY <1>1, <1>2, <2>1
    <3> QED
      BY <1>2, <3>1
  <2> QED
    BY <1>2, <2>1
<1>3. \E k \in {1, 2, 3, 4, 5} : k \in S /\ \A i \in {1, 2, 3, 4, 5} : i < k => i \notin S
  <2>1. 1 \in S \/ 2 \in S \/ 3 \in S \/ 4 \in S \/ 5 \in S
    BY <1>1
  <2> QED
    BY <2>1
<1> QED
  BY <1>2, <1>3

(* Only a handler that is given is called. *)
LEMMA AskGiven ==
  ASSUME TypeOK, NEW handler, Ask(handler)
  PROVE  \A h \in PromptNames \ Handlers : prompts'[h] = prompts[h]
<1> DEFINE reached == {i \in DOMAIN Prompts : /\ Prompts[i] \in Handlers
                                              /\ \E j \in 1..i : Prompts[j] = handler}
<1>1. CASE prompts' = prompts
  BY <1>1
<1>2. CASE reached # {} /\ prompts' = [prompts EXCEPT ![Prompts[Min(reached)]] =
                                         IF @ < MaxPrompts THEN @ + 1 ELSE @]
  <2>1. reached \subseteq 1..5
    BY DEF Prompts
  <2>2. \E k \in reached : \A i \in reached : k <= i
    BY <1>2, <2>1, LeastOfFive
  <2>3. Min(reached) \in reached
    BY <2>2 DEF Min
  <2>4. Prompts[Min(reached)] \in Handlers
    BY <2>3
  <2> QED
    BY <1>2, <2>4 DEF TypeOK
<1> QED
  BY <1>1, <1>2, Zenon DEF Ask

LEMMA AnswerGiven ==
  ASSUME TypeOK, ~DefaultModal, UnservedInv, NEW handlers \in SUBSET PromptNames, Answer(handlers)
  PROVE  /\ handlers \cap Handlers # {}
         /\ \A h \in PromptNames \ Handlers : prompts'[h] = 0
<1>1. PICK h \in handlers : prompts[h] > 0 /\ prompts' = [prompts EXCEPT ![h] = @ - 1]
  BY DEF Answer
<1>2. h \in Handlers
  BY <1>1 DEF UnservedInv
<1> QED
  BY <1>1, <1>2 DEF UnservedInv, TypeOK

LEMMA UnservedNext ==
  ASSUME ~DefaultModal, ~AnswersConsent, TypeOK, LifeInv, UnservedInv, [Next]_vars
  PROVE  UnservedInv'
<1> USE DEF Unserved
<1>1. ASSUME NEW r \in Requests, NEW uv \in Verifications, Call(r, uv)
      PROVE  UnservedInv'
  <2>1. \A h \in PromptNames \ Handlers : prompts'[h] = prompts[h]
    BY <1>1, AskGiven DEF Call
  <2>2. /\ UNCHANGED <<blocked, tokenCalls, retryCalls>>
        /\ \A q \in Requests : pc'[q] \in {pc[q], "asked"}
        /\ \A q \in Requests : <<q, "pin">> \in subs' => <<q, "pin">> \in subs
    BY <1>1 DEF Call, pinVars, TypeOK
  <2> QED
    BY <2>1, <2>2 DEF UnservedInv
<1>2. ASSUME NEW r \in Requests, CallRefused(r)
      PROVE  UnservedInv'
  <2>1. UNCHANGED <<prompts, blocked, tokenCalls, retryCalls, subs>>
    BY <1>2 DEF CallRefused, pinVars, subVars
  <2>2. \A q \in Requests : pc'[q] \in {pc[q], "end", "dead"}
    BY <1>2 DEF CallRefused, TypeOK
  <2> QED
    BY <2>1, <2>2 DEF UnservedInv
<1>3. CASE Accept
  <2>1. "onRequest" \in Handlers /\ \A h \in PromptNames \ Handlers : prompts'[h] = 0
    <3>1. {"onRequest"} \in SUBSET PromptNames
      BY DEF PromptNames, Prompts
    <3> QED
      BY <1>3, <3>1, AnswerGiven DEF Accept
  <2>2. /\ UNCHANGED <<blocked, tokenCalls, retryCalls>>
        /\ \A q \in Requests : pc'[q] \in {pc[q], "select"}
        /\ \A q \in Requests : <<q, "pin">> \in subs' => <<q, "pin">> \in subs
    BY <1>3 DEF Accept, pinVars
  <2> QED
    BY <2>1, <2>2 DEF UnservedInv
<1>4. CASE Deny
  <2>1. \A h \in PromptNames \ Handlers : prompts'[h] = 0
    <3>1. {"onRequest"} \in SUBSET PromptNames
      BY DEF PromptNames, Prompts
    <3> QED
      BY <1>4, <3>1, AnswerGiven DEF Deny
  <2>2. UNCHANGED <<blocked, tokenCalls, retryCalls>> /\ subs' \subseteq subs
    BY <1>4 DEF Deny, RaiseError, pinVars
  <2>3. \A q \in Requests : pc'[q] \in {pc[q], "end"}
    BY <1>4 DEF Deny
  <2> QED
    BY <2>1, <2>2, <2>3 DEF UnservedInv
<1>5. CASE PinAvailable
  <2>1. Live("pin") = {} /\ Live("newPin") = {}
    BY DEF UnservedInv, Live, LifeInv, LifeAt
  <2>2. \A h \in PromptNames \ Handlers : prompts'[h] = 0
    <3>1. PinHandlers \in SUBSET PromptNames
      BY DEF PinHandlers, PromptNames, Prompts
    <3> QED
      BY <1>5, <3>1, AnswerGiven DEF PinAvailable
  <2>3. UNCHANGED <<blocked, retryCalls>> /\ subs' \subseteq subs
    BY <1>5 DEF PinAvailable
  <2>4. \A q \in Requests : pc'[q] = pc[q] /\ tokenCalls'[q] = tokenCalls[q]
    BY <1>5, <2>1 DEF PinAvailable
  <2> QED
    BY <2>2, <2>3, <2>4 DEF UnservedInv
<1>6. CASE HandlerGivesNothing
  <2>1. \A h \in PromptNames \ Handlers : prompts'[h] = 0
    BY <1>6, AnswerGiven DEF HandlerGivesNothing
  <2>2. UNCHANGED <<pc, subs, blocked, tokenCalls, retryCalls>>
    BY <1>6 DEF HandlerGivesNothing, reqVars, subVars, pinVars
  <2> QED
    BY <2>1, <2>2 DEF UnservedInv
<1>7. ASSUME NEW opened \in SUBSET Requests, SelectDevice(opened)
      PROVE  UnservedInv'
  <2>1. "onDeviceAttached" \in Handlers /\ \A h \in PromptNames \ Handlers : prompts'[h] = 0
    <3>1. {"onDeviceAttached"} \in SUBSET PromptNames
      BY DEF PromptNames, Prompts
    <3> QED
      BY <1>7, <3>1, AnswerGiven DEF SelectDevice
  <2>2. Live("device") = {}
    BY <2>1 DEF AnswersConsent, UnservedInv, Live, LifeInv, LifeAt
  <2>3. /\ UNCHANGED <<blocked, tokenCalls, retryCalls>> /\ subs' \subseteq subs
        /\ \A q \in Requests : pc'[q] = pc[q]
    BY <1>7, <2>2 DEF SelectDevice, pinVars
  <2> QED
    BY <2>1, <2>3 DEF UnservedInv
<1>8. ASSUME NEW r \in Requests, DeviceStep(r) \/ MicrotaskStep(r)
      PROVE  FALSE
  <2>1. pc[r] \in Unserved /\ tokenCalls[r] = 0 /\ retryCalls[r] = 0
    BY DEF UnservedInv
  <2>2. /\ \A o : ~InfoAnswered(r, o)
        /\ ~HandlerThrows(r) /\ ~RetriesRead(r) /\ ~SetPinReturns(r)
        /\ ~ExtensionsBuilt(r) /\ ~CredentialReturns(r) /\ ~ExtensionsOutput(r)
    <3>1. pc[r] \notin {"info", "retries", "setPin", "exts", "credential", "output"}
      BY <2>1
    <3> QED
      BY <3>1, Zenon DEF InfoAnswered, HandlerThrows, RetriesRead, SetPinReturns, ExtensionsBuilt,
                         CredentialReturns, ExtensionsOutput
  <2>3. /\ ~TokenGranted(r) /\ ~PinInvalid(r) /\ ~PinBlocked(r) /\ ~TokenFails(r)
        /\ ~PinInvalidReported(r)
    <3>1. ~(tokenCalls[r] > 0) /\ ~(retryCalls[r] > 0)
      BY <2>1
    <3> QED
      BY <3>1, Zenon DEF TokenGranted, PinInvalid, PinBlocked, TokenFails, PinInvalidReported
  <2>4. ~DeviceStep(r)
    BY <2>2, <2>3, Zenon DEF DeviceStep
  <2> QED
    BY <1>8, <2>1, <2>4 DEF MicrotaskStep, Decide, MakeExtensionsInput, SendCredentialCommand,
                            CredentialParsed, CommandFails
<1>9. ASSUME NEW r \in Requests, DeviceAttached(r)
      PROVE  UnservedInv'
  <2>1. \A h \in PromptNames \ Handlers : prompts'[h] = prompts[h]
    BY <1>9, AskGiven DEF DeviceAttached
  <2>2. UNCHANGED <<pc, subs, blocked, tokenCalls, retryCalls>>
    BY <1>9 DEF DeviceAttached, reqVars, subVars, pinVars
  <2> QED
    BY <2>1, <2>2 DEF UnservedInv
<1>10. CASE UnawaitedReturns \/ UNCHANGED vars \/ Release \/ \E r \in Requests : TimerFires(r)
  <2>1. UNCHANGED <<pc, prompts, blocked, tokenCalls, retryCalls>> /\ subs' \subseteq subs
    BY <1>10 DEF UnawaitedReturns, TimerFires, Release, vars, reqVars, subVars, pinVars
  <2> QED
    BY <2>1 DEF UnservedInv
<1> QED
  BY <1>1, <1>2, <1>3, <1>4, <1>5, <1>6, <1>7, <1>8, <1>9, <1>10
     DEF Next, CallerStep, UserStep, CancelEvent, ErrorEvent

LEMMA UnservedInit ==
  ASSUME Init
  PROVE  UnservedInv
  BY DEF Init, UnservedInv, Unserved

(* Console mode, one request at a time, whatever handlers are given: a request that was told
   its PIN is blocked makes no further getPinToken call, however many prompts the user
   answers late. *)
THEOREM BlockedStopsHolds ==
  ASSUME ~Overlap, ~DefaultModal
  PROVE  Spec => BlockedStopsGuessing
<1> DEFINE Stops == \A r \in blocked : tokenCalls'[r] <= tokenCalls[r]
<1>1. CASE AnswersConsent
  <2>1. ConsolePinInv /\ [Next]_vars => [Stops]_vars
    BY <1>1, BlockedStep
  <2> QED
    BY <1>1, <2>1, ConsolePinInvariant, PTL DEF Spec, BlockedStopsGuessing
<1>2. CASE ~AnswersConsent
  <2> DEFINE Inv == TypeOK /\ LifeInv /\ UnservedInv
  <2>1. Init => Inv
    BY InitType, LifeInit, UnservedInit
  <2>2. Inv /\ [Next]_vars => Inv'
    BY <1>2, NextType, LifeNext, UnservedNext
  <2>3. Inv => blocked = {}
    BY DEF UnservedInv
  <2>4. blocked = {} => Stops
    OBVIOUS
  <2> HIDE DEF Inv
  <2>5. Inv /\ [Next]_vars => [Stops]_vars
    BY <2>3, <2>4
  <2> QED
    BY <2>1, <2>2, <2>5, PTL DEF Spec, BlockedStopsGuessing
<1> QED
  BY <1>1, <1>2
=============================================================================
