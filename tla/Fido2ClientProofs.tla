-------------------------- MODULE Fido2ClientProofs --------------------------
(***************************************************************************)
(* Theorems about Fido2Client for every value of its constants.            *)
(***************************************************************************)
EXTENDS Fido2Client, TLAPS

(* The constants the actions mention, opened where a leaf needs them. *)
CallTargets == {"idle", "current", "former", "closed"}

-----------------------------------------------------------------------------
(* Types: what each helper of the actions leaves behind *)

LEMMA EndCallType ==
  ASSUME TypeOK, NEW r \in Requests, NEW answered \in BOOLEAN, EndCall(r, answered)
  PROVE  /\ callOn' \in [Requests -> CallTargets]
         /\ ongoing' \in BOOLEAN
  BY DEF TypeOK, EndCall, CallTargets

LEMMA StartCallsType ==
  ASSUME TypeOK, NEW S, StartCalls(S)
  PROVE  /\ callOn' \in [Requests -> CallTargets]
         /\ ongoing' \in BOOLEAN
  BY DEF TypeOK, StartCalls, CallTargets

LEMMA RevokeType ==
  ASSUME TypeOK, Revoke
  PROVE  /\ armed' \subseteq Requests
         /\ available' \in BOOLEAN /\ ongoing' \in BOOLEAN /\ unawaited' \in BOOLEAN
         /\ callOn' \in [Requests -> CallTargets]
  BY DEF TypeOK, Revoke, CallTargets

LEMMA SettleType ==
  ASSUME TypeOK, NEW r, NEW how \in Outcomes
  PROVE  Settle(r, how) \in [Requests -> Outcomes]
  BY DEF TypeOK, Settle

LEMMA RaiseErrorType ==
  ASSUME TypeOK, NEW how \in Rejections, NEW rest \in SUBSET (Requests \X Subjects),
         RaiseError(how, rest)
  PROVE  /\ subs' \subseteq Requests \X Subjects
         /\ outcome' \in [Requests -> Outcomes]
         /\ armed' \subseteq Requests
         /\ available' \in BOOLEAN /\ ongoing' \in BOOLEAN /\ unawaited' \in BOOLEAN
         /\ callOn' \in [Requests -> CallTargets]
<1> DEFINE listeners == {r \in Requests : <<r, "error">> \in rest}
<1> how \in Outcomes
  BY DEF Outcomes
<1>1. CASE listeners = {}
  BY <1>1 DEF RaiseError, TypeOK, cliVars, CallTargets
<1>2. CASE listeners # {}
  <2>1. subs' = {} /\ outcome' = Settle(Min(listeners), how) /\ Revoke
    BY <1>2 DEF RaiseError
  <2> QED
    BY <2>1, RevokeType, SettleType
<1> QED
  BY <1>1, <1>2

LEMMA AskType ==
  ASSUME TypeOK, NEW handler, Ask(handler)
  PROVE  prompts' \in [PromptNames -> Nat]
<1>1. PICK h : \/ prompts' = prompts
               \/ prompts' = [prompts EXCEPT ![h] = IF @ < MaxPrompts THEN @ + 1 ELSE @]
  BY DEF Ask
<1> QED
  BY <1>1 DEF TypeOK

LEMMA AnswerType ==
  ASSUME TypeOK, NEW handlers \in SUBSET PromptNames, Answer(handlers)
  PROVE  prompts' \in [PromptNames -> Nat]
  BY DEF TypeOK, Answer

LEMMA CallDeviceType ==
  ASSUME TypeOK, NEW r \in Requests, NEW next \in PCs, NEW otherwise \in PCs,
         CallDevice(r, next, otherwise)
  PROVE  /\ pc' \in [Requests -> PCs]
         /\ callOn' \in [Requests -> CallTargets]
         /\ ongoing' \in BOOLEAN
<1>1. CASE available
  BY <1>1, StartCallsType DEF CallDevice, TypeOK
<1>2. CASE ~available
  BY <1>2 DEF CallDevice, TypeOK, CallTargets
<1> QED
  BY <1>1, <1>2

LEMMA FinishType ==
  ASSUME TypeOK, NEW r \in Requests, Finish(r)
  PROVE  /\ subs' = {} /\ outcome' \in [Requests -> Outcomes] /\ pc' \in [Requests -> PCs]
         /\ armed' \subseteq Requests
         /\ available' \in BOOLEAN /\ ongoing' \in BOOLEAN /\ unawaited' \in BOOLEAN
         /\ callOn' \in [Requests -> CallTargets]
<1>1. "resolved" \in Outcomes /\ "end" \in PCs
  BY DEF Outcomes, PCs
<1> QED
  BY <1>1, RevokeType, SettleType DEF Finish, TypeOK

-----------------------------------------------------------------------------
(* Type correctness *)

LEMMA InitType ==
  ASSUME Init
  PROVE  TypeOK
<1>1. tries \in 0..MaxTries
  BY ConstantsAssumption DEF ConstantsAssumption, Init
<1>2. /\ pc \in [Requests -> PCs] /\ outcome \in [Requests -> Outcomes]
      /\ wants \in [Requests -> Verifications] /\ plan \in [Requests -> Plans]
      /\ method \in [Requests -> Methods]
  BY DEF Init, PCs, Outcomes, Verifications, Plans, Methods
<1>3. /\ tokenCalls \in [Requests -> Nat] /\ retryCalls \in [Requests -> Nat]
      /\ prompts \in [PromptNames -> Nat]
      /\ callOn \in [Requests -> {"idle", "current", "former", "closed"}]
  BY DEF Init
<1> QED
  BY <1>1, <1>2, <1>3 DEF Init, TypeOK

LEMMA CallerType ==
  ASSUME TypeOK, CallerStep
  PROVE  TypeOK'
<1>1. ASSUME NEW r \in Requests, NEW uv \in Verifications, Call(r, uv)
      PROVE  TypeOK'
  <2>1. subs' \subseteq Requests \X Subjects
    BY <1>1 DEF Call, TypeOK, Subjects
  <2>2. prompts' \in [PromptNames -> Nat]
    BY <1>1, AskType DEF Call
  <2> QED
    BY <1>1, <2>1, <2>2 DEF Call, TypeOK, PCs, Outcomes, cliVars, pinVars
<1>2. ASSUME NEW r \in Requests, CallRefused(r)
      PROVE  TypeOK'
  <2>1. pc' \in [Requests -> PCs] /\ outcome' \in [Requests -> Outcomes]
    BY <1>2 DEF CallRefused, TypeOK, PCs, Outcomes, Rejections
  <2> QED
    BY <1>2, <2>1 DEF CallRefused, TypeOK, subVars, timerVars, cliVars, pinVars
<1> QED
  BY <1>1, <1>2 DEF CallerStep

LEMMA UserType ==
  ASSUME TypeOK, UserStep
  PROVE  TypeOK'
<1> "onRequest" \in PromptNames /\ PinHandlers \subseteq PromptNames /\ "onDeviceAttached" \in PromptNames
  BY DEF PromptNames, Prompts, PinHandlers
<1>1. CASE Accept
  <2>1. prompts' \in [PromptNames -> Nat]
    BY <1>1, AnswerType DEF Accept
  <2>2. Live("request") \subseteq Requests
    BY DEF Live
  <2>3. subs' \subseteq Requests \X Subjects
    BY <1>1, <2>2 DEF Accept, TypeOK, Subjects
  <2> QED
    BY <1>1, <2>1, <2>2, <2>3 DEF Accept, TypeOK, PCs, timerVars, cliVars, pinVars
<1>2. CASE Deny
  <2> DEFINE listeners == Live("request")
  <2>1. prompts' \in [PromptNames -> Nat]
    BY <1>2, AnswerType DEF Deny
  <2>2. pc' \in [Requests -> PCs]
    BY <1>2 DEF Deny, TypeOK, PCs
  <2>3. CASE listeners = {}
    BY <1>2, <2>1, <2>2, <2>3 DEF Deny, TypeOK, cliVars, pinVars
  <2>4. CASE listeners # {}
    <3>1. RaiseError("notAllowed", subs \ {<<Min(listeners), "request">>})
      BY <1>2, <2>4 DEF Deny
    <3>2. /\ "notAllowed" \in Rejections
          /\ subs \ {<<Min(listeners), "request">>} \in SUBSET (Requests \X Subjects)
      BY DEF TypeOK, Rejections
    <3>3. /\ subs' \subseteq Requests \X Subjects
          /\ outcome' \in [Requests -> Outcomes]
          /\ armed' \subseteq Requests
          /\ available' \in BOOLEAN /\ ongoing' \in BOOLEAN /\ unawaited' \in BOOLEAN
          /\ callOn' \in [Requests -> CallTargets]
      BY <3>1, <3>2, RaiseErrorType
    <3> QED
      BY <1>2, <2>1, <2>2, <3>3 DEF Deny, TypeOK, pinVars, CallTargets
  <2> QED
    BY <2>3, <2>4
<1>3. CASE PinAvailable
  <2>1. prompts' \in [PromptNames -> Nat]
    BY <1>3, AnswerType DEF PinAvailable
  <2>2. Live("pin") \subseteq Requests /\ Live("newPin") \subseteq Requests
    BY DEF Live
  <2>3. CASE available
    <3>1. callOn' \in [Requests -> CallTargets] /\ ongoing' \in BOOLEAN
      BY <1>3, <2>3, StartCallsType DEF PinAvailable
    <3>2. pc' \in [Requests -> PCs] /\ tokenCalls' \in [Requests -> Nat]
      BY <1>3, <2>3 DEF PinAvailable, TypeOK, PCs, InFlight
    <3>3. subs' \subseteq Requests \X Subjects /\ UNCHANGED <<plan, lost>>
      BY <1>3, <2>3 DEF PinAvailable, TypeOK
    <3> QED
      BY <1>3, <2>1, <3>1, <3>2, <3>3 DEF PinAvailable, TypeOK, timerVars, CallTargets
  <2>4. CASE ~available
    <3>1. pc' \in [Requests -> PCs] /\ plan' \in [Requests -> Plans]
      BY <1>3, <2>4 DEF PinAvailable, TypeOK, PCs, Microtask, Plans
    <3>2. subs' \subseteq Requests \X Subjects /\ lost' \subseteq Requests
      BY <1>3, <2>2, <2>4 DEF PinAvailable, TypeOK
    <3>3. UNCHANGED <<callOn, ongoing, tokenCalls>>
      BY <1>3, <2>4 DEF PinAvailable
    <3> QED
      BY <1>3, <2>1, <3>1, <3>2, <3>3 DEF PinAvailable, TypeOK, timerVars
  <2> QED
    BY <2>3, <2>4
<1>4. CASE HandlerGivesNothing
  <2>1. prompts' \in [PromptNames -> Nat]
    BY <1>4, AnswerType DEF HandlerGivesNothing
  <2> QED
    BY <1>4, <2>1 DEF HandlerGivesNothing, TypeOK, reqVars, subVars, timerVars, cliVars, pinVars
<1>5. CASE CancelEvent
  <2> DEFINE rest == subs \ (Requests \X {"cancel"})
  <2>1. rest \in SUBSET (Requests \X Subjects) /\ "cancel" \in Rejections /\ "unknown" \in Rejections
    BY DEF TypeOK, Rejections
  <2>2. \/ subs' = rest /\ UNCHANGED <<outcome, armed, cliVars>>
        \/ \E how \in Rejections : RaiseError(how, rest)
    BY <1>5, <2>1 DEF CancelEvent
  <2>3. /\ subs' \subseteq Requests \X Subjects
        /\ outcome' \in [Requests -> Outcomes]
        /\ armed' \subseteq Requests
        /\ available' \in BOOLEAN /\ ongoing' \in BOOLEAN /\ unawaited' \in BOOLEAN
        /\ callOn' \in [Requests -> CallTargets]
    <3>1. CASE subs' = rest /\ UNCHANGED <<outcome, armed, cliVars>>
      BY <3>1, <2>1 DEF TypeOK, cliVars, CallTargets
    <3>2. CASE \E how \in Rejections : RaiseError(how, rest)
      BY <3>2, <2>1, RaiseErrorType
    <3> QED
      BY <2>2, <3>1, <3>2
  <2> QED
    BY <1>5, <2>3 DEF CancelEvent, TypeOK, pinVars, CallTargets
<1>6. CASE ErrorEvent
  <2>1. "error" \in Rejections /\ subs \in SUBSET (Requests \X Subjects)
    BY DEF Rejections, TypeOK
  <2>2. /\ subs' \subseteq Requests \X Subjects
        /\ outcome' \in [Requests -> Outcomes]
        /\ armed' \subseteq Requests
        /\ available' \in BOOLEAN /\ ongoing' \in BOOLEAN /\ unawaited' \in BOOLEAN
        /\ callOn' \in [Requests -> CallTargets]
    BY <1>6, <2>1, RaiseErrorType DEF ErrorEvent
  <2> QED
    BY <1>6, <2>2 DEF ErrorEvent, TypeOK, pinVars, CallTargets
<1>7. ASSUME NEW opened \in SUBSET Requests, SelectDevice(opened)
      PROVE  TypeOK'
  <2>1. prompts' \in [PromptNames -> Nat]
    BY <1>7, AnswerType DEF SelectDevice
  <2>2. Live("device") \subseteq Requests
    BY DEF Live
  <2>3. pc' \in [Requests -> PCs]
    BY <1>7 DEF SelectDevice, TypeOK, PCs, InFlight
  <2>4. callOn' \in [Requests -> CallTargets] /\ ongoing' \in BOOLEAN
    BY <1>7 DEF SelectDevice, TypeOK, CallTargets
  <2>5. /\ subs' \subseteq Requests \X Subjects /\ lost' \subseteq Requests
        /\ available' \in BOOLEAN /\ unawaited' \in BOOLEAN
    BY <1>7, <2>2 DEF SelectDevice, TypeOK
  <2> QED
    BY <1>7, <2>1, <2>3, <2>4, <2>5 DEF SelectDevice, TypeOK, timerVars, pinVars, CallTargets
<1> QED
  BY <1>1, <1>2, <1>3, <1>4, <1>5, <1>6, <1>7 DEF UserStep

LEMMA DeviceType ==
  ASSUME TypeOK, NEW r \in Requests, DeviceStep(r)
  PROVE  TypeOK'
<1>1. ASSUME NEW o \in Authenticators, InfoAnswered(r, o)
      PROVE  TypeOK'
  <2>1. callOn' \in [Requests -> CallTargets] /\ ongoing' \in BOOLEAN
    BY <1>1, EndCallType, StartCallsType DEF InfoAnswered
  <2>2. Plan(o, wants[r]) \in Plans
    <3>1. o \in AuthenticatorOptions
      BY ConstantsAssumption DEF ConstantsAssumption
    <3> QED
      BY <3>1 DEF Plan, Plans, AuthenticatorOptions
  <2>3. pc' \in [Requests -> PCs]
    <3>1. {"dead", "retries", "decide"} \subseteq PCs
      BY DEF PCs, Microtask, InFlight
    <3> QED
      BY <1>1, <3>1 DEF InfoAnswered, TypeOK
  <2> QED
    BY <1>1, <2>1, <2>2, <2>3 DEF InfoAnswered, TypeOK, subVars, timerVars, pinVars, CallTargets
<1>2. CASE HandlerThrows(r)
  <2>1. callOn' \in [Requests -> CallTargets] /\ ongoing' \in BOOLEAN
    BY <1>2, EndCallType DEF HandlerThrows
  <2>2. pc' \in [Requests -> PCs]
    BY <1>2 DEF HandlerThrows, TypeOK, PCs
  <2> QED
    BY <1>2, <2>1, <2>2 DEF HandlerThrows, TypeOK, subVars, timerVars, pinVars, CallTargets
<1>3. CASE RetriesRead(r)
  <2>1. callOn' \in [Requests -> CallTargets] /\ ongoing' \in BOOLEAN
    BY <1>3, EndCallType DEF RetriesRead
  <2>2. pc' \in [Requests -> PCs] /\ lost' \subseteq Requests
    BY <1>3 DEF RetriesRead, TypeOK, PCs, Microtask
  <2> QED
    BY <1>3, <2>1, <2>2 DEF RetriesRead, TypeOK, subVars, timerVars, pinVars, CallTargets
<1>4. CASE SetPinReturns(r)
  <2>1. callOn' \in [Requests -> CallTargets] /\ ongoing' \in BOOLEAN /\ unawaited' \in BOOLEAN
    <3>1. CASE callOn' = [callOn EXCEPT ![r] = "idle"] /\ ongoing' = TRUE /\ unawaited' = TRUE
      BY <3>1 DEF TypeOK, CallTargets
    <3>2. CASE UNCHANGED unawaited /\ \E answered \in BOOLEAN : EndCall(r, answered)
      BY <3>2, EndCallType DEF TypeOK
    <3> QED
      BY <1>4, <3>1, <3>2 DEF SetPinReturns
  <2>2. pc' \in [Requests -> PCs] /\ plan' \in [Requests -> Plans] /\ lost' \subseteq Requests
    BY <1>4 DEF SetPinReturns, TypeOK, PCs, Microtask, Plans
  <2> QED
    BY <1>4, <2>1, <2>2 DEF SetPinReturns, TypeOK, subVars, timerVars, pinVars, CallTargets
<1>5. CASE TokenGranted(r)
  <2>1. callOn' \in [Requests -> CallTargets] /\ ongoing' \in BOOLEAN
    BY <1>5, EndCallType DEF TokenGranted
  <2>2. pc' \in [Requests -> PCs] /\ method' \in [Requests -> Methods]
    BY <1>5 DEF TokenGranted, TypeOK, PCs, Microtask, Methods
  <2>3. tokenCalls' \in [Requests -> Nat] /\ tries' \in 0..MaxTries
    BY <1>5, ConstantsAssumption DEF ConstantsAssumption, TokenGranted, TypeOK
  <2> QED
    BY <1>5, <2>1, <2>2, <2>3 DEF TokenGranted, TypeOK, subVars, timerVars, CallTargets
<1>6. CASE PinInvalid(r)
  <2>1. callOn' \in [Requests -> CallTargets] /\ ongoing' \in BOOLEAN
    BY <1>6, EndCallType, StartCallsType DEF PinInvalid
  <2>2. tokenCalls' \in [Requests -> Nat] /\ tries' \in 0..MaxTries
    BY <1>6, ConstantsAssumption DEF ConstantsAssumption, PinInvalid, TypeOK
  <2>3. retryCalls' \in [Requests -> Nat]
    <3>1. retryCalls' \in {retryCalls, [retryCalls EXCEPT ![r] = @ + 1]}
      BY <1>6, Zenon DEF PinInvalid
    <3> QED
      BY <3>1 DEF TypeOK
  <2> QED
    BY <1>6, <2>1, <2>2, <2>3 DEF PinInvalid, TypeOK, reqVars, subVars, timerVars, CallTargets
<1>7. CASE PinBlocked(r)
  <2>1. callOn' \in [Requests -> CallTargets] /\ ongoing' \in BOOLEAN
    BY <1>7, EndCallType DEF PinBlocked
  <2>2. tokenCalls' \in [Requests -> Nat] /\ tries' \in 0..MaxTries /\ blocked' \subseteq Requests
    BY <1>7, ConstantsAssumption DEF ConstantsAssumption, PinBlocked, TypeOK
  <2> QED
    BY <1>7, <2>1, <2>2 DEF PinBlocked, TypeOK, reqVars, subVars, timerVars, CallTargets
<1>8. CASE TokenFails(r)
  <2>1. callOn' \in [Requests -> CallTargets] /\ ongoing' \in BOOLEAN
    BY <1>8, EndCallType DEF TokenFails
  <2>2. tokenCalls' \in [Requests -> Nat] /\ lost' \subseteq Requests
    BY <1>8 DEF TokenFails, TypeOK
  <2> QED
    BY <1>8, <2>1, <2>2 DEF TokenFails, TypeOK, subVars, timerVars, CallTargets
<1>9. CASE PinInvalidReported(r)
  <2>1. callOn' \in [Requests -> CallTargets] /\ ongoing' \in BOOLEAN
    BY <1>9, EndCallType DEF PinInvalidReported
  <2>2. prompts' \in [PromptNames -> Nat]
    <3>1. CASE Ask("onPinInvalid")
      BY <3>1, AskType
    <3>2. CASE UNCHANGED prompts
      BY <3>2 DEF TypeOK
    <3> QED
      BY <1>9, <3>1, <3>2 DEF PinInvalidReported
  <2>3. retryCalls' \in [Requests -> Nat]
    BY <1>9 DEF PinInvalidReported, TypeOK
  <2> QED
    BY <1>9, <2>1, <2>2, <2>3 DEF PinInvalidReported, TypeOK, reqVars, subVars, timerVars, CallTargets
<1>10. CASE ExtensionsBuilt(r)
  <2>1. callOn' \in [Requests -> CallTargets] /\ ongoing' \in BOOLEAN
    BY <1>10, EndCallType DEF ExtensionsBuilt
  <2>2. pc' \in [Requests -> PCs]
    BY <1>10 DEF ExtensionsBuilt, TypeOK, PCs, Microtask
  <2> QED
    BY <1>10, <2>1, <2>2 DEF ExtensionsBuilt, TypeOK, subVars, timerVars, pinVars, CallTargets
<1>11. CASE CredentialReturns(r)
  <2>1. callOn' \in [Requests -> CallTargets] /\ ongoing' \in BOOLEAN
    BY <1>11, EndCallType DEF CredentialReturns
  <2>2. pc' \in [Requests -> PCs]
    BY <1>11 DEF CredentialReturns, TypeOK, PCs, Microtask
  <2> QED
    BY <1>11, <2>1, <2>2 DEF CredentialReturns, TypeOK, subVars, timerVars, pinVars, CallTargets
<1>12. CASE ExtensionsOutput(r)
  <2>1. CASE Finish(r)
    BY <1>12, <2>1, FinishType DEF ExtensionsOutput, TypeOK, pinVars, CallTargets
  <2>2. CASE /\ pc' = [pc EXCEPT ![r] = "failed"]
             /\ \E answered \in BOOLEAN : EndCall(r, answered)
             /\ UNCHANGED <<outcome, subs, armed, available, unawaited>>
    <3>1. callOn' \in [Requests -> CallTargets] /\ ongoing' \in BOOLEAN
      BY <2>2, EndCallType
    <3>2. pc' \in [Requests -> PCs]
      BY <2>2 DEF TypeOK, PCs, Microtask
    <3> QED
      BY <1>12, <2>2, <3>1, <3>2 DEF ExtensionsOutput, TypeOK, pinVars, CallTargets
  <2> QED
    BY <1>12, <2>1, <2>2 DEF ExtensionsOutput
<1> QED
  BY <1>1, <1>2, <1>3, <1>4, <1>5, <1>6, <1>7, <1>8, <1>9, <1>10, <1>11, <1>12 DEF DeviceStep

LEMMA MicrotaskType ==
  ASSUME TypeOK, NEW r \in Requests, MicrotaskStep(r)
  PROVE  TypeOK'
<1> {"ready", "send", "exts", "credential", "output", "failed", "dead", "end"} \subseteq PCs
  BY DEF PCs, Microtask, InFlight
<1>1. CASE Decide(r)
  <2>1. prompts' \in [PromptNames -> Nat]
    <3>1. CASE Ask("onEnterPin")
      BY <3>1, AskType
    <3>2. CASE UNCHANGED prompts
      BY <3>2 DEF TypeOK
    <3> QED
      BY <1>1, <3>1, <3>2 DEF Decide
  <2>2. pc' \in [Requests -> PCs] /\ plan' \in [Requests -> Plans]
    BY <1>1 DEF Decide, TypeOK, PCs, Microtask, Plans
  <2>3. subs' \subseteq Requests \X Subjects /\ method' \in [Requests -> Methods]
    BY <1>1 DEF Decide, TypeOK, Subjects, Methods
  <2> QED
    BY <1>1, <2>1, <2>2, <2>3 DEF Decide, TypeOK, timerVars, cliVars, pinVars
<1>2. CASE MakeExtensionsInput(r)
  BY <1>2, CallDeviceType
  DEF MakeExtensionsInput, TypeOK, subVars, timerVars, pinVars, CallTargets
<1>3. CASE SendCredentialCommand(r)
  <2>1. /\ pc' \in [Requests -> PCs]
        /\ callOn' \in [Requests -> CallTargets] /\ ongoing' \in BOOLEAN
    BY <1>3, CallDeviceType DEF SendCredentialCommand
  <2> QED
    BY <1>3, <2>1 DEF SendCredentialCommand, TypeOK, subVars, timerVars, pinVars, CallTargets
<1>4. CASE CredentialParsed(r)
  <2>1. CASE Finish(r)
    BY <1>4, <2>1, FinishType DEF CredentialParsed, TypeOK, pinVars, CallTargets
  <2>2. CASE /\ pc' = [pc EXCEPT ![r] = "failed"]
             /\ UNCHANGED <<outcome, subs, armed, cliVars>>
    BY <1>4, <2>2 DEF CredentialParsed, TypeOK, cliVars, pinVars
  <2>3. CASE /\ CallDevice(r, "output", "failed")
             /\ UNCHANGED <<outcome, subs, armed, available, unawaited>>
    BY <1>4, <2>3, CallDeviceType DEF CredentialParsed, TypeOK, pinVars, CallTargets
  <2> QED
    BY <1>4, <2>1, <2>2, <2>3 DEF CredentialParsed
<1>5. CASE CommandFails(r)
  <2>1. "cancel" \in Rejections /\ "error" \in Rejections
    BY DEF Rejections
  <2>2. /\ subs' \subseteq Requests \X Subjects
        /\ outcome' \in [Requests -> Outcomes]
        /\ armed' \subseteq Requests
        /\ available' \in BOOLEAN /\ ongoing' \in BOOLEAN /\ unawaited' \in BOOLEAN
        /\ callOn' \in [Requests -> CallTargets]
    <3>1. subs \in SUBSET (Requests \X Subjects)
      BY DEF TypeOK
    <3> QED
      BY <1>5, <2>1, <3>1, RaiseErrorType DEF CommandFails
  <2> QED
    BY <1>5, <2>2 DEF CommandFails, TypeOK, pinVars, CallTargets
<1> QED
  BY <1>1, <1>2, <1>3, <1>4, <1>5 DEF MicrotaskStep

LEMMA NextType ==
  ASSUME TypeOK, [Next]_vars
  PROVE  TypeOK'
<1>1. CASE CallerStep
  BY <1>1, CallerType
<1>2. CASE Release
  BY <1>2, RevokeType DEF Release, TypeOK, reqVars, pinVars, CallTargets
<1>3. CASE UserStep
  BY <1>3, UserType
<1>4. CASE UnawaitedReturns
  BY <1>4 DEF UnawaitedReturns, TypeOK, reqVars, subVars, timerVars, pinVars
<1>5. ASSUME NEW r \in Requests, DeviceAttached(r)
      PROVE  TypeOK'
  BY <1>5, AskType DEF DeviceAttached, TypeOK, reqVars, subVars, timerVars, cliVars, pinVars
<1>6. ASSUME NEW r \in Requests, TimerFires(r)
      PROVE  TypeOK'
  BY <1>6 DEF TimerFires, TypeOK, reqVars, subVars, cliVars, pinVars
<1>7. ASSUME NEW r \in Requests, DeviceStep(r)
      PROVE  TypeOK'
  BY <1>7, DeviceType
<1>8. ASSUME NEW r \in Requests, MicrotaskStep(r)
      PROVE  TypeOK'
  BY <1>8, MicrotaskType
<1>9. CASE UNCHANGED vars
  BY <1>9 DEF vars, TypeOK, reqVars, subVars, timerVars, cliVars, pinVars
<1> QED
  BY <1>1, <1>2, <1>3, <1>4, <1>5, <1>6, <1>7, <1>8, <1>9 DEF Next

(* Type correctness: every variable keeps to its type, and no call counter and no retry
   count of the authenticator goes below zero. *)
THEOREM TypeCorrect == Spec => []TypeOK
  BY InitType, NextType, PTL DEF Spec

-----------------------------------------------------------------------------
(* User verification *)

(* The relying party does without it, or the user was verified for this request. *)
Verified(r) == wants[r] # "discouraged" => method[r] # "none"

(***************************************************************************)
(* VerifiedWhenRequired speaks of requests already sent.  It is inductive  *)
(* only with what leads there: a request on its way to the command is      *)
(* verified, a plan without verification is chosen for relying parties     *)
(* that do without, and a request not called yet has neither plan nor      *)
(* command (its relying party's wish is still to come).                    *)
(***************************************************************************)
VerifiedInv ==
  \A r \in Requests :
    /\ pc[r] = "new" => r \notin sent /\ plan[r] = "undecided"
    /\ plan[r] = "none" => wants[r] = "discouraged"
    /\ pc[r] \in {"ready", "exts", "send"} => Verified(r)
    /\ r \in sent => Verified(r)

OnTheWay == {"new", "ready", "exts", "send"}

(* A step that decides nothing and brings no request closer to the command. *)
LEMMA VerifiedFrame ==
  ASSUME TypeOK, VerifiedInv, UNCHANGED <<wants, method, plan, sent>>,
         \A q \in Requests : pc'[q] = pc[q] \/ pc'[q] \notin OnTheWay
  PROVE  VerifiedInv'
  BY DEF VerifiedInv, Verified, OnTheWay

LEMMA VerifiedDevice ==
  ASSUME TypeOK, VerifiedInv, NEW r \in Requests, DeviceStep(r)
  PROVE  VerifiedInv'
<1>1. ASSUME NEW o \in Authenticators, InfoAnswered(r, o)
      PROVE  VerifiedInv'
  <2>1. Plan(o, wants[r]) = "none" => wants[r] = "discouraged"
    <3>1. o \in AuthenticatorOptions
      BY ConstantsAssumption DEF ConstantsAssumption
    <3> QED
      BY <3>1 DEF Plan, AuthenticatorOptions
  <2>2. /\ UNCHANGED <<wants, method, sent>>
        /\ \A q \in Requests \ {r} : pc'[q] = pc[q] /\ plan'[q] = plan[q]
        /\ plan'[r] = Plan(o, wants[r])
        /\ pc'[r] \notin OnTheWay
    BY <1>1 DEF InfoAnswered, TypeOK, OnTheWay
  <2> QED
    BY <2>1, <2>2 DEF VerifiedInv, Verified, OnTheWay
<1>2. CASE SetPinReturns(r)
  <2>1. /\ UNCHANGED <<wants, method, sent>>
        /\ \A q \in Requests \ {r} : pc'[q] = pc[q] /\ plan'[q] = plan[q]
        /\ plan'[r] = "pin" /\ pc'[r] = "decide"
    BY <1>2 DEF SetPinReturns, TypeOK
  <2> QED
    BY <2>1 DEF VerifiedInv, Verified
<1>3. CASE TokenGranted(r)
  <2>1. CASE pc[r] = "pin" /\ r \notin lost
    <3>1. /\ UNCHANGED <<wants, plan, sent>>
          /\ \A q \in Requests \ {r} : pc'[q] = pc[q] /\ method'[q] = method[q]
          /\ pc'[r] = "ready" /\ method'[r] = "token"
      BY <1>3, <2>1 DEF TokenGranted, TypeOK
    <3> QED
      BY <3>1 DEF VerifiedInv, Verified
  <2>2. CASE ~(pc[r] = "pin" /\ r \notin lost)
    BY <1>3, <2>2, VerifiedFrame DEF TokenGranted
  <2> QED
    BY <2>1, <2>2
<1>4. CASE ExtensionsBuilt(r)
  <2>1. /\ UNCHANGED <<wants, method, plan, sent>>
        /\ \A q \in Requests \ {r} : pc'[q] = pc[q]
        /\ pc[r] = "exts" /\ pc'[r] = "send"
    BY <1>4 DEF ExtensionsBuilt, TypeOK
  <2> QED
    BY <2>1 DEF VerifiedInv, Verified
<1>5. CASE PinInvalid(r) \/ PinBlocked(r) \/ TokenFails(r) \/ PinInvalidReported(r)
  <2>1. UNCHANGED <<wants, method, plan, sent, pc>>
    BY <1>5 DEF PinInvalid, PinBlocked, TokenFails, PinInvalidReported, reqVars
  <2> QED
    BY <2>1, VerifiedFrame
<1>6. CASE HandlerThrows(r) \/ RetriesRead(r) \/ CredentialReturns(r) \/ ExtensionsOutput(r)
  <2>1. UNCHANGED <<wants, method, plan, sent>>
    BY <1>6 DEF HandlerThrows, RetriesRead, CredentialReturns, ExtensionsOutput
  <2>2. \E next \in {"dead", "decide", "succeeded", "cancelled", "silent", "failed", "end"} :
          pc' = [pc EXCEPT ![r] = next]
    BY <1>6 DEF HandlerThrows, RetriesRead, CredentialReturns, ExtensionsOutput, Finish
  <2>3. \A q \in Requests : pc'[q] = pc[q] \/ pc'[q] \notin OnTheWay
    BY <2>2 DEF TypeOK, OnTheWay
  <2> QED
    BY <2>1, <2>3, VerifiedFrame
<1> QED
  BY <1>1, <1>2, <1>3, <1>4, <1>5, <1>6 DEF DeviceStep

LEMMA VerifiedMicrotask ==
  ASSUME TypeOK, VerifiedInv, NEW r \in Requests, MicrotaskStep(r)
  PROVE  VerifiedInv'
<1>1. CASE Decide(r)
  <2>1. /\ UNCHANGED <<wants, sent>>
        /\ \A q \in Requests \ {r} : pc'[q] = pc[q] /\ plan'[q] = plan[q] /\ method'[q] = method[q]
        /\ plan'[r] = "undecided" /\ pc'[r] # "new"
    BY <1>1 DEF Decide, TypeOK
  <2>2. \/ plan[r] = "uv" /\ method'[r] = "uv"
        \/ plan[r] = "none" /\ method'[r] = "none"
        \/ method'[r] = method[r] /\ pc'[r] \notin OnTheWay
    BY <1>1 DEF Decide, TypeOK, OnTheWay
  <2> QED
    BY <2>1, <2>2 DEF VerifiedInv, Verified, OnTheWay
<1>2. CASE MakeExtensionsInput(r)
  <2>1. /\ UNCHANGED <<wants, method, plan, sent>>
        /\ \A q \in Requests \ {r} : pc'[q] = pc[q]
        /\ pc[r] = "ready" /\ pc'[r] # "new"
    BY <1>2 DEF MakeExtensionsInput, CallDevice, TypeOK
  <2> QED
    BY <2>1 DEF VerifiedInv, Verified
<1>3. CASE SendCredentialCommand(r)
  <2>1. /\ UNCHANGED <<wants, method, plan>>
        /\ \A q \in Requests \ {r} : pc'[q] = pc[q] /\ (q \in sent' <=> q \in sent)
        /\ pc[r] \in {"ready", "send"} /\ pc'[r] # "new"
    BY <1>3 DEF SendCredentialCommand, CallDevice, TypeOK
  <2> QED
    BY <2>1 DEF VerifiedInv, Verified
<1>4. CASE CredentialParsed(r) \/ CommandFails(r)
  <2>1. UNCHANGED <<wants, method, plan, sent>>
    BY <1>4 DEF CredentialParsed, CommandFails
  <2>2. \E next \in {"output", "failed", "end"} : pc' = [pc EXCEPT ![r] = next]
    BY <1>4 DEF CredentialParsed, CommandFails, Finish, CallDevice
  <2>3. \A q \in Requests : pc'[q] = pc[q] \/ pc'[q] \notin OnTheWay
    BY <2>2 DEF TypeOK, OnTheWay
  <2> QED
    BY <2>1, <2>3, VerifiedFrame
<1> QED
  BY <1>1, <1>2, <1>3, <1>4 DEF MicrotaskStep

LEMMA VerifiedCaller ==
  ASSUME TypeOK, VerifiedInv, CallerStep
  PROVE  VerifiedInv'
<1>1. ASSUME NEW r \in Requests, NEW uv \in Verifications, Call(r, uv)
      PROVE  VerifiedInv'
  <2>1. /\ UNCHANGED <<method, plan, sent>>
        /\ \A q \in Requests \ {r} : pc'[q] = pc[q] /\ wants'[q] = wants[q]
        /\ pc[r] = "new" /\ pc'[r] = "asked"
    BY <1>1 DEF Call, MayCall, TypeOK
  <2> QED
    BY <2>1 DEF VerifiedInv, Verified
<1>2. ASSUME NEW r \in Requests, CallRefused(r)
      PROVE  VerifiedInv'
  <2>1. UNCHANGED <<wants, method, plan, sent>>
    BY <1>2 DEF CallRefused
  <2>2. \A q \in Requests : pc'[q] = pc[q] \/ pc'[q] \notin OnTheWay
    BY <1>2 DEF CallRefused, TypeOK, OnTheWay
  <2> QED
    BY <2>1, <2>2, VerifiedFrame
<1> QED
  BY <1>1, <1>2 DEF CallerStep

LEMMA VerifiedUser ==
  ASSUME TypeOK, VerifiedInv, UserStep
  PROVE  VerifiedInv'
<1>1. CASE Accept
  <2>1. \A q \in Requests : pc'[q] = pc[q] \/ pc'[q] \notin OnTheWay
    BY <1>1 DEF Accept, OnTheWay
  <2> QED
    BY <1>1, <2>1, VerifiedFrame DEF Accept
<1>2. CASE Deny
  <2>1. \A q \in Requests : pc'[q] = pc[q] \/ pc'[q] \notin OnTheWay
    BY <1>2 DEF Deny, OnTheWay
  <2> QED
    BY <1>2, <2>1, VerifiedFrame DEF Deny
<1>3. CASE PinAvailable
  <2>1. \A q \in Requests : pc'[q] = pc[q] \/ pc'[q] \notin OnTheWay
    BY <1>3 DEF PinAvailable, OnTheWay
  <2>2. CASE available
    BY <1>3, <2>1, <2>2, VerifiedFrame DEF PinAvailable
  <2>3. CASE ~available
    <3>1. /\ UNCHANGED <<wants, method, sent>>
          /\ \A q \in Requests : plan'[q] \in {plan[q], "pin"}
          /\ \A q \in Requests : pc'[q] = pc[q] => plan'[q] = plan[q] \/ pc[q] = "decide"
      BY <1>3, <2>3 DEF PinAvailable
    <3> QED
      BY <2>1, <3>1 DEF VerifiedInv, Verified, OnTheWay
  <2> QED
    BY <2>2, <2>3
<1>4. CASE HandlerGivesNothing
  BY <1>4, VerifiedFrame DEF HandlerGivesNothing, reqVars
<1>5. CASE CancelEvent
  BY <1>5, VerifiedFrame DEF CancelEvent
<1>6. CASE ErrorEvent
  BY <1>6, VerifiedFrame DEF ErrorEvent
<1>7. ASSUME NEW opened \in SUBSET Requests, SelectDevice(opened)
      PROVE  VerifiedInv'
  <2>1. \A q \in Requests : pc'[q] = pc[q] \/ pc'[q] \notin OnTheWay
    BY <1>7 DEF SelectDevice, OnTheWay
  <2> QED
    BY <1>7, <2>1, VerifiedFrame DEF SelectDevice
<1> QED
  BY <1>1, <1>2, <1>3, <1>4, <1>5, <1>6, <1>7 DEF UserStep

LEMMA VerifiedNext ==
  ASSUME TypeOK, VerifiedInv, [Next]_vars
  PROVE  VerifiedInv'
<1>1. CASE CallerStep
  BY <1>1, VerifiedCaller
<1>2. CASE UserStep
  BY <1>2, VerifiedUser
<1>3. ASSUME NEW r \in Requests, DeviceStep(r)
      PROVE  VerifiedInv'
  BY <1>3, VerifiedDevice
<1>4. ASSUME NEW r \in Requests, MicrotaskStep(r)
      PROVE  VerifiedInv'
  BY <1>4, VerifiedMicrotask
<1>5. CASE Release \/ UnawaitedReturns \/ UNCHANGED vars
           \/ \E r \in Requests : DeviceAttached(r) \/ TimerFires(r)
  <2>1. UNCHANGED reqVars
    BY <1>5 DEF Release, UnawaitedReturns, vars, DeviceAttached, TimerFires
  <2> QED
    BY <2>1, VerifiedFrame DEF reqVars
<1> QED
  BY <1>1, <1>2, <1>3, <1>4, <1>5 DEF Next

LEMMA VerifiedInit ==
  ASSUME Init
  PROVE  VerifiedInv
  BY DEF Init, VerifiedInv, Verified

LEMMA VerifiedEnough ==
  ASSUME TypeOK, VerifiedInv
  PROVE  VerifiedWhenRequired
  BY DEF TypeOK, VerifiedInv, Verified, VerifiedWhenRequired

(* User verification: whatever the number of requests, the authenticators, the transport,
   the interleaving of requests and of stale answers, no credential command of a request
   that wants user verification leaves the client without it. *)
THEOREM VerificationHolds == Spec => []VerifiedWhenRequired
<1>1. Init => TypeOK /\ VerifiedInv
  BY InitType, VerifiedInit
<1>2. TypeOK /\ VerifiedInv /\ [Next]_vars => (TypeOK /\ VerifiedInv)'
  BY NextType, VerifiedNext
<1>3. TypeOK /\ VerifiedInv => VerifiedWhenRequired
  BY VerifiedEnough
<1> QED
  BY <1>1, <1>2, <1>3, PTL DEF Spec
=============================================================================
