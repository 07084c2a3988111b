--------------------------- MODULE PendingHeardProofs ---------------------------
(***************************************************************************)
(* Theorems about a security key on usb, one request at a time: with the   *)
(* default modal a settled request may go on, but it harms no pending one. *)
(* A request whose promise is settled is called stale here.                *)
(***************************************************************************)
EXTENDS RequestLifeProofs

-----------------------------------------------------------------------------
(* One microtask at a time *)

(* Two requests have a microtask to run only if one event took their new PIN from both. *)
MicroInv ==
  \A q, r \in Requests :
    (q # r /\ pc[q] \in Microtask /\ pc[r] \in Microtask) => pc[q] = "decide" /\ plan[q] = "pin"

(* Nobody but r has a microtask afterwards. *)
LEMMA MicroOne ==
  ASSUME NEW r, \A q \in Requests \ {r} : pc'[q] \notin Microtask
  PROVE  MicroInv'
  BY DEF MicroInv

LEMMA MicroFrame ==
  ASSUME MicroInv,
         \A q \in Requests : pc'[q] \in Microtask => pc[q] = pc'[q] /\ plan[q] = plan'[q]
  PROVE  MicroInv'
  BY DEF MicroInv

LEMMA MicroUser ==
  ASSUME TypeOK, UserStep
  PROVE  MicroInv'
<1> NoMicrotask
  BY DEF UserStep, Accept, Deny, PinAvailable, HandlerGivesNothing, CancelEvent, ErrorEvent, SelectDevice
<1>1. CASE PinAvailable /\ ~available
  <2>1. \A q \in Requests : pc'[q] = pc[q] \/ (pc'[q] = "decide" /\ plan'[q] = "pin")
    BY <1>1 DEF PinAvailable
  <2> QED
    BY <2>1 DEF MicroInv, NoMicrotask
<1>2. CASE \/ Accept \/ Deny \/ (PinAvailable /\ available) \/ HandlerGivesNothing
           \/ CancelEvent \/ ErrorEvent
           \/ \E opened \in SUBSET Requests : SelectDevice(opened)
  <2>1. \A q \in Requests : pc'[q] = pc[q] \/ pc'[q] \in {"select", "end", "setPin", "info", "dead"}
    BY <1>2 DEF Accept, Deny, PinAvailable, HandlerGivesNothing, CancelEvent, ErrorEvent, SelectDevice,
                reqVars
  <2> QED
    BY <2>1 DEF MicroInv, NoMicrotask, Microtask
<1> QED
  BY <1>1, <1>2 DEF UserStep

LEMMA MicroDevice ==
  ASSUME TypeOK, NEW r \in Requests, DeviceStep(r)
  PROVE  MicroInv'
<1>1. NoMicrotask
  BY DEF DeviceStep, InfoAnswered, HandlerThrows, RetriesRead, SetPinReturns, TokenGranted, PinInvalid,
         PinBlocked, TokenFails, PinInvalidReported, ExtensionsBuilt, CredentialReturns, ExtensionsOutput
<1>2. CASE \/ \E o \in Authenticators : InfoAnswered(r, o)
           \/ HandlerThrows(r) \/ RetriesRead(r) \/ SetPinReturns(r)
  <2>1. \A q \in Requests \ {r} : pc'[q] = pc[q]
    BY <1>2 DEF InfoAnswered, HandlerThrows, RetriesRead, SetPinReturns, TypeOK
  <2> QED
    BY <1>1, <2>1, MicroOne DEF NoMicrotask
<1>3. CASE \/ TokenGranted(r) \/ PinInvalid(r) \/ PinBlocked(r) \/ TokenFails(r)
           \/ PinInvalidReported(r)
  <2>1. \A q \in Requests \ {r} : pc'[q] = pc[q]
    BY <1>3 DEF TokenGranted, PinInvalid, PinBlocked, TokenFails, PinInvalidReported, reqVars, TypeOK
  <2> QED
    BY <1>1, <2>1, MicroOne DEF NoMicrotask
<1>4. CASE ExtensionsBuilt(r) \/ CredentialReturns(r) \/ ExtensionsOutput(r)
  <2>1. \A q \in Requests \ {r} : pc'[q] = pc[q]
    BY <1>4 DEF ExtensionsBuilt, CredentialReturns, ExtensionsOutput, Finish, TypeOK
  <2> QED
    BY <1>1, <2>1, MicroOne DEF NoMicrotask
<1> QED
  BY <1>2, <1>3, <1>4 DEF DeviceStep

LEMMA MicroMicrotask ==
  ASSUME TypeOK, MicroInv, NEW r \in Requests, MicrotaskStep(r)
  PROVE  MicroInv'
<1> USE DEF Microtask
<1>1. CASE Decide(r)
  <2>1. /\ pc[r] = "decide"
        /\ \A q \in Requests \ {r} : pc'[q] = pc[q] /\ plan'[q] = plan[q]
    BY <1>1 DEF Decide, TypeOK
  <2>2. CASE plan[r] = "pin"
    <3>1. pc'[r] = "pin"
      BY <1>1, <2>2 DEF Decide, TypeOK
    <3> QED
      BY <2>1, <3>1, MicroFrame
  <2>3. CASE plan[r] # "pin"
    <3>1. \A q \in Requests \ {r} : pc[q] \notin Microtask
      BY <2>1, <2>3 DEF MicroInv
    <3> QED
      BY <2>1, <3>1, MicroOne
  <2> QED
    BY <2>2, <2>3
<1>2. CASE \/ MakeExtensionsInput(r) \/ SendCredentialCommand(r) \/ CredentialParsed(r)
           \/ CommandFails(r)
  <2>1. pc[r] \in Microtask \ {"decide"}
    BY <1>2 DEF MakeExtensionsInput, SendCredentialCommand, CredentialParsed, CommandFails
  <2>2. \A q \in Requests \ {r} : pc'[q] = pc[q]
    BY <1>2 DEF MakeExtensionsInput, SendCredentialCommand, CredentialParsed, CommandFails,
                CallDevice, Finish, TypeOK
  <2>3. \A q \in Requests \ {r} : pc[q] \notin Microtask
    BY <2>1 DEF MicroInv
  <2> QED
    BY <2>2, <2>3, MicroOne
<1> QED
  BY <1>1, <1>2 DEF MicrotaskStep

LEMMA MicroNext ==
  ASSUME TypeOK, MicroInv, [Next]_vars
  PROVE  MicroInv'
<1>1. ASSUME NEW r \in Requests, CallRefused(r) \/ \E uv \in Verifications : Call(r, uv)
      PROVE  MicroInv'
  <2>1. NoMicrotask /\ \A q \in Requests \ {r} : pc'[q] = pc[q]
    BY <1>1 DEF Call, CallRefused, MayCall, TypeOK
  <2> QED
    BY <2>1, MicroOne DEF NoMicrotask
<1>2. CASE UserStep
  BY <1>2, MicroUser
<1>3. ASSUME NEW r \in Requests, DeviceStep(r)
      PROVE  MicroInv'
  BY <1>3, MicroDevice
<1>4. ASSUME NEW r \in Requests, MicrotaskStep(r)
      PROVE  MicroInv'
  BY <1>4, MicroMicrotask
<1>5. CASE Release \/ UnawaitedReturns \/ UNCHANGED vars
           \/ \E r \in Requests : DeviceAttached(r) \/ TimerFires(r)
  <2>1. UNCHANGED <<pc, plan>>
    BY <1>5 DEF Release, UnawaitedReturns, DeviceAttached, TimerFires, vars, reqVars
  <2> QED
    BY <2>1, MicroFrame
<1> QED
  BY <1>1, <1>2, <1>3, <1>4, <1>5 DEF Next, CallerStep

LEMMA MicroInit ==
  ASSUME Init
  PROVE  MicroInv
  BY DEF Init, MicroInv, Microtask

-----------------------------------------------------------------------------
(* The calls of a pending request run on the device that is open *)

Busy(r) == tokenCalls[r] > 0 \/ retryCalls[r] > 0 \/ pc[r] \in InFlight

(* ... or on one that release() has closed: never on one another request has replaced. *)
RunsInv == \A q \in Requests : Pending(q) /\ Busy(q) => callOn[q] \in {"current", "closed"}

(* One of the calls of r ends; if others go on, they run where they ran. *)
LEMMA EndCallKeeps ==
  ASSUME TypeOK, NEW r \in Requests, NEW answered, EndCall(r, answered),
         \/ /\ tokenCalls[r] > 0 /\ tokenCalls'[r] = tokenCalls[r] - 1
            /\ retryCalls'[r] = retryCalls[r]
            /\ pc'[r] \in InFlight => pc[r] \in InFlight
         \/ /\ retryCalls[r] > 0 /\ retryCalls'[r] = retryCalls[r] - 1
            /\ tokenCalls'[r] = tokenCalls[r]
            /\ pc'[r] \in InFlight => pc[r] \in InFlight
         \/ /\ pc[r] \in InFlight /\ pc'[r] \notin InFlight
            /\ tokenCalls'[r] = tokenCalls[r] /\ retryCalls'[r] = retryCalls[r]
  PROVE  /\ Busy(r)' => callOn'[r] = callOn[r]
         /\ \A q \in Requests \ {r} : callOn'[q] = callOn[q]
<1>1. callOn' = [callOn EXCEPT ![r] = IF Calls(r) = 1 THEN "idle" ELSE @]
  BY DEF EndCall
<1>2. tokenCalls[r] \in Nat /\ retryCalls[r] \in Nat
  BY DEF TypeOK
<1>3. Busy(r)' => Calls(r) # 1
  <2>1. CASE pc[r] \in InFlight
    <3>1. Calls(r) = tokenCalls[r] + retryCalls[r] + 1
      BY <2>1 DEF Calls
    <3> QED
      BY <1>2, <3>1 DEF Busy
  <2>2. CASE pc[r] \notin InFlight
    <3>1. Calls(r) = tokenCalls[r] + retryCalls[r] + 0
      BY <2>2 DEF Calls
    <3>2. pc'[r] \notin InFlight
      BY <2>2
    <3>3. CASE tokenCalls[r] > 0 /\ tokenCalls'[r] = tokenCalls[r] - 1 /\ retryCalls'[r] = retryCalls[r]
      BY <1>2, <3>1, <3>2, <3>3 DEF Busy
    <3>4. CASE retryCalls[r] > 0 /\ retryCalls'[r] = retryCalls[r] - 1 /\ tokenCalls'[r] = tokenCalls[r]
      BY <1>2, <3>1, <3>2, <3>4 DEF Busy
    <3> QED
      BY <2>2, <3>3, <3>4
  <2> QED
    BY <2>1, <2>2
<1> QED
  BY <1>1, <1>3 DEF TypeOK

(* What a device step of r does to the calls, unless it settles the promise. *)
CallsOf(r) ==
  /\ Busy(r)
  /\ Busy(r)' => callOn'[r] \in {"current", callOn[r]}
  /\ \A q \in Requests \ {r} : /\ pc'[q] = pc[q] /\ callOn'[q] = callOn[q]
                               /\ tokenCalls'[q] = tokenCalls[q] /\ retryCalls'[q] = retryCalls[q]

LEMMA StartCallsOf ==
  ASSUME TypeOK, NEW r \in Requests, StartCalls({r})
  PROVE  callOn'[r] = "current" /\ \A q \in Requests \ {r} : callOn'[q] = callOn[q]
  BY DEF StartCalls, TypeOK

LEMMA DeviceCalls ==
  ASSUME TypeOK, EarlyInv, NEW r \in Requests, DeviceStep(r), ~ExtensionsOutput(r)
  PROVE  CallsOf(r)
<1>1. ASSUME NEW o \in Authenticators, InfoAnswered(r, o)
      PROVE  CallsOf(r)
  <2>1. /\ pc[r] = "info" /\ UNCHANGED <<tokenCalls, retryCalls>>
        /\ \A q \in Requests \ {r} : pc'[q] = pc[q]
    BY <1>1 DEF InfoAnswered, pinVars, TypeOK
  <2>2. CASE StartCalls({r})
    BY <2>1, <2>2, StartCallsOf DEF CallsOf, Busy, InFlight
  <2>3. CASE EndCall(r, TRUE) /\ ~(available /\ ReadsRetries(o))
    <3>1. pc'[r] \in {"dead", "decide"}
      BY <1>1, <2>3 DEF InfoAnswered, TypeOK
    <3> QED
      BY <2>1, <2>3, <3>1, EndCallKeeps DEF CallsOf, Busy, InFlight
  <2> QED
    BY <1>1, <2>2, <2>3 DEF InfoAnswered
<1>2. CASE HandlerThrows(r) \/ RetriesRead(r) \/ ExtensionsBuilt(r) \/ CredentialReturns(r)
  <2>1. /\ pc[r] \in InFlight /\ UNCHANGED <<tokenCalls, retryCalls>>
        /\ \A q \in Requests \ {r} : pc'[q] = pc[q]
        /\ pc'[r] \in {"dead", "decide", "send", "succeeded", "cancelled", "silent", "failed"}
    BY <1>2 DEF HandlerThrows, RetriesRead, ExtensionsBuilt, CredentialReturns, pinVars, InFlight, TypeOK
  <2>2. \E answered \in BOOLEAN : EndCall(r, answered)
    BY <1>2 DEF HandlerThrows, RetriesRead, ExtensionsBuilt, CredentialReturns
  <2>3. pc'[r] \notin InFlight
    BY <2>1 DEF InFlight
  <2> QED
    BY <2>1, <2>2, <2>3, EndCallKeeps DEF CallsOf, Busy
<1>3. CASE SetPinReturns(r)
  <2>1. /\ pc[r] = "setPin" /\ UNCHANGED <<tokenCalls, retryCalls>> /\ pc'[r] = "decide"
        /\ \A q \in Requests \ {r} : pc'[q] = pc[q]
    BY <1>3 DEF SetPinReturns, pinVars, TypeOK
  <2>2. ~Busy(r)'
    <3>1. tokenCalls[r] = 0 /\ retryCalls[r] = 0
      BY <2>1 DEF EarlyInv, Early
    <3> QED
      BY <2>1, <3>1 DEF Busy, InFlight
  <2>3. \A q \in Requests \ {r} : callOn'[q] = callOn[q]
    BY <1>3 DEF SetPinReturns, EndCall, TypeOK
  <2> QED
    BY <2>1, <2>2, <2>3 DEF CallsOf, Busy, InFlight
<1>4. CASE TokenGranted(r) \/ PinBlocked(r) \/ TokenFails(r)
  <2>1. /\ tokenCalls[r] > 0 /\ tokenCalls' = [tokenCalls EXCEPT ![r] = @ - 1]
        /\ UNCHANGED retryCalls
        /\ \E answered \in BOOLEAN : EndCall(r, answered)
    BY <1>4 DEF TokenGranted, PinBlocked, TokenFails
  <2>2. /\ \A q \in Requests \ {r} : pc'[q] = pc[q]
        /\ pc'[r] = pc[r] \/ pc'[r] = "ready"
    BY <1>4 DEF TokenGranted, PinBlocked, TokenFails, reqVars, TypeOK
  <2>3. /\ tokenCalls'[r] = tokenCalls[r] - 1
        /\ \A q \in Requests \ {r} : tokenCalls'[q] = tokenCalls[q]
    BY <2>1 DEF TypeOK
  <2>4. pc'[r] \in InFlight => pc[r] \in InFlight
    BY <2>2 DEF InFlight
  <2>5. /\ Busy(r)' => callOn'[r] = callOn[r]
        /\ \A q \in Requests \ {r} : callOn'[q] = callOn[q]
    BY <2>1, <2>3, <2>4, EndCallKeeps
  <2> QED
    BY <2>1, <2>2, <2>3, <2>5 DEF CallsOf, Busy
<1>5. CASE PinInvalid(r)
  <2>1. /\ tokenCalls[r] > 0 /\ tokenCalls' = [tokenCalls EXCEPT ![r] = @ - 1] /\ UNCHANGED pc
    BY <1>5 DEF PinInvalid, reqVars
  <2>2. /\ tokenCalls'[r] = tokenCalls[r] - 1
        /\ \A q \in Requests \ {r} : tokenCalls'[q] = tokenCalls[q]
    BY <2>1 DEF TypeOK
  <2>3. retryCalls' \in {retryCalls, [retryCalls EXCEPT ![r] = @ + 1]}
    BY <1>5, Zenon DEF PinInvalid
  <2>4. \A q \in Requests \ {r} : retryCalls'[q] = retryCalls[q]
    BY <2>3 DEF TypeOK
  <2>5. CASE StartCalls({r})
    BY <2>1, <2>2, <2>4, <2>5, StartCallsOf DEF CallsOf, Busy
  <2>6. CASE EndCall(r, TRUE) /\ UNCHANGED retryCalls
    <3>1. /\ Busy(r)' => callOn'[r] = callOn[r]
          /\ \A q \in Requests \ {r} : callOn'[q] = callOn[q]
      BY <2>1, <2>2, <2>6, EndCallKeeps
    <3> QED
      BY <2>1, <2>2, <2>4, <3>1 DEF CallsOf, Busy
  <2> QED
    BY <1>5, <2>5, <2>6 DEF PinInvalid
<1>6. CASE PinInvalidReported(r)
  <2>1. /\ retryCalls[r] > 0 /\ retryCalls' = [retryCalls EXCEPT ![r] = @ - 1]
        /\ UNCHANGED <<pc, tokenCalls>>
        /\ \E answered \in BOOLEAN : EndCall(r, answered)
    BY <1>6 DEF PinInvalidReported, reqVars
  <2>2. /\ retryCalls'[r] = retryCalls[r] - 1
        /\ \A q \in Requests \ {r} : retryCalls'[q] = retryCalls[q]
    BY <2>1 DEF TypeOK
  <2>3. /\ Busy(r)' => callOn'[r] = callOn[r]
        /\ \A q \in Requests \ {r} : callOn'[q] = callOn[q]
    BY <2>1, <2>2, EndCallKeeps
  <2> QED
    BY <2>1, <2>2, <2>3 DEF CallsOf, Busy
<1> QED
  BY <1>1, <1>2, <1>3, <1>4, <1>5, <1>6 DEF DeviceStep

(* The last step of a request whose hmac-secret output failed. *)
LEMMA OutputFails ==
  ASSUME TypeOK, NEW r \in Requests, pc[r] = "output",
         pc' = [pc EXCEPT ![r] = "failed"], NEW answered, EndCall(r, answered),
         UNCHANGED pinVars
  PROVE  CallsOf(r)
<1>1. /\ pc'[r] = "failed" /\ \A q \in Requests \ {r} : pc'[q] = pc[q]
      /\ UNCHANGED <<tokenCalls, retryCalls>>
  BY DEF TypeOK, pinVars
<1>2. pc[r] \in InFlight /\ pc'[r] \notin InFlight
  BY <1>1 DEF InFlight
<1> QED
  BY <1>1, <1>2, EndCallKeeps DEF CallsOf, Busy

LEMMA RunsInit ==
  ASSUME Init
  PROVE  RunsInv
  BY DEF Init, RunsInv, Pending

(* Nobody waits any more. *)
LEMMA RunsIdle ==
  ASSUME \A q \in Requests : ~Pending(q)'
  PROVE  RunsInv'
  BY DEF RunsInv

(* A call that goes on stays where it was or is closed, a call that begins is on the open device. *)
LEMMA RunsFrame ==
  ASSUME RunsInv,
         \A q \in Requests : Pending(q)' =>
           \/ ~Busy(q)' \/ callOn'[q] \in {"current", "closed"}
           \/ Pending(q) /\ Busy(q) /\ callOn'[q] = callOn[q]
  PROVE  RunsInv'
  BY DEF RunsInv

(* The promise of the one pending request is settled. *)
LEMMA SettledIdle ==
  ASSUME TypeOK, LifeInv, NEW q \in Requests, Pending(q), NEW how \in Outcomes \ {"pending"},
         outcome' = [outcome EXCEPT ![q] = how]
  PROVE  \A r \in Requests : ~Pending(r)'
<1>1. \A r \in Requests : Pending(r) => r = q
  BY DEF LifeInv, AlonePending
<1> QED
  BY <1>1 DEF TypeOK, Pending

(* An error reaches nobody and changes no call, or nobody waits any more. *)
LEMMA RaiseErrorIdle ==
  ASSUME TypeOK, LifeInv, NEW how \in Rejections, NEW rest, rest \subseteq subs, RaiseError(how, rest)
  PROVE  \/ subs' = rest /\ UNCHANGED <<outcome, callOn>>
         \/ subs' = {} /\ Revoke /\ \A r \in Requests : ~Pending(r)'
<1>1. how \in Outcomes \ {"pending"}
  BY DEF Outcomes, Rejections
<1> QED
  BY <1>1, RaiseErrorRejects, SettledIdle

LEMMA FinishIdle ==
  ASSUME TypeOK, LifeInv, NEW r \in Requests, Pending(r), Finish(r)
  PROVE  \A q \in Requests : ~Pending(q)'
<1>1. outcome' = [outcome EXCEPT ![r] = "resolved"] /\ "resolved" \in Outcomes \ {"pending"}
  BY DEF Finish, Settle, Pending, Outcomes
<1> QED
  BY <1>1, SettledIdle

LEMMA RunsError ==
  ASSUME TypeOK, LifeInv, RunsInv, NEW how \in Rejections, NEW rest, rest \subseteq subs,
         RaiseError(how, rest), UNCHANGED <<tokenCalls, retryCalls>>,
         \A q \in Requests : pc'[q] \in {pc[q], "end"}
  PROVE  RunsInv'
<1>1. \A q \in Requests : Busy(q)' => Busy(q)
  BY DEF Busy, InFlight
<1>2. CASE UNCHANGED <<outcome, callOn>>
  BY <1>1, <1>2, RunsFrame DEF Pending
<1> QED
  BY <1>2, RunsIdle, RaiseErrorIdle

LEMMA RunsUser ==
  ASSUME TypeOK, LifeInv, RunsInv, UserStep
  PROVE  RunsInv'
<1>1. CASE Accept
  <2>1. /\ UNCHANGED <<outcome, callOn, tokenCalls, retryCalls>>
        /\ \A q \in Requests : pc'[q] \in {pc[q], "select"}
    BY <1>1 DEF Accept, cliVars, pinVars
  <2>2. \A q \in Requests : Busy(q)' => Busy(q)
    BY <2>1 DEF Busy, InFlight
  <2> QED
    BY <2>1, <2>2, RunsFrame DEF Pending
<1>2. CASE Deny
  <2>1. /\ UNCHANGED <<tokenCalls, retryCalls>>
        /\ \A q \in Requests : pc'[q] \in {pc[q], "end"}
    BY <1>2 DEF Deny, pinVars
  <2>2. CASE Live("request") = {}
    <3>1. UNCHANGED <<outcome, callOn>>
      BY <1>2, <2>2 DEF Deny, cliVars
    <3>2. \A q \in Requests : Busy(q)' => Busy(q)
      BY <2>1 DEF Busy, InFlight
    <3> QED
      BY <3>1, <3>2, RunsFrame DEF Pending
  <2>3. CASE Live("request") # {}
    <3>1. /\ RaiseError("notAllowed", subs \ {<<Min(Live("request")), "request">>})
          /\ "notAllowed" \in Rejections
      BY <1>2, <2>3 DEF Deny, Rejections
    <3> QED
      BY <2>1, <3>1, RunsError
  <2> QED
    BY <2>2, <2>3
<1>3. CASE PinAvailable
  <2> DEFINE readers == Live("pin")
             setters == Live("newPin")
  <2>1. UNCHANGED <<outcome, retryCalls>>
    BY <1>3 DEF PinAvailable
  <2>2. CASE available
    <3>1. /\ \A q \in readers \cup setters : q \in Requests => callOn'[q] = "current"
          /\ \A q \in Requests \ (readers \cup setters) : /\ callOn'[q] = callOn[q] /\ pc'[q] = pc[q]
                                                          /\ tokenCalls'[q] = tokenCalls[q]
      BY <1>3, <2>2 DEF PinAvailable, StartCalls
    <3>2. \A q \in Requests \ (readers \cup setters) : Busy(q)' <=> Busy(q)
      BY <2>1, <3>1 DEF Busy
    <3> QED
      BY <2>1, <3>1, <3>2, RunsFrame DEF Pending
  <2>3. CASE ~available
    <3>1. /\ UNCHANGED <<callOn, tokenCalls>>
          /\ \A q \in Requests : pc'[q] \in {pc[q], "decide"}
      BY <1>3, <2>3 DEF PinAvailable
    <3>2. \A q \in Requests : Busy(q)' => Busy(q)
      BY <2>1, <3>1 DEF Busy, InFlight
    <3> QED
      BY <2>1, <3>1, <3>2, RunsFrame DEF Pending
  <2> QED
    BY <2>2, <2>3
<1>4. CASE HandlerGivesNothing
  BY <1>4, RunsFrame DEF HandlerGivesNothing, reqVars, cliVars, pinVars, Busy, Pending
<1>5. CASE CancelEvent \/ ErrorEvent
  <2>1. UNCHANGED <<pc, tokenCalls, retryCalls>>
    BY <1>5 DEF CancelEvent, ErrorEvent, pinVars
  <2>2. \/ UNCHANGED <<outcome, callOn>>
        \/ \E how \in {"unknown", "cancel", "error"}, rest \in SUBSET subs : RaiseError(how, rest)
    BY <1>5 DEF CancelEvent, ErrorEvent, cliVars
  <2>3. {"unknown", "cancel", "error"} \subseteq Rejections
    BY DEF Rejections
  <2>4. CASE UNCHANGED <<outcome, callOn>>
    BY <2>1, <2>4, RunsFrame DEF Busy, Pending
  <2> QED
    BY <2>1, <2>2, <2>3, <2>4, RunsError
<1>6. ASSUME NEW opened \in SUBSET Requests, SelectDevice(opened)
      PROVE  RunsInv'
  <2> DEFINE listeners == Live("device")
  <2>1. UNCHANGED <<outcome, tokenCalls, retryCalls>> /\ opened \subseteq listeners
    BY <1>6 DEF SelectDevice, pinVars
  <2>2. \A q \in listeners : Pending(q)
    BY DEF Live, LifeInv, LifeAt, Session
  <2>3. ASSUME NEW q \in Requests \ listeners, Pending(q)
        PROVE  callOn'[q] = callOn[q] /\ pc'[q] = pc[q]
    <3>1. listeners = {}
      BY <2>2, <2>3 DEF LifeInv, AlonePending, Live
    <3>2. opened = {}
      BY <2>1, <3>1
    <3> QED
      BY <1>6, <2>3, <3>2 DEF SelectDevice
  <2>4. ASSUME NEW q \in listeners
        PROVE  callOn'[q] = "current" \/ (callOn'[q] = callOn[q] /\ pc'[q] = "dead")
    BY <1>6, <2>1, <2>4 DEF SelectDevice, Live
  <2>5. ASSUME NEW q \in Requests, Pending(q)'
        PROVE  \/ ~Busy(q)' \/ callOn'[q] = "current"
               \/ Pending(q) /\ Busy(q) /\ callOn'[q] = callOn[q]
    BY <2>1, <2>3, <2>4, <2>5 DEF Pending, Busy, InFlight
  <2> QED
    BY <2>5, RunsFrame
<1> QED
  BY <1>1, <1>2, <1>3, <1>4, <1>5, <1>6 DEF UserStep

LEMMA RunsWorks ==
  ASSUME TypeOK, RunsInv, NEW r \in Requests, CallsOf(r), UNCHANGED outcome
  PROVE  RunsInv'
<1>1. \A q \in Requests \ {r} : Busy(q)' <=> Busy(q)
  BY DEF CallsOf, Busy
<1> QED
  BY <1>1, RunsFrame DEF CallsOf, Pending

LEMMA RunsDevice ==
  ASSUME TypeOK, LifeInv, EarlyInv, CommandsPending, RunsInv, NEW r \in Requests, DeviceStep(r)
  PROVE  RunsInv'
<1>1. CASE ExtensionsOutput(r)
  <2>1. pc[r] = "output"
    BY <1>1 DEF ExtensionsOutput
  <2>2. CASE Finish(r) /\ ~(Transport = "usb" /\ callOn[r] = "closed")
    <3>1. Pending(r)
      BY <2>1, <2>2 DEF CommandsPending
    <3> QED
      BY <2>2, <3>1, FinishIdle, RunsIdle
  <2>3. CASE /\ pc' = [pc EXCEPT ![r] = "failed"]
             /\ \E answered \in BOOLEAN : EndCall(r, answered)
             /\ UNCHANGED <<outcome, pinVars>>
    BY <2>1, <2>3, OutputFails, RunsWorks
  <2> QED
    BY <1>1, <2>2, <2>3 DEF ExtensionsOutput
<1>2. CASE ~ExtensionsOutput(r)
  <2>1. UNCHANGED outcome
    BY <1>2 DEF DeviceStep, InfoAnswered, HandlerThrows, RetriesRead, SetPinReturns, TokenGranted,
                PinInvalid, PinBlocked, TokenFails, PinInvalidReported, ExtensionsBuilt,
                CredentialReturns, reqVars
  <2> QED
    BY <1>2, <2>1, DeviceCalls, RunsWorks
<1> QED
  BY <1>1, <1>2

LEMMA RunsMicrotask ==
  ASSUME TypeOK, LifeInv, CommandsPending, RunsInv, NEW r \in Requests, MicrotaskStep(r)
  PROVE  RunsInv'
<1>1. ASSUME UNCHANGED <<outcome, callOn, pinVars>>, NEW after \in PCs \ InFlight,
             pc' = [pc EXCEPT ![r] = after]
      PROVE  RunsInv'
  <2>1. \A q \in Requests : Busy(q)' => Busy(q)
    BY <1>1 DEF Busy, TypeOK, pinVars
  <2> QED
    BY <1>1, <2>1, RunsFrame DEF Pending
<1>2. ASSUME UNCHANGED <<outcome, pinVars>>, StartCalls({r}),
             \A q \in Requests \ {r} : pc'[q] = pc[q]
      PROVE  RunsInv'
  <2>1. callOn'[r] = "current" /\ \A q \in Requests \ {r} : callOn'[q] = callOn[q]
    BY <1>2, StartCallsOf
  <2>2. \A q \in Requests \ {r} : Busy(q)' <=> Busy(q)
    BY <1>2 DEF Busy, pinVars
  <2> QED
    BY <1>2, <2>1, <2>2, RunsFrame DEF Pending
<1>3. ASSUME UNCHANGED <<outcome, pinVars>>, NEW next, NEW otherwise \in PCs \ InFlight,
             CallDevice(r, next, otherwise)
      PROVE  RunsInv'
  <2>1. CASE available
    <3>1. StartCalls({r}) /\ \A q \in Requests \ {r} : pc'[q] = pc[q]
      BY <1>3, <2>1 DEF CallDevice, TypeOK
    <3> QED
      BY <1>2, <1>3, <3>1
  <2>2. CASE ~available
    <3>1. UNCHANGED callOn /\ pc' = [pc EXCEPT ![r] = otherwise]
      BY <1>3, <2>2 DEF CallDevice
    <3> QED
      BY <1>1, <1>3, <3>1
  <2> QED
    BY <2>1, <2>2
<1>4. {"ready", "pin", "newPin", "dead", "failed", "end"} \subseteq PCs \ InFlight
  BY DEF PCs, InFlight, Microtask
<1>5. CASE Decide(r)
  <2>1. /\ UNCHANGED <<outcome, callOn, pinVars>>
        /\ \E after \in {"ready", "pin", "newPin", "dead"} : pc' = [pc EXCEPT ![r] = after]
    BY <1>5 DEF Decide, cliVars
  <2> QED
    BY <1>1, <1>4, <2>1
<1>6. CASE MakeExtensionsInput(r)
  BY <1>3, <1>4, <1>6 DEF MakeExtensionsInput
<1>7. CASE SendCredentialCommand(r)
  BY <1>3, <1>4, <1>7 DEF SendCredentialCommand
<1>8. CASE CredentialParsed(r)
  <2>1. pc[r] = "succeeded" /\ UNCHANGED pinVars
    BY <1>8 DEF CredentialParsed
  <2>2. CASE Finish(r)
    <3>1. Pending(r)
      BY <2>1 DEF CommandsPending
    <3> QED
      BY <2>2, <3>1, FinishIdle, RunsIdle
  <2>3. CASE pc' = [pc EXCEPT ![r] = "failed"] /\ UNCHANGED <<outcome, cliVars>>
    BY <1>1, <1>4, <2>1, <2>3 DEF cliVars
  <2>4. CASE CallDevice(r, "output", "failed") /\ UNCHANGED outcome
    BY <1>3, <1>4, <2>1, <2>4
  <2> QED
    BY <1>8, <2>2, <2>3, <2>4 DEF CredentialParsed
<1>9. CASE CommandFails(r)
  <2>1. /\ UNCHANGED <<tokenCalls, retryCalls>>
        /\ \A q \in Requests : pc'[q] \in {pc[q], "end"}
        /\ \E how \in {"cancel", "error"} : RaiseError(how, subs)
    BY <1>9 DEF CommandFails, pinVars, TypeOK
  <2>2. {"cancel", "error"} \subseteq Rejections
    BY DEF Rejections
  <2> QED
    BY <2>1, <2>2, RunsError
<1> QED
  BY <1>5, <1>6, <1>7, <1>8, <1>9 DEF MicrotaskStep

LEMMA RunsNext ==
  ASSUME TypeOK, LifeInv, EarlyInv, CommandsPending, RunsInv, [Next]_vars
  PROVE  RunsInv'
<1>1. ASSUME NEW r \in Requests, CallRefused(r) \/ \E uv \in Verifications : Call(r, uv)
      PROVE  RunsInv'
  <2>1. /\ pc[r] = "new" /\ pc'[r] \in {"asked", "end", "dead"}
        /\ UNCHANGED <<callOn, tokenCalls, retryCalls>>
        /\ \A q \in Requests \ {r} : pc'[q] = pc[q] /\ outcome'[q] = outcome[q]
    BY <1>1 DEF Call, CallRefused, MayCall, cliVars, pinVars, TypeOK
  <2>2. tokenCalls[r] = 0 /\ retryCalls[r] = 0
    BY <2>1 DEF EarlyInv, Early
  <2>3. ~Busy(r)'
    BY <2>1, <2>2 DEF Busy, InFlight
  <2>4. \A q \in Requests \ {r} : Busy(q)' <=> Busy(q)
    BY <2>1 DEF Busy
  <2> QED
    BY <2>1, <2>3, <2>4, RunsFrame DEF Pending
<1>2. CASE UserStep
  BY <1>2, RunsUser
<1>3. ASSUME NEW r \in Requests, DeviceStep(r)
      PROVE  RunsInv'
  BY <1>3, RunsDevice
<1>4. ASSUME NEW r \in Requests, MicrotaskStep(r)
      PROVE  RunsInv'
  BY <1>4, RunsMicrotask
<1>5. CASE UnawaitedReturns \/ UNCHANGED vars \/ \E r \in Requests : DeviceAttached(r) \/ TimerFires(r)
  <2>1. UNCHANGED <<pc, outcome, callOn, tokenCalls, retryCalls>>
    BY <1>5 DEF UnawaitedReturns, DeviceAttached, TimerFires, vars, reqVars, cliVars, pinVars
  <2> QED
    BY <2>1, RunsFrame DEF Busy, Pending
<1>6. CASE Release
  <2>1. /\ UNCHANGED <<pc, outcome, tokenCalls, retryCalls>>
        /\ \A q \in Requests : callOn'[q] \in {"closed", callOn[q]}
    BY <1>6 DEF Release, Revoke, reqVars, pinVars
  <2> QED
    BY <2>1, RunsFrame DEF Busy, Pending
<1> QED
  BY <1>1, <1>2, <1>3, <1>4, <1>5, <1>6 DEF Next, CallerStep

-----------------------------------------------------------------------------
(* A stale request gets no further than it can harm *)

(***************************************************************************)
(* Where a request may stand whose promise is not pending: its device      *)
(* calls are on a closed device, which on usb gives no answer any more, or *)
(* its getPinUvAuthToken promise is lost, so that no answer leads to a     *)
(* command.                                                                *)
(***************************************************************************)
StaleAt(q) ==
  /\ pc[q] \notin {"ready", "send", "succeeded", "cancelled"}
  /\ pc[q] \in {"info", "exts", "credential", "output"} => callOn[q] = "closed"
  /\ pc[q] \in {"retries", "setPin"} => callOn[q] = "closed" \/ q \in lost
  /\ pc[q] = "decide" => q \in lost
  /\ pc[q] = "newPin" => q \in lost \/ <<q, "newPin">> \notin subs
  /\ <<q, "pin">> \in subs => pc[q] = "pin" /\ q \in lost
  /\ pc[q] = "pin" => q \in lost \/ ~Busy(q) \/ callOn[q] = "closed"

StaleInv == \A q \in Requests : ~Pending(q) => StaleAt(q)

(* q stands where it stood; its subscriptions and calls may end, and no call leaves a closed device. *)
StaleKept(q) ==
  /\ pc'[q] = pc[q]
  /\ q \in lost => q \in lost'
  /\ Busy(q)' => Busy(q)
  /\ Busy(q)' /\ callOn[q] = "closed" => callOn'[q] = "closed"
  /\ <<q, "pin">> \in subs' => <<q, "pin">> \in subs
  /\ <<q, "newPin">> \in subs' => <<q, "newPin">> \in subs

LEMMA StaleFrame ==
  ASSUME NEW q \in Requests, StaleAt(q), StaleKept(q)
  PROVE  StaleAt(q)'
<1>1. pc[q] \in InFlight => Busy(q)'
  BY DEF StaleKept, Busy
<1>2. pc[q] \in {"info", "exts", "credential", "output", "retries", "setPin"} => pc[q] \in InFlight
  BY DEF InFlight
<1> QED
  BY <1>1, <1>2 DEF StaleAt, StaleKept

(* A request that is through, or whose handler has died. *)
LEMMA StaleThrough ==
  ASSUME NEW q \in Requests, pc'[q] \in {"end", "dead", "failed", "silent"}, <<q, "pin">> \notin subs'
  PROVE  StaleAt(q)'
  BY DEF StaleAt

(* Nobody's promise is settled, and only r goes on. *)
LEMMA StaleWorks ==
  ASSUME StaleInv, NEW r \in Requests,
         \A q \in Requests : Pending(q)' <=> Pending(q),
         \A q \in Requests \ {r} : StaleKept(q),
         ~Pending(r) => StaleAt(r)'
  PROVE  StaleInv'
  BY StaleFrame DEF StaleInv

LEMMA StaleFrameAll ==
  ASSUME StaleInv, \A q \in Requests : Pending(q) => Pending(q)',
         \A q \in Requests : ~Pending(q) => StaleKept(q)
  PROVE  StaleInv'
  BY StaleFrame DEF StaleInv

(* The session ends: calls that ran run on a closed device, and nobody reads a PIN. *)
LEMMA StaleEnds ==
  ASSUME TypeOK, RunsInv, StaleInv, Revoke, subs' = {}, UNCHANGED <<lost, tokenCalls, retryCalls>>,
         \A q \in Requests : pc'[q] \in {pc[q], "end"},
         \A q \in Requests : Pending(q) => pc'[q] \notin Microtask
  PROVE  StaleInv'
<1>1. ASSUME NEW q \in Requests, pc'[q] = "end"
      PROVE  StaleAt(q)'
  BY <1>1, StaleThrough
<1>2. ASSUME NEW q \in Requests, pc'[q] = pc[q], ~Pending(q)
      PROVE  StaleAt(q)'
  <2>1. callOn[q] = "closed" => callOn'[q] = "closed"
    BY DEF Revoke, TypeOK
  <2>2. StaleKept(q)
    BY <1>2, <2>1 DEF StaleKept, Busy
  <2> QED
    BY <1>2, <2>2, StaleFrame DEF StaleInv
<1>3. ASSUME NEW q \in Requests, pc'[q] = pc[q], Pending(q)
      PROVE  StaleAt(q)'
  <2>1. Busy(q)' <=> Busy(q)
    BY <1>3 DEF Busy
  <2>2. Busy(q)' => callOn'[q] = "closed"
    BY <1>3, <2>1 DEF RunsInv, Revoke, TypeOK
  <2>3. pc'[q] \notin {"ready", "send", "succeeded", "cancelled", "decide"}
    BY <1>3 DEF Microtask
  <2>4. pc'[q] \in {"info", "exts", "credential", "output", "retries", "setPin"} => Busy(q)'
    BY DEF Busy, InFlight
  <2>5. <<q, "pin">> \notin subs' /\ <<q, "newPin">> \notin subs'
    OBVIOUS
  <2> QED
    BY <2>2, <2>3, <2>4, <2>5 DEF StaleAt
<1> QED
  BY <1>1, <1>2, <1>3 DEF StaleInv

LEMMA StaleError ==
  ASSUME TypeOK, LifeInv, RunsInv, StaleInv, NEW how \in Rejections, NEW rest, rest \subseteq subs,
         RaiseError(how, rest), UNCHANGED <<lost, tokenCalls, retryCalls>>,
         \A q \in Requests : pc'[q] = pc[q] \/ (pc'[q] = "end" /\ <<q, "pin">> \notin rest),
         \A q \in Requests : Pending(q) => pc'[q] \notin Microtask
  PROVE  StaleInv'
<1>1. CASE subs' = rest /\ UNCHANGED <<outcome, callOn>>
  <2>1. ASSUME NEW q \in Requests, ~Pending(q)'
        PROVE  StaleAt(q)'
    <3>1. ~Pending(q)
      BY <1>1, <2>1 DEF Pending
    <3>2. CASE pc'[q] = pc[q]
      <4>1. StaleKept(q)
        BY <1>1, <3>2 DEF StaleKept, Busy
      <4> QED
        BY <3>1, <4>1, StaleFrame DEF StaleInv
    <3>3. CASE pc'[q] = "end" /\ <<q, "pin">> \notin rest
      BY <1>1, <3>3, StaleThrough
    <3> QED
      BY <3>2, <3>3
  <2> QED
    BY <2>1 DEF StaleInv
<1>2. CASE subs' = {} /\ Revoke
  BY <1>2, StaleEnds
<1> QED
  BY <1>1, <1>2, RaiseErrorIdle

LEMMA StaleFinish ==
  ASSUME TypeOK, LifeInv, RunsInv, StaleInv, MicroInv, NEW r \in Requests, Pending(r), Finish(r),
         UNCHANGED <<lost, tokenCalls, retryCalls>>
  PROVE  StaleInv'
<1>1. pc'[r] = "end" /\ \A q \in Requests \ {r} : pc'[q] = pc[q]
  BY DEF Finish, TypeOK
<1>2. \A q \in Requests : Pending(q) => q = r
  BY DEF LifeInv, AlonePending
<1>3. \A q \in Requests : Pending(q) => pc'[q] \notin Microtask
  BY <1>1, <1>2 DEF Microtask
<1> QED
  BY <1>1, <1>3, StaleEnds DEF Finish

LEMMA StaleUser ==
  ASSUME TypeOK, LifeInv, RunsInv, StaleInv, UserStep
  PROVE  StaleInv'
<1> NoMicrotask
  BY DEF UserStep, Accept, Deny, PinAvailable, HandlerGivesNothing, CancelEvent, ErrorEvent, SelectDevice
<1>1. CASE Accept
  <2> DEFINE listeners == Live("request")
  <2>1. /\ UNCHANGED <<outcome, lost, callOn, tokenCalls, retryCalls>>
        /\ \A q \in Requests \ listeners : pc'[q] = pc[q]
        /\ \A q \in Requests, x \in {"pin", "newPin"} : <<q, x>> \in subs' => <<q, x>> \in subs
    BY <1>1 DEF Accept, cliVars, pinVars
  <2>2. \A q \in listeners : Pending(q)
    BY DEF Live, LifeInv, LifeAt, Session
  <2>3. \A q \in Requests \ listeners : StaleKept(q)
    BY <2>1 DEF StaleKept, Busy
  <2> QED
    BY <2>1, <2>2, <2>3, StaleFrameAll DEF Pending
<1>2. CASE Deny
  <2> DEFINE listeners == Live("request")
             first == Min(listeners)
             rest == subs \ {<<first, "request">>}
  <2>1. UNCHANGED <<lost, tokenCalls, retryCalls>>
    BY <1>2 DEF Deny, pinVars
  <2>2. CASE listeners = {}
    <3>1. UNCHANGED <<outcome, callOn, subs>> /\ \A q \in Requests : pc'[q] = pc[q]
      BY <1>2, <2>2 DEF Deny, cliVars
    <3>2. \A q \in Requests : StaleKept(q)
      BY <2>1, <3>1 DEF StaleKept, Busy
    <3> QED
      BY <3>1, <3>2, StaleFrameAll DEF Pending
  <2>3. CASE listeners # {}
    <3>1. /\ RaiseError("notAllowed", rest) /\ rest \subseteq subs
          /\ "notAllowed" \in Rejections
      BY <1>2, <2>3 DEF Deny, Rejections
    <3>2. PICK r \in Requests : <<r, "request">> \in subs
      BY <2>3 DEF Live
    <3>3. listeners = {r} /\ Pending(r) /\ pc[r] = "asked"
      BY <3>2 DEF LifeInv, AlonePending, LifeAt, Session, Live
    <3>4. first = r
      BY <3>3, MinSingle
    <3>5. pc'[r] = "end" /\ \A q \in Requests \ {r} : pc'[q] = pc[q]
      BY <1>2, <2>3, <3>4 DEF Deny
    <3>6. CASE subs' = rest /\ UNCHANGED <<outcome, callOn>>
      <4>1. \A q \in Requests : ~Pending(q) => StaleKept(q)
        BY <2>1, <3>3, <3>5, <3>6 DEF StaleKept, Busy
      <4> QED
        BY <3>6, <4>1, StaleFrameAll DEF Pending
    <3>7. CASE subs' = {} /\ Revoke
      <4>1. \A q \in Requests : pc'[q] \in {pc[q], "end"} /\ pc'[q] \notin Microtask
        BY <3>5 DEF NoMicrotask, Microtask
      <4> QED
        BY <2>1, <3>7, <4>1, StaleEnds
    <3> QED
      BY <3>1, <3>6, <3>7, RaiseErrorIdle
  <2> QED
    BY <2>2, <2>3
<1>3. CASE PinAvailable
  <2> DEFINE readers == Live("pin")
             setters == Live("newPin")
  <2>1. /\ UNCHANGED <<outcome, retryCalls>> /\ lost \subseteq lost'
        /\ subs' = subs \ (setters \X {"newPin"})
    BY <1>3 DEF PinAvailable
  <2>2. ASSUME NEW q \in setters, ~Pending(q)
        PROVE  StaleAt(q)'
    <3>1. q \in Requests /\ <<q, "newPin">> \in subs /\ StaleAt(q) /\ LifeAt(q)
      BY <2>2 DEF Live, StaleInv, LifeInv
    <3>2. pc[q] = "newPin"
      BY <3>1 DEF LifeAt
    <3>3. q \in lost' /\ <<q, "pin">> \notin subs'
      BY <2>1, <3>1, <3>2 DEF StaleAt
    <3>4. pc'[q] \in {"setPin", "decide"}
      BY <1>3, <2>2, <3>1 DEF PinAvailable
    <3> QED
      BY <3>3, <3>4 DEF StaleAt
  <2>3. ASSUME NEW q \in readers \ setters, ~Pending(q)
        PROVE  StaleAt(q)'
    <3>1. q \in Requests /\ <<q, "pin">> \in subs /\ StaleAt(q)
      BY <2>3 DEF Live, StaleInv
    <3>2. pc[q] = "pin" /\ q \in lost'
      BY <2>1, <3>1 DEF StaleAt
    <3>3. pc'[q] = "pin"
      BY <1>3, <2>3, <3>1, <3>2 DEF PinAvailable
    <3> QED
      BY <3>2, <3>3 DEF StaleAt
  <2>4. ASSUME NEW q \in Requests \ (readers \cup setters), ~Pending(q)
        PROVE  StaleAt(q)'
    <3>1. pc'[q] = pc[q] /\ callOn'[q] = callOn[q] /\ tokenCalls'[q] = tokenCalls[q]
      BY <1>3, <2>4 DEF PinAvailable, StartCalls
    <3>2. StaleKept(q)
      BY <2>1, <3>1 DEF StaleKept, Busy
    <3> QED
      BY <2>4, <3>2, StaleFrame DEF StaleInv
  <2> QED
    BY <2>1, <2>2, <2>3, <2>4 DEF StaleInv, Pending
<1>4. CASE HandlerGivesNothing
  <2>1. UNCHANGED <<pc, outcome, lost, subs, callOn, tokenCalls, retryCalls>>
    BY <1>4 DEF HandlerGivesNothing, reqVars, subVars, cliVars, pinVars
  <2> QED
    BY <2>1, StaleFrameAll DEF StaleKept, Busy, Pending
<1>5. CASE CancelEvent \/ ErrorEvent
  <2>1. UNCHANGED <<pc, lost, tokenCalls, retryCalls>>
    BY <1>5 DEF CancelEvent, ErrorEvent, pinVars
  <2>2. \/ UNCHANGED <<outcome, callOn>> /\ subs' \subseteq subs
        \/ \E how \in {"unknown", "cancel", "error"}, rest \in SUBSET subs : RaiseError(how, rest)
    BY <1>5 DEF CancelEvent, ErrorEvent, cliVars
  <2>3. {"unknown", "cancel", "error"} \subseteq Rejections
    BY DEF Rejections
  <2>4. CASE UNCHANGED <<outcome, callOn>> /\ subs' \subseteq subs
    <3>1. \A q \in Requests : StaleKept(q)
      BY <2>1, <2>4 DEF StaleKept, Busy
    <3> QED
      BY <2>4, <3>1, StaleFrameAll DEF Pending
  <2>5. \A q \in Requests : pc'[q] \notin Microtask
    BY <2>1 DEF NoMicrotask
  <2> QED
    BY <2>1, <2>2, <2>3, <2>4, <2>5, StaleError
<1>6. ASSUME NEW opened \in SUBSET Requests, SelectDevice(opened)
      PROVE  StaleInv'
  <2> DEFINE listeners == Live("device")
  <2>1. /\ UNCHANGED <<outcome, tokenCalls, retryCalls>> /\ lost \subseteq lost' /\ subs' \subseteq subs
        /\ \A q \in Requests \ listeners : /\ pc'[q] = pc[q]
                                           /\ callOn[q] = "closed" => callOn'[q] = "closed"
    BY <1>6 DEF SelectDevice, pinVars
  <2>2. \A q \in listeners : Pending(q)
    BY DEF Live, LifeInv, LifeAt, Session
  <2>3. \A q \in Requests \ listeners : StaleKept(q)
    BY <2>1 DEF StaleKept, Busy
  <2> QED
    BY <2>1, <2>2, <2>3, StaleFrameAll DEF Pending
<1> QED
  BY <1>1, <1>2, <1>3, <1>4, <1>5, <1>6 DEF UserStep

(* A device call of a stale request ends: what answers leads to no command. *)
LEMMA StaleActor ==
  ASSUME Transport = "usb", TypeOK, NEW r \in Requests, StaleAt(r), CallsOf(r), DeviceStep(r)
  PROVE  StaleAt(r)'
<1> USE DEF StaleAt
<1>1. ASSUME NEW o \in Authenticators, InfoAnswered(r, o)
      PROVE  FALSE
  BY <1>1 DEF InfoAnswered, EndCall
<1>2. CASE HandlerThrows(r)
  BY <1>2, StaleThrough DEF HandlerThrows, TypeOK, subVars
<1>3. CASE RetriesRead(r)
  <2>1. pc[r] = "retries" /\ pc'[r] = "decide" /\ UNCHANGED subs
    BY <1>3 DEF RetriesRead, TypeOK, subVars
  <2>2. r \in lost'
    BY <1>3, <2>1 DEF RetriesRead, EndCall
  <2> QED
    BY <2>1, <2>2
<1>4. CASE SetPinReturns(r)
  <2>1. pc[r] = "setPin" /\ pc'[r] = "decide" /\ UNCHANGED subs
    BY <1>4 DEF SetPinReturns, TypeOK, subVars
  <2>2. r \in lost'
    BY <1>4, <2>1 DEF SetPinReturns
  <2> QED
    BY <2>1, <2>2
<1>5. CASE TokenGranted(r) \/ PinInvalid(r) \/ PinBlocked(r)
  <2>1. callOn[r] # "closed"
    BY <1>5 DEF TokenGranted, PinInvalid, PinBlocked, EndCall
  <2>2. /\ pc[r] \notin {"info", "exts", "credential", "output"}
        /\ pc[r] \in {"retries", "setPin", "pin"} => r \in lost
    BY <2>1 DEF CallsOf
  <2>3. UNCHANGED <<pc, lost, subs>>
    BY <1>5, <2>2 DEF TokenGranted, PinInvalid, PinBlocked, reqVars, subVars
  <2> QED
    BY <2>2, <2>3
<1>6. CASE TokenFails(r)
  <2>1. /\ UNCHANGED <<pc, subs, retryCalls>> /\ lost \subseteq lost'
        /\ tokenCalls[r] > 0 /\ tokenCalls' = [tokenCalls EXCEPT ![r] = @ - 1]
        /\ \E answered \in BOOLEAN : EndCall(r, answered)
    BY <1>6 DEF TokenFails, subVars
  <2>2. tokenCalls'[r] = tokenCalls[r] - 1
    BY <2>1 DEF TypeOK
  <2>3. Busy(r)' => callOn'[r] = callOn[r]
    BY <2>1, <2>2, EndCallKeeps
  <2>4. StaleKept(r)
    BY <2>1, <2>3 DEF StaleKept, CallsOf
  <2> QED
    BY <2>4, StaleFrame
<1>7. CASE PinInvalidReported(r)
  <2>1. /\ UNCHANGED <<pc, lost, subs, tokenCalls>>
        /\ retryCalls[r] > 0 /\ retryCalls' = [retryCalls EXCEPT ![r] = @ - 1]
        /\ \E answered \in BOOLEAN : EndCall(r, answered)
    BY <1>7 DEF PinInvalidReported, reqVars, subVars
  <2>2. retryCalls'[r] = retryCalls[r] - 1
    BY <2>1 DEF TypeOK
  <2>3. Busy(r)' => callOn'[r] = callOn[r]
    BY <2>1, <2>2, EndCallKeeps
  <2>4. StaleKept(r)
    BY <2>1, <2>3 DEF StaleKept, CallsOf
  <2> QED
    BY <2>4, StaleFrame
<1>8. CASE ExtensionsBuilt(r)
  BY <1>8 DEF ExtensionsBuilt, EndCall
<1>9. CASE CredentialReturns(r) \/ ExtensionsOutput(r)
  <2>1. pc[r] \in {"credential", "output"} /\ callOn[r] = "closed" /\ <<r, "pin">> \notin subs
    BY <1>9 DEF CredentialReturns, ExtensionsOutput
  <2>2. pc'[r] = "failed" /\ UNCHANGED subs
    BY <1>9, <2>1 DEF CredentialReturns, ExtensionsOutput, EndCall, TypeOK, subVars
  <2> QED
    BY <2>1, <2>2
<1> QED
  BY <1>1, <1>2, <1>3, <1>4, <1>5, <1>6, <1>7, <1>8, <1>9 DEF DeviceStep

LEMMA StaleDevice ==
  ASSUME Transport = "usb", TypeOK, LifeInv, EarlyInv, RunsInv, MicroInv, StaleInv,
         NEW r \in Requests, DeviceStep(r)
  PROVE  StaleInv'
<1>1. ASSUME UNCHANGED outcome, CallsOf(r), lost \subseteq lost', subs' \subseteq subs
      PROVE  StaleInv'
  <2>1. \A q \in Requests \ {r} : StaleKept(q)
    BY <1>1 DEF CallsOf, StaleKept, Busy
  <2>2. ~Pending(r) => StaleAt(r)'
    BY <1>1, StaleActor DEF StaleInv
  <2> QED
    BY <1>1, <2>1, <2>2, StaleWorks DEF Pending
<1>2. CASE ExtensionsOutput(r)
  <2>1. pc[r] = "output" /\ UNCHANGED <<lost, pinVars>>
    BY <1>2 DEF ExtensionsOutput
  <2>2. CASE Finish(r) /\ ~(Transport = "usb" /\ callOn[r] = "closed")
    <3>1. Pending(r)
      BY <2>1, <2>2 DEF StaleInv, StaleAt
    <3> QED
      BY <2>1, <2>2, <3>1, StaleFinish DEF pinVars
  <2>3. CASE /\ pc' = [pc EXCEPT ![r] = "failed"]
             /\ \E answered \in BOOLEAN : EndCall(r, answered)
             /\ UNCHANGED <<outcome, subs>>
    BY <1>1, <2>1, <2>3, OutputFails
  <2> QED
    BY <1>2, <2>2, <2>3 DEF ExtensionsOutput
<1>3. CASE ~ExtensionsOutput(r)
  <2>1. UNCHANGED <<outcome, subs>> /\ lost \subseteq lost'
    BY <1>3 DEF DeviceStep, InfoAnswered, HandlerThrows, RetriesRead, SetPinReturns, TokenGranted,
                PinInvalid, PinBlocked, TokenFails, PinInvalidReported, ExtensionsBuilt,
                CredentialReturns, reqVars, subVars
  <2> QED
    BY <1>1, <1>3, <2>1, DeviceCalls
<1> QED
  BY <1>2, <1>3

LEMMA StaleMicrotask ==
  ASSUME TypeOK, LifeInv, RunsInv, MicroInv, StaleInv, NEW r \in Requests, MicrotaskStep(r)
  PROVE  StaleInv'
<1>1. CASE Decide(r)
  <2>1. /\ pc[r] = "decide" /\ UNCHANGED <<outcome, lost, callOn, tokenCalls, retryCalls>>
        /\ \A q \in Requests \ {r} : pc'[q] = pc[q]
        /\ \A q \in Requests \ {r}, x \in {"pin", "newPin"} : <<q, x>> \in subs' => <<q, x>> \in subs
    BY <1>1 DEF Decide, cliVars, pinVars, TypeOK
  <2>2. \A q \in Requests \ {r} : StaleKept(q)
    BY <2>1 DEF StaleKept, Busy
  <2>3. ASSUME ~Pending(r)
        PROVE  StaleAt(r)'
    <3>1. r \in lost /\ r \in lost' /\ <<r, "pin">> \notin subs
      BY <2>1, <2>3 DEF StaleInv, StaleAt
    <3>2. \/ pc'[r] = "dead" /\ UNCHANGED subs
          \/ pc'[r] = "pin"
          \/ pc'[r] = "newPin" /\ subs' = subs \cup {<<r, "newPin">>}
      BY <1>1, <3>1 DEF Decide, TypeOK
    <3> QED
      BY <3>1, <3>2 DEF StaleAt
  <2> QED
    BY <2>1, <2>2, <2>3, StaleWorks DEF Pending
<1>2. CASE MakeExtensionsInput(r) \/ SendCredentialCommand(r)
  <2>1. Pending(r)
    BY <1>2 DEF MakeExtensionsInput, SendCredentialCommand, StaleInv, StaleAt
  <2>2. /\ UNCHANGED <<outcome, lost, subs, tokenCalls, retryCalls>>
        /\ \A q \in Requests \ {r} : pc'[q] = pc[q] /\ callOn'[q] = callOn[q]
    BY <1>2, StartCallsOf DEF MakeExtensionsInput, SendCredentialCommand, CallDevice, subVars, pinVars,
                              TypeOK
  <2>3. \A q \in Requests \ {r} : StaleKept(q)
    BY <2>2 DEF StaleKept, Busy
  <2> QED
    BY <2>1, <2>2, <2>3, StaleWorks DEF Pending
<1>3. CASE CredentialParsed(r)
  <2>1. pc[r] = "succeeded" /\ UNCHANGED <<lost, tokenCalls, retryCalls>>
    BY <1>3 DEF CredentialParsed, pinVars
  <2>2. Pending(r)
    BY <2>1 DEF StaleInv, StaleAt
  <2>3. CASE Finish(r)
    BY <2>1, <2>2, <2>3, StaleFinish
  <2> DEFINE goesOn == /\ UNCHANGED <<outcome, subs>>
                       /\ \A q \in Requests \ {r} : pc'[q] = pc[q] /\ callOn'[q] = callOn[q]
  <2>4. CASE goesOn
    <3>1. \A q \in Requests \ {r} : StaleKept(q)
      BY <2>1, <2>4 DEF StaleKept, Busy
    <3> QED
      BY <2>2, <2>4, <3>1, StaleWorks DEF Pending
  <2>5. Finish(r) \/ goesOn
    BY <1>3, StartCallsOf DEF CredentialParsed, CallDevice, cliVars, TypeOK
  <2> QED
    BY <2>3, <2>4, <2>5
<1>4. CASE CommandFails(r)
  <2>1. /\ pc[r] \in {"failed", "cancelled"} /\ pc'[r] = "end"
        /\ UNCHANGED <<lost, tokenCalls, retryCalls>>
        /\ \A q \in Requests \ {r} : pc'[q] = pc[q]
        /\ \E how \in {"cancel", "error"} : RaiseError(how, subs)
    BY <1>4 DEF CommandFails, pinVars, TypeOK
  <2>2. {"cancel", "error"} \subseteq Rejections
    BY DEF Rejections
  <2>3. CASE UNCHANGED <<subs, outcome, callOn>>
    <3>1. \A q \in Requests \ {r} : StaleKept(q)
      BY <2>1, <2>3 DEF StaleKept, Busy
    <3>2. ~Pending(r) => StaleAt(r)'
      BY <2>1, <2>3, StaleThrough DEF StaleInv, StaleAt
    <3> QED
      BY <2>3, <3>1, <3>2, StaleWorks DEF Pending
  <2>4. CASE subs' = {} /\ Revoke
    <3>1. \A q \in Requests \ {r} : pc[q] \notin Microtask
      BY <2>1 DEF MicroInv, Microtask
    <3>2. \A q \in Requests : pc'[q] \in {pc[q], "end"} /\ pc'[q] \notin Microtask
      BY <2>1, <3>1 DEF Microtask
    <3> QED
      BY <2>1, <2>4, <3>2, StaleEnds
  <2> QED
    BY <2>1, <2>2, <2>3, <2>4, RaiseErrorIdle
<1> QED
  BY <1>1, <1>2, <1>3, <1>4 DEF MicrotaskStep

LEMMA StaleInit ==
  ASSUME Init
  PROVE  StaleInv
  BY DEF Init, StaleInv, StaleAt

LEMMA StaleNext ==
  ASSUME Transport = "usb", TypeOK, LifeInv, EarlyInv, RunsInv, MicroInv, StaleInv, [Next]_vars
  PROVE  StaleInv'
<1>1. ASSUME NEW r \in Requests, CallRefused(r) \/ \E uv \in Verifications : Call(r, uv)
      PROVE  StaleInv'
  <2>1. /\ pc[r] = "new" /\ UNCHANGED <<lost, callOn, tokenCalls, retryCalls>>
        /\ pc'[r] \in {"end", "dead"} \/ Pending(r)'
        /\ \A q \in Requests \ {r} : pc'[q] = pc[q] /\ outcome'[q] = outcome[q]
        /\ \A q \in Requests, x \in {"pin", "newPin"} : <<q, x>> \in subs' => <<q, x>> \in subs
    BY <1>1 DEF Call, CallRefused, MayCall, cliVars, pinVars, subVars, TypeOK, Pending
  <2>2. \A q \in Requests \ {r} : StaleKept(q)
    BY <2>1 DEF StaleKept, Busy
  <2>3. ASSUME NEW q \in Requests, ~Pending(q)'
        PROVE  StaleAt(q)'
    <3>1. CASE q = r
      <4>1. <<r, "pin">> \notin subs
        BY <2>1 DEF EarlyInv, Early
      <4> QED
        BY <2>1, <2>3, <3>1, <4>1, StaleThrough
    <3>2. CASE q # r
      BY <2>1, <2>2, <2>3, <3>2, StaleFrame DEF StaleInv, Pending
    <3> QED
      BY <3>1, <3>2
  <2> QED
    BY <2>3 DEF StaleInv
<1>2. CASE UserStep
  BY <1>2, StaleUser
<1>3. ASSUME NEW r \in Requests, DeviceStep(r)
      PROVE  StaleInv'
  BY <1>3, StaleDevice
<1>4. ASSUME NEW r \in Requests, MicrotaskStep(r)
      PROVE  StaleInv'
  BY <1>4, StaleMicrotask
<1>5. CASE UnawaitedReturns \/ UNCHANGED vars \/ \E r \in Requests : DeviceAttached(r) \/ TimerFires(r)
  <2>1. UNCHANGED <<pc, outcome, lost, subs, callOn, tokenCalls, retryCalls>>
    BY <1>5 DEF UnawaitedReturns, DeviceAttached, TimerFires, vars, reqVars, subVars, cliVars, pinVars
  <2> QED
    BY <2>1, StaleFrameAll DEF StaleKept, Busy, Pending
<1>6. CASE Release
  <2>1. /\ UNCHANGED <<pc, outcome, lost, tokenCalls, retryCalls>> /\ subs' = {}
        /\ \A q \in Requests : callOn[q] = "closed" => callOn'[q] = "closed"
    BY <1>6 DEF Release, Revoke, reqVars, pinVars
  <2> QED
    BY <2>1, StaleFrameAll DEF StaleKept, Busy, Pending
<1> QED
  BY <1>1, <1>2, <1>3, <1>4, <1>5, <1>6 DEF Next, CallerStep

LEMMA StaleCommandsPending ==
  ASSUME Transport = "usb", StaleInv
  PROVE  CommandsPending
  BY DEF StaleInv, StaleAt, CommandsPending

-----------------------------------------------------------------------------
(* A pending request hears errors *)

HearInv ==
  \A r \in Requests :
    (r \in accepted /\ Pending(r)) \/ <<r, "request">> \in subs => <<r, "error">> \in subs

(* No promise is settled, no error subscription lost; who is approved now was asked before. *)
LEMMA HearFrame ==
  ASSUME HearInv, UNCHANGED outcome,
         \A q \in Requests : /\ q \in accepted' => q \in accepted \/ <<q, "request">> \in subs
                             /\ <<q, "request">> \in subs' => <<q, "request">> \in subs
                             /\ <<q, "error">> \in subs => <<q, "error">> \in subs'
  PROVE  HearInv'
  BY DEF HearInv, Pending

(* The session ends and nobody waits. *)
LEMMA HearIdle ==
  ASSUME subs' = {}, \A q \in Requests : ~Pending(q)'
  PROVE  HearInv'
  BY DEF HearInv

LEMMA HearError ==
  ASSUME TypeOK, LifeInv, HearInv, NEW how \in Rejections, NEW rest, rest \subseteq subs,
         \A q \in Requests : <<q, "error">> \in subs => <<q, "error">> \in rest,
         RaiseError(how, rest), UNCHANGED accepted
  PROVE  HearInv'
<1>1. CASE subs' = rest /\ UNCHANGED <<outcome, callOn>>
  BY <1>1, HearFrame
<1> QED
  BY <1>1, RaiseErrorIdle, HearIdle

LEMMA HearUser ==
  ASSUME TypeOK, LifeInv, HearInv, UserStep
  PROVE  HearInv'
<1>1. CASE Accept
  BY <1>1, HearFrame DEF Accept, Live
<1>2. CASE Deny
  <2>1. UNCHANGED accepted
    BY <1>2 DEF Deny
  <2>2. CASE Live("request") = {}
    <3>1. UNCHANGED <<outcome, subs>>
      BY <1>2, <2>2 DEF Deny
    <3> QED
      BY <2>1, <3>1, HearFrame
  <2>3. CASE Live("request") # {}
    <3>1. RaiseError("notAllowed", subs \ {<<Min(Live("request")), "request">>})
      BY <1>2, <2>3 DEF Deny
    <3>2. "notAllowed" \in Rejections
      BY DEF Rejections
    <3> QED
      BY <2>1, <3>1, <3>2, HearError
  <2> QED
    BY <2>2, <2>3
<1>3. CASE PinAvailable
  <2>1. UNCHANGED <<outcome, accepted>> /\ subs' = subs \ (Live("newPin") \X {"newPin"})
    BY <1>3 DEF PinAvailable
  <2> QED
    BY <2>1, HearFrame
<1>4. CASE HandlerGivesNothing
  BY <1>4, HearFrame DEF HandlerGivesNothing, reqVars, subVars
<1>5. CASE CancelEvent \/ ErrorEvent
  <2> DEFINE rest == subs \ (Requests \X {"cancel"})
  <2>1. UNCHANGED accepted
    BY <1>5 DEF CancelEvent, ErrorEvent
  <2>2. \/ UNCHANGED outcome /\ subs' \in {subs, rest}
        \/ \E how \in {"unknown", "cancel", "error"}, s \in {subs, rest} : RaiseError(how, s)
    BY <1>5 DEF CancelEvent, ErrorEvent
  <2>3. {"unknown", "cancel", "error"} \subseteq Rejections
    BY DEF Rejections
  <2>4. ASSUME NEW s \in {subs, rest}
        PROVE  s \subseteq subs /\ \A q \in Requests, x \in {"error"} : <<q, x>> \in subs => <<q, x>> \in s
    BY <2>4
  <2>5. CASE UNCHANGED outcome /\ subs' \in {subs, rest}
    BY <2>1, <2>4, <2>5, HearFrame
  <2> QED
    BY <2>1, <2>2, <2>3, <2>4, <2>5, HearError
<1>6. ASSUME NEW opened \in SUBSET Requests, SelectDevice(opened)
      PROVE  HearInv'
  <2>1. UNCHANGED <<outcome, accepted>> /\ subs' = subs \ (Requests \X {"device", "enumerate"})
    BY <1>6 DEF SelectDevice
  <2> QED
    BY <2>1, HearFrame
<1> QED
  BY <1>1, <1>2, <1>3, <1>4, <1>5, <1>6 DEF UserStep

(* The success path is taken for a pending request, the only one. *)
LEMMA HearFinish ==
  ASSUME TypeOK, LifeInv, NEW r \in Requests, Pending(r), Finish(r)
  PROVE  HearInv'
<1>1. subs' = {}
  BY DEF Finish
<1> QED
  BY <1>1, FinishIdle, HearIdle

LEMMA HearDevice ==
  ASSUME TypeOK, LifeInv, HearInv, CommandsPending, NEW r \in Requests, DeviceStep(r)
  PROVE  HearInv'
<1>1. CASE ExtensionsOutput(r) /\ Finish(r) /\ ~(Transport = "usb" /\ callOn[r] = "closed")
  <2>1. Pending(r)
    BY <1>1 DEF ExtensionsOutput, CommandsPending
  <2> QED
    BY <1>1, <2>1, HearFinish
<1>2. CASE UNCHANGED <<outcome, subs, accepted>>
  BY <1>2, HearFrame
<1> QED
  BY <1>1, <1>2 DEF DeviceStep, InfoAnswered, HandlerThrows, RetriesRead, SetPinReturns, TokenGranted,
                    PinInvalid, PinBlocked, TokenFails, PinInvalidReported, ExtensionsBuilt,
                    CredentialReturns, ExtensionsOutput, reqVars, subVars

LEMMA HearMicrotask ==
  ASSUME TypeOK, LifeInv, HearInv, CommandsPending, NEW r \in Requests, MicrotaskStep(r)
  PROVE  HearInv'
<1>1. CASE Decide(r)
  <2>1. /\ UNCHANGED <<outcome, accepted>> /\ subs \subseteq subs'
        /\ subs' \subseteq subs \cup {<<r, "pin">>, <<r, "newPin">>}
    BY <1>1 DEF Decide
  <2> QED
    BY <2>1, HearFrame
<1>2. CASE MakeExtensionsInput(r) \/ SendCredentialCommand(r)
  BY <1>2, HearFrame DEF MakeExtensionsInput, SendCredentialCommand, subVars
<1>3. CASE CredentialParsed(r)
  <2>1. Pending(r) /\ UNCHANGED accepted
    BY <1>3 DEF CredentialParsed, CommandsPending
  <2>2. Finish(r) \/ UNCHANGED <<outcome, subs>>
    BY <1>3 DEF CredentialParsed
  <2> QED
    BY <2>1, <2>2, HearFrame, HearFinish
<1>4. CASE CommandFails(r)
  <2>1. UNCHANGED accepted /\ \E how \in {"cancel", "error"} : RaiseError(how, subs)
    BY <1>4 DEF CommandFails
  <2>2. {"cancel", "error"} \subseteq Rejections
    BY DEF Rejections
  <2> QED
    BY <2>1, <2>2, HearError
<1> QED
  BY <1>1, <1>2, <1>3, <1>4 DEF MicrotaskStep

LEMMA HearInit ==
  ASSUME Init
  PROVE  HearInv
  BY DEF Init, HearInv

LEMMA HearNext ==
  ASSUME ~MayRelease, TypeOK, LifeInv, HearInv, CommandsPending, [Next]_vars
  PROVE  HearInv'
<1>1. ASSUME NEW r \in Requests, NEW uv \in Verifications, Call(r, uv)
      PROVE  HearInv'
  <2>1. /\ pc[r] = "new" /\ UNCHANGED accepted
        /\ subs' = subs \cup {<<r, "cancel">>, <<r, "error">>, <<r, "request">>}
        /\ \A q \in Requests \ {r} : outcome'[q] = outcome[q]
    BY <1>1 DEF Call, MayCall, TypeOK
  <2> QED
    BY <2>1 DEF HearInv, Pending
<1>2. ASSUME NEW r \in Requests, CallRefused(r)
      PROVE  HearInv'
  <2>1. /\ pc[r] = "new" /\ UNCHANGED <<accepted, subs>>
        /\ \A q \in Requests \ {r} : outcome'[q] = outcome[q]
    BY <1>2 DEF CallRefused, MayCall, subVars, TypeOK
  <2>2. r \notin accepted /\ <<r, "request">> \notin subs
    BY <2>1 DEF LifeInv, LifeAt
  <2> QED
    BY <2>1, <2>2 DEF HearInv, Pending
<1>3. CASE UserStep
  BY <1>3, HearUser
<1>4. ASSUME NEW r \in Requests, DeviceStep(r)
      PROVE  HearInv'
  BY <1>4, HearDevice
<1>5. ASSUME NEW r \in Requests, MicrotaskStep(r)
      PROVE  HearInv'
  BY <1>5, HearMicrotask
<1>6. CASE UnawaitedReturns \/ UNCHANGED vars \/ \E r \in Requests : DeviceAttached(r) \/ TimerFires(r)
  BY <1>6, HearFrame DEF UnawaitedReturns, DeviceAttached, TimerFires, vars, reqVars, subVars
<1> QED
  BY <1>1, <1>2, <1>3, <1>4, <1>5, <1>6 DEF Next, CallerStep, Release

LEMMA HearEnough ==
  ASSUME TypeOK, HearInv
  PROVE  PendingHearsErrors
  BY DEF TypeOK, HearInv, PendingHearsErrors

-----------------------------------------------------------------------------
(* The theorems *)

(* What holds of a security key on usb, modal or console. *)
UsbInv == TypeOK /\ LifeInv /\ EarlyInv /\ MicroInv /\ RunsInv /\ StaleInv

LEMMA UsbInit ==
  ASSUME Init
  PROVE  UsbInv
  BY InitType, LifeInit, EarlyInit, MicroInit, RunsInit, StaleInit DEF UsbInv

LEMMA UsbNext ==
  ASSUME ~Overlap, Transport = "usb", UsbInv, [Next]_vars
  PROVE  UsbInv'
<1> USE DEF UsbInv
<1>1. CommandsPending
  BY StaleCommandsPending
<1>2. TypeOK' /\ LifeInv' /\ EarlyInv' /\ MicroInv'
  BY NextType, LifeNext, EarlyNext, MicroNext
<1>3. RunsInv' /\ StaleInv'
  BY <1>1, RunsNext, StaleNext
<1> QED
  BY <1>2, <1>3

(* One request at a time and no release(): a pending request the user approved hears of errors,
   in console mode on every transport, with the default modal on usb.  There the device calls
   of a request end with its session, so that no late answer completes it a second time and
   takes the subscriptions of the next one down with it. *)
THEOREM PendingHearsHolds ==
  ASSUME ~Overlap, ~MayRelease, ~DefaultModal \/ Transport = "usb"
  PROVE  Spec => []PendingHearsErrors
<1>1. CASE ~DefaultModal
  <2> DEFINE Inv == TypeOK /\ LifeInv /\ ConsoleInv /\ HearInv
  <2>1. Init => Inv
    BY InitType, LifeInit, ConsoleInit, HearInit
  <2>2. Inv /\ [Next]_vars => Inv'
    BY <1>1, NextType, LifeNext, ConsoleNext, ConsoleCommandsPending, HearNext
  <2>3. Inv => PendingHearsErrors
    BY HearEnough
  <2> HIDE DEF Inv
  <2> QED
    BY <2>1, <2>2, <2>3, PTL DEF Spec
<1>2. CASE Transport = "usb"
  <2> DEFINE Inv == UsbInv /\ HearInv
  <2>1. Init => Inv
    BY UsbInit, HearInit
  <2>2. Inv /\ [Next]_vars => Inv'
    BY <1>2, UsbNext, StaleCommandsPending, HearNext DEF UsbInv
  <2>3. Inv => PendingHearsErrors
    BY HearEnough DEF UsbInv
  <2> HIDE DEF Inv
  <2> QED
    BY <2>1, <2>2, <2>3, PTL DEF Spec
<1> QED
  BY <1>1, <1>2

(* The client implements Ceremony on usb with the default modal too: one request at a time, a
   promise settles once and is granted only on a command sent for it with the user's approval,
   although settled requests may still have PIN prompts and device calls open. *)
THEOREM CeremonyUsbHolds ==
  ASSUME ~Overlap, Transport = "usb"
  PROVE  Spec => CeremonySpec
<1>1. Init => UsbInv /\ C!Init
  BY UsbInit, CeremonyInit
<1>2. UsbInv /\ [Next]_vars => UsbInv'
  BY UsbNext
<1>3. UsbInv /\ [Next]_vars => [C!Next]_(C!vars)
  BY StaleCommandsPending, CeremonyStep DEF UsbInv
<1> QED
  BY <1>1, <1>2, <1>3, PTL DEF Spec, CeremonySpec, C!Spec
=============================================================================
