----------------------------- MODULE Fido2Client -----------------------------
(***************************************************************************)
(* The request life cycle of Fido2Client (src/client/client.ts): what      *)
(* makeCredential and getAssertion do between the call and the moment      *)
(* their promise settles, together with the parts of Ctap2Session          *)
(* (client/session.ts), Fido2DeviceCli (fido2/fido2-device-cli.ts) and the *)
(* default modal (modal/default.ts) they share.                            *)
(*                                                                         *)
(* One client object serves every request.  Its RxJS subjects (request,    *)
(* device, pin, cancel, error, keepAlive), its Subscription `subs', the    *)
(* session timer and the open device cli are therefore shared, and what a  *)
(* request leaves behind is seen by the next one.                          *)
(*                                                                         *)
(* Scheduling.  JavaScript runs a handler to completion and then its       *)
(* microtasks, before the next event.  A request whose continuation is     *)
(* such a microtask has its pc in Microtask, and every event (a device     *)
(* answer, a timer, a user or IPC event, a call) waits for those: guard    *)
(* NoMicrotask.                                                            *)
(***************************************************************************)
EXTENDS Integers, FiniteSets, FiniteSetsExt

CONSTANTS
  MaxRequests,   \* calls of makeCredential / getAssertion, numbered in call order
  DefaultModal,  \* options.defaultModal: events go to the modal, or to Handlers
  Handlers,      \* the handlers of options.event that answer an event
  Transport,     \* transport of the selected authenticator: "usb", "ble", "nfc"
  Authenticators, \* options records of the authenticators the user may select
  Overlap,       \* may a request be called while an earlier promise is pending?
  MayRelease,    \* may the application call release()?
  MaxPinCalls,   \* bound: getPinToken/getPinRetries calls of a request in flight
  MaxPrompts,    \* bound: unanswered calls of one handler
  MaxTries       \* PIN retries an authenticator grants

(* The handlers of the console-mode switch, in the order of its cases. *)
Prompts == <<"onRequest", "onEnterPin", "onSetPin", "onDeviceAttached", "onPinInvalid">>
PromptNames == {Prompts[i] : i \in DOMAIN Prompts}

(* authenticatorGetInfo options: uv and clientPin may be absent, off or on. *)
Switch == {"absent", "off", "on"}
AuthenticatorOptions ==
  [uv : Switch, clientPin : Switch, pinUvAuthToken : BOOLEAN, fido20 : BOOLEAN]

ASSUME ConstantsAssumption ==
  /\ MaxRequests \in Nat \ {0}
  /\ DefaultModal \in BOOLEAN
  /\ Overlap \in BOOLEAN
  /\ MayRelease \in BOOLEAN
  /\ Authenticators \subseteq AuthenticatorOptions
  /\ Handlers \subseteq PromptNames
  /\ Transport \in {"usb", "ble", "nfc"}
  /\ MaxPinCalls \in Nat \ {0}
  /\ MaxPrompts \in Nat \ {0}
  /\ MaxTries \in Nat \ {0}

Requests == 1..MaxRequests

VARIABLES
  (* One request: its continuation and its promise. *)
  pc,          \* where the continuation of the request stands
  outcome,     \* the caller's promise
  wants,       \* userVerification the relying party asked for
  plan,        \* user verification path chosen from the authenticator's options
  method,      \* how the user was verified: opt.uv, a PIN token, or not at all
  lost,        \* requests whose getPinUvAuthToken promise can no longer resolve
  sent,        \* requests whose credential command went to an authenticator
  accepted,    \* requests that saw a positive answer
  (* Shared subscriptions. *)
  subs,        \* this.subs: live <<request, subject>> subscriptions
  kaSubs,      \* keepAlive subscriptions, which are not part of this.subs
  (* Timers. *)
  armed,       \* requests whose setTimeout is pending
  timeoutRef,  \* this.session.timeout: the request whose timer it holds, or 0
  (* The device cli. *)
  available,   \* Fido2DeviceCli.available
  ongoing,     \* ongoingTransaction of the open cli
  callOn,      \* the cli object the device calls of a request run on
  unawaited,   \* is a setPin command nobody awaits in flight on the open cli?
  (* PIN entry. *)
  tokenCalls,  \* getPinToken calls in flight
  retryCalls,  \* getPinRetries calls in flight after an invalid PIN
  blocked,     \* requests told pin-auth-blocked or pin-blocked
  tries,       \* PIN retries the authenticator has left
  prompts      \* unanswered calls of each handler (console mode)

reqVars   == <<pc, outcome, wants, plan, method, lost, sent, accepted>>
subVars   == <<subs, kaSubs>>
timerVars == <<armed, timeoutRef>>
cliVars   == <<available, ongoing, callOn, unawaited>>
pinVars   == <<tokenCalls, retryCalls, blocked, tries>>
vars == <<reqVars, subVars, timerVars, cliVars, pinVars, prompts>>

Subjects == {"cancel", "error", "request", "device", "enumerate", "newPin", "pin"}
Microtask == {"decide", "ready", "send", "succeeded", "failed", "cancelled"}
InFlight == {"info", "retries", "setPin", "exts", "credential", "output"}
PCs == {"new", "asked", "select", "newPin", "pin", "end", "dead", "silent"}
       \cup Microtask \cup InFlight
Rejections == {"invalid", "notAllowed", "cancel", "unknown", "error"}
Outcomes == {"none", "pending", "resolved"} \cup Rejections
(* The code compares with "discouraged" only: "preferred" is treated as "required". *)
Verifications == {"required", "discouraged"}
Methods == {"uv", "token", "none"}
Plans == {"undecided", "uv", "pin", "newPin", "none", "deprecated", "incapable"}

-----------------------------------------------------------------------------
(* Subscriptions and calls *)

NoMicrotask == \A r \in Requests : pc[r] \notin Microtask

Live(subject) == {r \in Requests : <<r, subject>> \in subs}

Pending(r) == outcome[r] = "pending"

(* Device calls the request is waiting for. *)
Calls(r) == tokenCalls[r] + retryCalls[r] + (IF pc[r] \in InFlight THEN 1 ELSE 0)

(* cbor() of the open cli sets ongoingTransaction first of all. *)
StartCalls(S) ==
  /\ callOn' = [r \in Requests |-> IF r \in S THEN "current" ELSE callOn[r]]
  /\ ongoing' = (ongoing \/ S # {})

(* Mutated form of EndCall: close() leaves the HID handle open. *)
EndCallAfterClose(r, answered) ==
  /\ callOn' = [callOn EXCEPT ![r] = IF Calls(r) = 1 THEN "idle" ELSE @]
  /\ \/ ongoing' = (ongoing /\ ~(answered /\ callOn[r] = "current"))
     \/ ~answered /\ Transport = "ble" /\ callOn[r] = "current" /\ ongoing' = FALSE

(***************************************************************************)
(* One device call of r ends.  An answer (a CTAP status, good or bad)      *)
(* clears ongoingTransaction of the cli it ran on.  Any other failure      *)
(* (transport error, message too large) leaves the flag set; on BLE some   *)
(* of them clear it.  A closed HID handle gives no answer any more;        *)
(* closing a BLE or NFC device does not stop an answer under way.          *)
(***************************************************************************)
EndCall(r, answered) ==
  /\ answered => ~(Transport = "usb" /\ callOn[r] = "closed")
  /\ callOn' = [callOn EXCEPT ![r] = IF Calls(r) = 1 THEN "idle" ELSE @]
  /\ \/ ongoing' = (ongoing /\ ~(answered /\ callOn[r] = "current"))
     \/ ~answered /\ Transport = "ble" /\ callOn[r] = "current" /\ ongoing' = FALSE

(* Mutated form of Revoke: the session's timer is not cleared. *)
RevokeKeepsTimer ==
  /\ UNCHANGED armed
  /\ available' = FALSE
  /\ ongoing' = FALSE
  /\ unawaited' = FALSE
  /\ callOn' = [r \in Requests |-> IF callOn[r] = "current" THEN "closed" ELSE callOn[r]]

(* Ctap2Session.revoke: clear the session's timer, close the open cli. *)
Revoke ==
  /\ armed' = armed \ {timeoutRef}
  /\ available' = FALSE
  /\ ongoing' = FALSE
  /\ unawaited' = FALSE
  /\ callOn' = [r \in Requests |-> IF callOn[r] = "current" THEN "closed" ELSE callOn[r]]

Settle(r, how) == [outcome EXCEPT ![r] = IF @ = "pending" THEN how ELSE @]

(***************************************************************************)
(* error.next(how): the first subscriber runs onError, which revokes the   *)
(* session, unsubscribes everything and rejects its own request; the other *)
(* subscribers are closed by then.  `rest' is what the event that raised   *)
(* the error has left of subs.                                             *)
(***************************************************************************)
RaiseError(how, rest) ==
  LET listeners == {r \in Requests : <<r, "error">> \in rest}
  IN IF listeners = {}
     THEN subs' = rest /\ UNCHANGED <<outcome, armed, cliVars>>
     ELSE subs' = {} /\ outcome' = Settle(Min(listeners), how) /\ Revoke

(***************************************************************************)
(* clientSubject.next of an event that wants an answer.  In console mode   *)
(* the switch of the obs2 handler runs the first registered handler from   *)
(* the event's own case on: a missing handler falls through to the next    *)
(* case.  MaxPrompts bounds the count of unanswered calls.                 *)
(***************************************************************************)
Ask(handler) ==
  LET reached == {i \in DOMAIN Prompts :
                    /\ Prompts[i] \in Handlers
                    /\ \E j \in 1..i : Prompts[j] = handler}
  IN prompts' = IF DefaultModal \/ reached = {} THEN prompts
                ELSE [prompts EXCEPT ![Prompts[Min(reached)]] =
                        IF @ < MaxPrompts THEN @ + 1 ELSE @]

(* The user's answer: an IPC event of the modal, or a handler's promise. *)
Answer(handlers) ==
  IF DefaultModal THEN UNCHANGED prompts
  ELSE \E h \in handlers : /\ prompts[h] > 0
                           /\ prompts' = [prompts EXCEPT ![h] = @ - 1]

PinHandlers == {"onEnterPin", "onSetPin", "onPinInvalid"}

-----------------------------------------------------------------------------
(* The caller *)

Init ==
  /\ pc = [r \in Requests |-> "new"]
  /\ outcome = [r \in Requests |-> "none"]
  /\ wants = [r \in Requests |-> "required"]
  /\ plan = [r \in Requests |-> "undecided"]
  /\ method = [r \in Requests |-> "none"]
  /\ lost = {} /\ sent = {} /\ accepted = {}
  /\ subs = {} /\ kaSubs = {}
  /\ armed = {} /\ timeoutRef = 0
  /\ available = FALSE /\ ongoing = FALSE /\ unawaited = FALSE
  /\ callOn = [r \in Requests |-> "idle"]
  /\ tokenCalls = [r \in Requests |-> 0]
  /\ retryCalls = [r \in Requests |-> 0]
  /\ blocked = {} /\ tries = MaxTries
  /\ prompts = [h \in PromptNames |-> 0]

(* Requests are numbered in the order of the calls. *)
MayCall(r) ==
  /\ NoMicrotask
  /\ pc[r] = "new" /\ \A q \in 1..(r - 1) : pc[q] # "new"
  /\ Overlap \/ \A q \in Requests : ~Pending(q)

(* A valid call arms the timer, subscribes and asks for the user's consent. *)
Call(r, uv) ==
  /\ MayCall(r)
  /\ pc' = [pc EXCEPT ![r] = "asked"]
  /\ outcome' = [outcome EXCEPT ![r] = "pending"]
  /\ wants' = [wants EXCEPT ![r] = uv]
  /\ armed' = armed \cup {r} /\ timeoutRef' = r
  /\ subs' = subs \cup {<<r, "cancel">>, <<r, "error">>, <<r, "request">>}
  /\ Ask("onRequest")
  /\ UNCHANGED <<plan, method, lost, sent, accepted, kaSubs,
                 cliVars, pinVars>>

(* Validation rejects the call, or throws in the executor: then nobody settles it. *)
CallRefused(r) ==
  /\ MayCall(r)
  /\ \/ pc' = [pc EXCEPT ![r] = "end"] /\ outcome' = [outcome EXCEPT ![r] = "invalid"]
     \/ pc' = [pc EXCEPT ![r] = "dead"] /\ outcome' = [outcome EXCEPT ![r] = "pending"]
  /\ UNCHANGED <<wants, plan, method, lost, sent, accepted, subVars,
                 timerVars, cliVars, pinVars, prompts>>

(* The timeout event reaches onTimeout or the modal window; nothing rejects. *)
TimerFires(r) ==
  /\ NoMicrotask
  /\ r \in armed
  /\ armed' = armed \ {r}
  /\ UNCHANGED <<reqVars, subVars, timeoutRef, cliVars, pinVars, prompts>>

(* release(): device.release() only throws; then revoke and unsubscribe. *)
Release ==
  /\ MayRelease
  /\ NoMicrotask
  /\ \E r \in Requests : outcome[r] # "none"
  /\ Revoke
  /\ subs' = {}
  /\ UNCHANGED <<reqVars, kaSubs, timeoutRef, pinVars, prompts>>

-----------------------------------------------------------------------------
(* The user: answers of the handlers, or IPC events of the default modal *)

(* request.next(TRUE): every listening request starts getPinUvAuthToken. *)
Accept ==
  LET listeners == Live("request")
  IN /\ NoMicrotask
     /\ Answer({"onRequest"})
     /\ pc' = [r \in Requests |-> IF r \in listeners THEN "select" ELSE pc[r]]
     /\ subs' = (subs \ (listeners \X {"request"}))
                  \cup (listeners \X {"device", "enumerate"})
     /\ kaSubs' = kaSubs \cup listeners
     /\ accepted' = accepted \cup listeners
     /\ UNCHANGED <<outcome, wants, plan, method, lost, sent, timerVars, cliVars, pinVars>>

(* Mutated form of Deny: the handler does not return after raising the error. *)
DenyWithoutReturn ==
  LET listeners == Live("request")
      first == Min(listeners)
  IN /\ NoMicrotask
     /\ Answer({"onRequest"})
     /\ listeners # {}
     /\ pc' = [pc EXCEPT ![first] = "select"]
     /\ subs' = {first} \X {"device", "enumerate"}
     /\ outcome' = Settle(first, "notAllowed")
     /\ Revoke
     /\ UNCHANGED <<wants, plan, method, lost, sent, accepted, kaSubs, timeoutRef, pinVars>>

(* request.next(FALSE): the first listener raises the error that ends them all. *)
Deny ==
  LET listeners == Live("request")
  IN /\ NoMicrotask
     /\ Answer({"onRequest"})
     /\ pc' = [r \in Requests |->
                 IF listeners # {} /\ r = Min(listeners) THEN "end" ELSE pc[r]]
     /\ IF listeners = {} THEN UNCHANGED <<subs, outcome, armed, cliVars>>
        ELSE RaiseError("notAllowed", subs \ {<<Min(listeners), "request">>})
     /\ UNCHANGED <<wants, plan, method, lost, sent, accepted, kaSubs,
                    timeoutRef, pinVars>>

(* An attached device is reported once per enumeration that is listening. *)
DeviceAttached(r) ==
  /\ NoMicrotask
  /\ <<r, "enumerate">> \in subs
  /\ prompts["onDeviceAttached"] < MaxPrompts
  /\ Ask("onDeviceAttached")
  /\ UNCHANGED <<reqVars, subVars, timerVars, cliVars, pinVars>>

(***************************************************************************)
(* device.next: every listener opens the device (those in `opened'         *)
(* succeed) and asks the authenticator for its info on the cli that is     *)
(* open in the end; enumerations stop.  A failed open rejects              *)
(* getPinUvAuthToken but the handler goes on.                              *)
(***************************************************************************)
SelectDevice(opened) ==
  LET listeners == Live("device")
      open == available \/ opened # {}
  IN /\ NoMicrotask
     /\ opened \subseteq listeners
     /\ Answer({"onDeviceAttached"})
     /\ subs' = subs \ (Requests \X {"device", "enumerate"})
     /\ available' = open
     /\ lost' = lost \cup (listeners \ opened)
     /\ pc' = [r \in Requests |-> IF r \notin listeners THEN pc[r]
                                  ELSE IF open THEN "info" ELSE "dead"]
     /\ callOn' = [r \in Requests |->
                     IF r \in listeners /\ open THEN "current"
                     ELSE IF opened # {} /\ callOn[r] = "current" THEN "former"
                     ELSE callOn[r]]
     /\ ongoing' = IF listeners # {} /\ open THEN TRUE ELSE ongoing
     /\ unawaited' = (unawaited /\ opened = {})
     /\ UNCHANGED <<outcome, wants, plan, method, sent, accepted, kaSubs,
                    timerVars, pinVars>>

(* Mutated form of PinAvailable: a PIN reader is subscribed for one PIN only. *)
PinAvailableOnce ==
  LET readers == Live("pin")
  IN /\ NoMicrotask
     /\ Answer(PinHandlers)
     /\ Live("newPin") = {} /\ available
     /\ \A r \in readers : tokenCalls[r] + retryCalls[r] < MaxPinCalls
     /\ subs' = subs \ (readers \X {"pin"})
     /\ StartCalls(readers)
     /\ tokenCalls' = [r \in Requests |->
                         IF r \in readers THEN tokenCalls[r] + 1 ELSE tokenCalls[r]]
     /\ UNCHANGED <<pc, outcome, wants, plan, method, lost, sent, accepted, kaSubs,
                    timerVars, available, unawaited, retryCalls, blocked, tries>>

(***************************************************************************)
(* pin.next: requests waiting for a new PIN set it, and every request that *)
(* subscribed in internalGetPinUvAuthToken (it never unsubscribes) asks    *)
(* for a PIN token with it.                                                *)
(***************************************************************************)
PinAvailable ==
  LET readers == Live("pin")
      setters == Live("newPin")
  IN /\ NoMicrotask
     /\ Answer(PinHandlers)
     /\ \A r \in readers : tokenCalls[r] + retryCalls[r] < MaxPinCalls
     /\ subs' = subs \ (setters \X {"newPin"})
     /\ IF available
        THEN /\ StartCalls(readers \cup setters)
             /\ tokenCalls' = [r \in Requests |->
                                 IF r \in readers THEN tokenCalls[r] + 1 ELSE tokenCalls[r]]
             /\ pc' = [r \in Requests |-> IF r \in setters THEN "setPin" ELSE pc[r]]
             /\ UNCHANGED <<plan, lost>>
        ELSE /\ pc' = [r \in Requests |-> IF r \in setters THEN "decide" ELSE pc[r]]
             /\ plan' = [r \in Requests |-> IF r \in setters THEN "pin" ELSE plan[r]]
             /\ lost' = lost \cup setters \cup {r \in readers : pc[r] = "pin"}
             /\ UNCHANGED <<callOn, ongoing, tokenCalls>>
     /\ UNCHANGED <<outcome, wants, method, sent, accepted, kaSubs, timerVars,
                    available, unawaited, retryCalls, blocked, tries>>

(* A handler resolves without a device, or rejects: no event follows. *)
HandlerGivesNothing ==
  /\ NoMicrotask
  /\ ~DefaultModal
  /\ Answer(PromptNames \ {"onRequest"})
  /\ UNCHANGED <<reqVars, subVars, timerVars, cliVars, pinVars>>

(***************************************************************************)
(* cancel.next (modal only): keep-alive subscriptions end, and the first   *)
(* cancel of a request asks the open cli to cancel.  Without a cli or a    *)
(* transaction the cancel is raised as an error; NFC ignores it; the send  *)
(* of the cancel packet may fail.                                          *)
(***************************************************************************)
CancelEvent ==
  LET rest == subs \ (Requests \X {"cancel"})
  IN /\ NoMicrotask
     /\ DefaultModal
     /\ kaSubs' = {}
     /\ IF rest = subs \/ (available /\ Transport = "nfc")
        THEN subs' = rest /\ UNCHANGED <<outcome, armed, cliVars>>
        ELSE IF available /\ ongoing
        THEN \/ subs' = rest /\ UNCHANGED <<outcome, armed, cliVars>>
             \/ RaiseError("unknown", rest)
        ELSE RaiseError("cancel", rest)
     /\ UNCHANGED <<pc, wants, plan, method, lost, sent, accepted,
                    timeoutRef, pinVars, prompts>>

(* The modal window reports an error. *)
ErrorEvent ==
  /\ NoMicrotask
  /\ DefaultModal
  /\ RaiseError("error", subs)
  /\ UNCHANGED <<pc, wants, plan, method, lost, sent, accepted, kaSubs,
                 timeoutRef, pinVars, prompts>>

-----------------------------------------------------------------------------
(* The authenticator's answers, and the microtasks that follow them *)

(* Mutated form of Plan: without a PIN, nobody asks what the relying party wants. *)
PlanForgetsRequired(o, uv) ==
  CASE o.uv = "on" /\ (o.pinUvAuthToken \/ o.fido20)  -> "uv"
    [] o.uv = "on" /\ ~(o.pinUvAuthToken \/ o.fido20) -> "deprecated"
    [] o.uv # "on" /\ o.clientPin = "on"              -> "pin"
    [] OTHER -> "none"

(* The decision table of getPinUvAuthToken and internalGetPinUvAuthToken. *)
Plan(o, uv) ==
  CASE o.uv = "on" /\ (o.pinUvAuthToken \/ o.fido20)  -> "uv"
    [] o.uv = "on" /\ ~(o.pinUvAuthToken \/ o.fido20) -> "deprecated"
    [] o.uv # "on" /\ o.clientPin = "on"              -> "pin"
    [] o.uv # "on" /\ o.clientPin # "on" /\ uv = "discouraged" -> "none"
    [] o.uv # "on" /\ o.clientPin = "off" /\ uv # "discouraged" -> "newPin"
    [] OTHER -> "incapable"

(* The retry counters are read before the plan is followed. *)
ReadsRetries(o) == "on" \in {o.uv, o.clientPin}

(* getInfo succeeds; setMaxMsgSize needs an open cli. *)
InfoAnswered(r, o) ==
  /\ NoMicrotask
  /\ pc[r] = "info"
  /\ plan' = [plan EXCEPT ![r] = Plan(o, wants[r])]
  /\ pc' = [pc EXCEPT ![r] = IF ~available THEN "dead"
                             ELSE IF ReadsRetries(o) THEN "retries" ELSE "decide"]
  /\ IF available /\ ReadsRetries(o)
     THEN ~(Transport = "usb" /\ callOn[r] = "closed") /\ StartCalls({r})
     ELSE EndCall(r, TRUE)
  /\ UNCHANGED <<outcome, wants, method, lost, sent, accepted, subVars,
                 timerVars, available, unawaited, pinVars, prompts>>

(* getInfo or the building of the extension inputs throws: the handler ends there. *)
HandlerThrows(r) ==
  /\ NoMicrotask
  /\ pc[r] \in {"info", "exts"}
  /\ pc' = [pc EXCEPT ![r] = "dead"]
  /\ \E answered \in BOOLEAN : EndCall(r, answered)
  /\ UNCHANGED <<outcome, wants, plan, method, lost, sent, accepted, subVars,
                 timerVars, available, unawaited, pinVars, prompts>>

(* The retry counters arrive, or a failure rejects getPinUvAuthToken; both go on. *)
RetriesRead(r) ==
  /\ NoMicrotask
  /\ pc[r] = "retries"
  /\ pc' = [pc EXCEPT ![r] = "decide"]
  /\ \/ EndCall(r, TRUE) /\ UNCHANGED lost
     \/ \E answered \in BOOLEAN : EndCall(r, answered) /\ lost' = lost \cup {r}
  /\ UNCHANGED <<outcome, wants, plan, method, sent, accepted, subVars,
                 timerVars, available, unawaited, pinVars, prompts>>

(* Follow the plan: no PIN needed, ask for a new PIN, ask for the PIN, or give up. *)
Decide(r) ==
  /\ pc[r] = "decide"
  /\ plan' = [plan EXCEPT ![r] = "undecided"]
  /\ \/ /\ plan[r] \in {"uv", "none"}
        /\ pc' = [pc EXCEPT ![r] = IF r \in lost THEN "dead" ELSE "ready"]
        /\ method' = [method EXCEPT ![r] = plan[r]]
        /\ UNCHANGED <<subs, prompts>>
     \/ /\ plan[r] \in {"pin", "newPin"}
        /\ pc' = [pc EXCEPT ![r] = plan[r]]
        /\ subs' = subs \cup {<<r, plan[r]>>}
        /\ Ask("onEnterPin")
        /\ UNCHANGED method
     \/ /\ plan[r] \in {"deprecated", "incapable"}
        /\ pc' = [pc EXCEPT ![r] = "dead"]
        /\ UNCHANGED <<subs, prompts, method>>
  /\ UNCHANGED <<outcome, wants, lost, sent, accepted, kaSubs, timerVars, cliVars, pinVars>>

(***************************************************************************)
(* setPin resolves after the key agreement: the setPin command itself is   *)
(* sent but not awaited.  A failure rejects getPinUvAuthToken; either way  *)
(* the PIN is asked for next.                                              *)
(***************************************************************************)
SetPinReturns(r) ==
  /\ NoMicrotask
  /\ pc[r] = "setPin"
  /\ pc' = [pc EXCEPT ![r] = "decide"]
  /\ plan' = [plan EXCEPT ![r] = "pin"]
  /\ \/ /\ available
        /\ ~(Transport = "usb" /\ callOn[r] = "closed")
        /\ callOn' = [callOn EXCEPT ![r] = "idle"]
        /\ ongoing' = TRUE /\ unawaited' = TRUE
        /\ UNCHANGED lost
     \/ /\ \E answered \in BOOLEAN : EndCall(r, answered)
        /\ lost' = lost \cup {r}
        /\ UNCHANGED unawaited
  /\ UNCHANGED <<outcome, wants, method, sent, accepted, subVars, timerVars,
                 available, pinVars, prompts>>

(* The setPin command nobody awaits ends. *)
UnawaitedReturns ==
  /\ NoMicrotask
  /\ unawaited
  /\ unawaited' = FALSE
  /\ ongoing' \in {FALSE, ongoing}
  /\ UNCHANGED <<reqVars, subVars, timerVars, available, callOn, pinVars, prompts>>

(* A PIN token resolves getPinUvAuthToken, unless that has been settled already. *)
TokenGranted(r) ==
  /\ NoMicrotask
  /\ tokenCalls[r] > 0 /\ tries > 0
  /\ tokenCalls' = [tokenCalls EXCEPT ![r] = @ - 1]
  /\ EndCall(r, TRUE)
  /\ tries' = MaxTries
  /\ IF pc[r] = "pin" /\ r \notin lost
     THEN pc' = [pc EXCEPT ![r] = "ready"] /\ method' = [method EXCEPT ![r] = "token"]
     ELSE UNCHANGED <<pc, method>>
  /\ UNCHANGED <<outcome, wants, plan, lost, sent, accepted, subVars, timerVars,
                 available, unawaited, retryCalls, blocked, prompts>>

(* A wrong PIN costs a try; the retries left are read before the user is told. *)
PinInvalid(r) ==
  /\ NoMicrotask
  /\ tokenCalls[r] > 0 /\ tries > 1
  /\ tokenCalls' = [tokenCalls EXCEPT ![r] = @ - 1]
  /\ tries' = tries - 1
  /\ IF available
     THEN /\ ~(Transport = "usb" /\ callOn[r] = "closed")
          /\ StartCalls({r})
          /\ retryCalls' = [retryCalls EXCEPT ![r] = @ + 1]
     ELSE EndCall(r, TRUE) /\ UNCHANGED retryCalls
  /\ UNCHANGED <<reqVars, subVars, timerVars, available, unawaited, blocked, prompts>>

(* Mutated form of PinBlocked: the retries left are counted down past zero. *)
PinBlockedNoFloor(r) ==
  /\ NoMicrotask
  /\ tokenCalls[r] > 0
  /\ tokenCalls' = [tokenCalls EXCEPT ![r] = @ - 1]
  /\ tries' = tries - 1
  /\ blocked' = blocked \cup {r}
  /\ EndCall(r, TRUE)
  /\ UNCHANGED <<reqVars, subVars, timerVars, available, unawaited, retryCalls, prompts>>

(* Mutated form of PinBlocked: the user is asked for the PIN again. *)
PinBlockedAsksAgain(r) ==
  /\ NoMicrotask
  /\ tokenCalls[r] > 0
  /\ tokenCalls' = [tokenCalls EXCEPT ![r] = @ - 1]
  /\ blocked' = blocked \cup {r}
  /\ EndCall(r, TRUE)
  /\ Ask("onPinInvalid")
  /\ UNCHANGED <<reqVars, subVars, timerVars, available, unawaited, retryCalls, tries>>

(* pin-auth-blocked or pin-blocked: the user is told, the promise is left alone. *)
PinBlocked(r) ==
  /\ NoMicrotask
  /\ tokenCalls[r] > 0
  /\ tokenCalls' = [tokenCalls EXCEPT ![r] = @ - 1]
  /\ tries' = IF tries > 0 THEN tries - 1 ELSE 0
  /\ blocked' = blocked \cup {r}
  /\ EndCall(r, TRUE)
  /\ UNCHANGED <<reqVars, subVars, timerVars, available, unawaited, retryCalls, prompts>>

(* Any other failure rejects getPinUvAuthToken, and nothing settles the request. *)
TokenFails(r) ==
  /\ NoMicrotask
  /\ tokenCalls[r] > 0
  /\ tokenCalls' = [tokenCalls EXCEPT ![r] = @ - 1]
  /\ \E answered \in BOOLEAN : EndCall(r, answered)
  /\ lost' = IF pc[r] = "pin" THEN lost \cup {r} ELSE lost
  /\ UNCHANGED <<pc, outcome, wants, plan, method, sent, accepted, subVars,
                 timerVars, available, unawaited, retryCalls, blocked, tries, prompts>>

(* The retries left arrive and the PIN is asked for again, or the read throws. *)
PinInvalidReported(r) ==
  /\ NoMicrotask
  /\ retryCalls[r] > 0
  /\ retryCalls' = [retryCalls EXCEPT ![r] = @ - 1]
  /\ \/ EndCall(r, TRUE) /\ Ask("onPinInvalid")
     \/ \E answered \in BOOLEAN : EndCall(r, answered) /\ UNCHANGED prompts
  /\ UNCHANGED <<reqVars, subVars, timerVars, available, unawaited, tokenCalls, blocked,
                 tries>>

-----------------------------------------------------------------------------
(* The credential command *)

(* Start a device call: the console of the device rejects when no cli is open. *)
CallDevice(r, next, otherwise) ==
  IF available
  THEN pc' = [pc EXCEPT ![r] = next] /\ StartCalls({r})
  ELSE pc' = [pc EXCEPT ![r] = otherwise] /\ UNCHANGED <<callOn, ongoing>>

(* pub.extensions is given: makeExtensionsInput first reads the info again. *)
MakeExtensionsInput(r) ==
  /\ pc[r] = "ready"
  /\ CallDevice(r, "exts", "dead")
  /\ UNCHANGED <<outcome, wants, plan, method, lost, sent, accepted, subVars,
                 timerVars, available, unawaited, pinVars, prompts>>

ExtensionsBuilt(r) ==
  /\ NoMicrotask
  /\ pc[r] = "exts"
  /\ pc' = [pc EXCEPT ![r] = "send"]
  /\ EndCall(r, TRUE)
  /\ UNCHANGED <<outcome, wants, plan, method, lost, sent, accepted, subVars,
                 timerVars, available, unawaited, pinVars, prompts>>

(* ctap2.makeCredential or ctap2.getAssertion. *)
SendCredentialCommand(r) ==
  /\ pc[r] \in {"ready", "send"}
  /\ CallDevice(r, "credential", "failed")
  /\ sent' = IF available THEN sent \cup {r} ELSE sent
  /\ UNCHANGED <<outcome, wants, plan, method, lost, accepted, subVars,
                 timerVars, available, unawaited, pinVars, prompts>>

(***************************************************************************)
(* The command ends: with a credential; cancelled by the authenticator; by *)
(* action timeout or without credentials, which are reported to the user   *)
(* as events and settle nothing; or with any other error.                  *)
(***************************************************************************)
CredentialReturns(r) ==
  /\ NoMicrotask
  /\ pc[r] = "credential"
  /\ \/ /\ \E next \in {"succeeded", "cancelled", "silent", "failed"} :
             pc' = [pc EXCEPT ![r] = next]
        /\ EndCall(r, TRUE)
     \/ /\ pc' = [pc EXCEPT ![r] = "failed"]
        /\ EndCall(r, FALSE)
  /\ UNCHANGED <<outcome, wants, plan, method, lost, sent, accepted, subVars,
                 timerVars, available, unawaited, pinVars, prompts>>

(* Mutated form of Finish: only the request's own cancel and error subscriptions go. *)
FinishKeepsSubs(r) ==
  /\ Revoke
  /\ subs' = subs \ ({r} \X {"cancel", "error"})
  /\ outcome' = Settle(r, "resolved")
  /\ pc' = [pc EXCEPT ![r] = "end"]

(* Success: revoke the session, unsubscribe everything, resolve the promise. *)
Finish(r) ==
  /\ Revoke
  /\ subs' = {}
  /\ outcome' = Settle(r, "resolved")
  /\ pc' = [pc EXCEPT ![r] = "end"]

(* The success event is out; the answer is parsed, which may throw or need the device. *)
CredentialParsed(r) ==
  /\ pc[r] = "succeeded"
  /\ \/ Finish(r)
     \/ /\ pc' = [pc EXCEPT ![r] = "failed"]
        /\ UNCHANGED <<outcome, subs, armed, cliVars>>
     \/ /\ CallDevice(r, "output", "failed")
        /\ UNCHANGED <<outcome, subs, armed, available, unawaited>>
  /\ UNCHANGED <<wants, plan, method, lost, sent, accepted, kaSubs, timeoutRef, pinVars, prompts>>

(* The key agreement for the hmac-secret output. *)
ExtensionsOutput(r) ==
  /\ NoMicrotask
  /\ pc[r] = "output"
  /\ \/ ~(Transport = "usb" /\ callOn[r] = "closed") /\ Finish(r)
     \/ /\ pc' = [pc EXCEPT ![r] = "failed"]
        /\ \E answered \in BOOLEAN : EndCall(r, answered)
        /\ UNCHANGED <<outcome, subs, armed, available, unawaited>>
  /\ UNCHANGED <<wants, plan, method, lost, sent, accepted, kaSubs, timeoutRef, pinVars, prompts>>

(* Mutated form of CommandFails: the catch swallows the error. *)
CommandFailsSilently(r) ==
  /\ pc[r] \in {"failed", "cancelled"}
  /\ pc' = [pc EXCEPT ![r] = "end"]
  /\ UNCHANGED <<outcome, subs, armed, cliVars, wants, plan, method, lost, sent, accepted,
                 kaSubs, timeoutRef, pinVars, prompts>>

(* The catch of the command raises its error, or the cancel the device reports. *)
CommandFails(r) ==
  /\ pc[r] \in {"failed", "cancelled"}
  /\ pc' = [pc EXCEPT ![r] = "end"]
  /\ RaiseError(IF pc[r] = "cancelled" THEN "cancel" ELSE "error", subs)
  /\ UNCHANGED <<wants, plan, method, lost, sent, accepted, kaSubs, timeoutRef, pinVars, prompts>>

-----------------------------------------------------------------------------
(* What the user does, what the devices and the timers do, and what follows. *)
UserStep ==
  \/ Accept \/ Deny \/ PinAvailable \/ HandlerGivesNothing \/ CancelEvent \/ ErrorEvent
  \/ \E opened \in SUBSET Requests : SelectDevice(opened)

DeviceStep(r) ==
  \/ \E o \in Authenticators : InfoAnswered(r, o)
  \/ HandlerThrows(r) \/ RetriesRead(r) \/ SetPinReturns(r)
  \/ TokenGranted(r) \/ PinInvalid(r) \/ PinBlocked(r) \/ TokenFails(r)
  \/ PinInvalidReported(r)
  \/ ExtensionsBuilt(r) \/ CredentialReturns(r) \/ ExtensionsOutput(r)

MicrotaskStep(r) ==
  \/ Decide(r) \/ MakeExtensionsInput(r) \/ SendCredentialCommand(r)
  \/ CredentialParsed(r) \/ CommandFails(r)

CallerStep ==
  \E r \in Requests : CallRefused(r) \/ \E uv \in Verifications : Call(r, uv)

Next ==
  \/ CallerStep \/ Release \/ UserStep \/ UnawaitedReturns
  \/ \E r \in Requests : DeviceAttached(r) \/ TimerFires(r) \/ DeviceStep(r) \/ MicrotaskStep(r)

Spec == Init /\ [][Next]_vars

(* The user enters a PIN, or closes the prompt without one. *)
PromptStep == PinAvailable \/ HandlerGivesNothing

(***************************************************************************)
(* Microtasks run.  Calls of a device end, with an answer or a failure:    *)
(* CallsEnd of CtapTransaction, which needs an authenticator that does not *)
(* send keep-alives or busy errors for ever.  A device is found while      *)
(* somebody enumerates, handlers settle the promises they return, and a    *)
(* user who is shown a device again and again selects it in the end.       *)
(* Nothing is assumed of the timer, release() or the caller.               *)
(***************************************************************************)
FairSpec ==
  /\ Spec
  /\ \A r \in Requests : /\ WF_vars(MicrotaskStep(r)) /\ WF_vars(DeviceStep(r))
                         /\ WF_vars(DeviceAttached(r))
  /\ WF_vars(Accept \/ Deny) /\ WF_vars(PromptStep)
  /\ SF_vars(\E opened \in SUBSET Requests : SelectDevice(opened))

-----------------------------------------------------------------------------
(* Properties *)

(* Every variable keeps to its type; the call counters and the authenticator's
   PIN retries never go below zero. *)
TypeOK ==
  /\ pc \in [Requests -> PCs] /\ outcome \in [Requests -> Outcomes]
  /\ wants \in [Requests -> Verifications] /\ plan \in [Requests -> Plans]
  /\ method \in [Requests -> Methods]
  /\ lost \subseteq Requests /\ sent \subseteq Requests /\ accepted \subseteq Requests
  /\ subs \subseteq Requests \X Subjects /\ kaSubs \subseteq Requests
  /\ armed \subseteq Requests /\ timeoutRef \in Requests \cup {0}
  /\ available \in BOOLEAN /\ ongoing \in BOOLEAN /\ unawaited \in BOOLEAN
  /\ callOn \in [Requests -> {"idle", "current", "former", "closed"}]
  /\ tokenCalls \in [Requests -> Nat] /\ retryCalls \in [Requests -> Nat]
  /\ blocked \subseteq Requests /\ tries \in 0..MaxTries
  /\ prompts \in [PromptNames -> Nat]

Settled(r) == outcome[r] \in {"resolved"} \cup (Rejections \ {"invalid"})

Quiet == (\E r \in Requests : Settled(r)) /\ \A r \in Requests : ~Pending(r)

(* A credential command of a request that wants user verification asks the
   authenticator to verify the user itself (opt.uv), or carries a PIN token that was
   obtained for that request, whichever way getPinUvAuthToken took and however often
   the PIN was asked for. *)
VerifiedWhenRequired ==
  \A r \in sent : wants[r] # "discouraged" => method[r] # "none"

(* Once the last promise has settled the session is really revoked: no timer left to fire,
   no open device, no call that could still run on one, nobody listening for the next
   request's answer, device, cancel or error (onError, and the success path). *)
ReleasedAfterSettle ==
  Quiet => /\ armed = {} /\ ~available
           /\ \A r \in Requests : callOn[r] # "current"
           /\ \A subject \in {"cancel", "error", "request", "device", "enumerate"} :
                Live(subject) = {}

(* In console mode a settled request leaves no subscription of this.subs at all, so that
   no late PIN is taken for it. *)
NoSubscriptionAfterSettle == Quiet => subs = {}

(* A PIN prompt the user sees has a reader: what is typed reaches a request, as long as the
   client has not torn its subscriptions down. *)
PinPromptHeard ==
  (subs # {} /\ \E h \in PinHandlers : prompts[h] > 0) => Live("pin") \cup Live("newPin") # {}

(* A request that was told its PIN is blocked makes no further getPinToken call: the client
   never burns retries the user did not ask for (internalGetPinUvAuthToken's catch). *)
BlockedStopsGuessing ==
  [][\A r \in blocked : tokenCalls'[r] <= tokenCalls[r]]_vars

(* A pending request the user approved can still be told of an error or a cancel of the
   modal: nothing an earlier, settled request does later takes its listener away. *)
PendingHearsErrors ==
  \A r \in accepted : Pending(r) => <<r, "error">> \in subs

(* The ways the code has to leave a promise pending for ever: a throw inside a handler
   or executor, a rejected getPinUvAuthToken, a blocked PIN, an action timeout or missing
   credentials (all of them only reported), release(), and a PIN prompt that gave nothing. *)
Stranded(r) ==
  \/ pc[r] \in {"dead", "silent"} \/ r \in lost \/ r \in blocked
  \/ <<r, "error">> \notin subs
  \/ /\ pc[r] \in {"pin", "newPin"} /\ Calls(r) = 0
     /\ \A h \in PinHandlers : prompts[h] = 0

(* Every request settles, or is stranded in one of those named ways, which the code has
   and the property only lists: no other combination of answers, wrong PINs and failures
   leaves the caller waiting. *)
EventuallySettled == \A r \in Requests : Pending(r) ~> (~Pending(r) \/ Stranded(r))

(* The promise made to the caller and the user. *)
Phase(r) ==
  IF r \in sent THEN "commanded" ELSE IF r \in accepted THEN "approved"
  ELSE IF outcome[r] \in {"none", "invalid"} THEN "idle" ELSE "asked"

C == INSTANCE Ceremony WITH phase <- [r \in Requests |-> Phase(r)], result <- outcome

(* The client implements Ceremony. *)
CeremonySpec == C!Spec

-----------------------------------------------------------------------------
(* What docs, comments and tests say, and the code does not do *)

(* A request whose timer fires is rejected: the tests of event.spec.ts wait for it. *)
TimeoutRejects == [][\A r \in Requests : TimerFires(r) /\ Pending(r) => ~Pending(r)']_vars

(* "Revoke client session": a settled request has no call on the open device. *)
SettledLeavesDevice == \A r \in Requests : Settled(r) => callOn[r] # "current"

(* One answer to onRequest accepts the one request it was asked for. *)
OneAnswerOneRequest == [][Cardinality(accepted' \ accepted) <= 1]_vars

(* A cancel rejects the request that waits for it, or reaches an authenticator at work. *)
CancelNotLost ==
  [][\A r \in Live("cancel") :
       CancelEvent /\ Pending(r)
         => ~Pending(r)' \/ unawaited \/ \E q \in Requests : callOn[q] = "current"]_vars
=============================================================================
