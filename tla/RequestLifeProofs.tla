--------------------------- MODULE RequestLifeProofs ---------------------------
(***************************************************************************)
(* Theorems about the requests of Fido2Client that are called one after    *)
(* the other: no call while an earlier promise is pending (~Overlap).      *)
(***************************************************************************)
EXTENDS Fido2ClientProofs

-----------------------------------------------------------------------------
(* The session is released when nobody waits *)

(* Subjects a request listens to for as long as its promise is pending. *)
Session == {"cancel", "error", "request", "device", "enumerate"}

Idle == \A r \in Requests : ~Pending(r)

Released ==
  /\ armed = {}
  /\ ~available
  /\ \A r \in Requests : callOn[r] # "current"
  /\ \A r \in Requests, x \in Session : <<r, x>> \notin subs

(***************************************************************************)
(* Revoke clears one timer only, the one the session holds.  That this     *)
(* leaves no timer needs the first part; the first part needs the second:  *)
(* the timer of a new call is the only one because nobody waited.          *)
(***************************************************************************)
ReleaseInv ==
  /\ armed \subseteq {timeoutRef}
  /\ Idle => Released

(* A step ends the session, or neither settles a promise nor starts anything in a
   session that is released. *)
Ends == Revoke /\ subs' = {} /\ UNCHANGED timeoutRef

Calm ==
  /\ UNCHANGED <<outcome, timeoutRef>>
  /\ armed' \subseteq armed
  /\ Released => Released'

LEMMA EndCallTarget ==
  ASSUME TypeOK, NEW r \in Requests, NEW answered, EndCall(r, answered)
  PROVE  \A q \in Requests : callOn'[q] \in {callOn[q], "idle"}
  BY DEF TypeOK, EndCall

LEMMA RaiseErrorEnds ==
  ASSUME TypeOK, NEW how, NEW rest, rest \subseteq subs, RaiseError(how, rest),
         UNCHANGED timeoutRef
  PROVE  Ends \/ (Calm /\ subs' = rest)
<1> DEFINE listeners == {r \in Requests : <<r, "error">> \in rest}
<1>1. CASE listeners = {}
  <2>1. subs' = rest /\ UNCHANGED <<outcome, armed, cliVars>>
    BY <1>1 DEF RaiseError
  <2> QED
    BY <2>1 DEF Calm, Released, cliVars
<1>2. CASE listeners # {}
  BY <1>2 DEF RaiseError, Ends
<1> QED
  BY <1>1, <1>2

(* No session event reaches anybody, and no device call starts, when the session is released. *)
LEMMA CalmFrame ==
  ASSUME TypeOK, UNCHANGED <<outcome, timeoutRef, armed, available>>,
         \A q \in Requests : ~available => callOn'[q] \in {callOn[q], "idle", "closed"},
         \A q \in Requests, x \in Session : <<q, x>> \in subs' => <<q, x>> \in subs
  PROVE  Calm
  BY DEF Calm, Released

LEMMA UserEnds ==
  ASSUME TypeOK, UserStep
  PROVE  Ends \/ Calm
<1>1. CASE Accept
  <2>1. UNCHANGED <<outcome, timeoutRef, armed, available, callOn>>
    BY <1>1 DEF Accept, timerVars, cliVars
  <2>2. ASSUME Released
        PROVE  subs' \subseteq subs
    <3>1. Live("request") = {}
      BY <2>2 DEF Released, Session, Live
    <3> QED
      BY <1>1, <3>1 DEF Accept
  <2> QED
    BY <2>1, <2>2 DEF Calm, Released
<1>2. CASE Deny
  <2> DEFINE rest == subs \ {<<Min(Live("request")), "request">>}
  <2>1. UNCHANGED timeoutRef
    BY <1>2 DEF Deny
  <2>2. CASE Live("request") = {}
    BY <1>2, <2>2 DEF Deny, Calm, Released, cliVars
  <2>3. CASE Live("request") # {}
    BY <1>2, <2>1, <2>3, RaiseErrorEnds DEF Deny
  <2> QED
    BY <2>2, <2>3
<1>3. CASE PinAvailable
  <2>1. UNCHANGED <<outcome, timeoutRef, armed, available>> /\ subs' \subseteq subs
    BY <1>3 DEF PinAvailable, timerVars
  <2>2. ~available => callOn' = callOn
    BY <1>3 DEF PinAvailable
  <2> QED
    BY <2>1, <2>2, CalmFrame
<1>4. CASE HandlerGivesNothing
  BY <1>4, CalmFrame DEF HandlerGivesNothing, reqVars, subVars, timerVars, cliVars
<1>5. CASE CancelEvent
  <2> DEFINE rest == subs \ (Requests \X {"cancel"})
  <2>1. UNCHANGED timeoutRef /\ rest \subseteq subs
    BY <1>5 DEF CancelEvent
  <2>2. \/ subs' = rest /\ UNCHANGED <<outcome, armed, cliVars>>
        \/ \E how \in Rejections : RaiseError(how, rest)
    BY <1>5 DEF CancelEvent, Rejections
  <2>3. CASE subs' = rest /\ UNCHANGED <<outcome, armed, cliVars>>
    BY <2>1, <2>3, CalmFrame DEF cliVars
  <2>4. CASE \E how \in Rejections : RaiseError(how, rest)
    BY <2>1, <2>4, RaiseErrorEnds
  <2> QED
    BY <2>2, <2>3, <2>4
<1>6. CASE ErrorEvent
  BY <1>6, RaiseErrorEnds DEF ErrorEvent
<1>7. ASSUME NEW opened \in SUBSET Requests, SelectDevice(opened)
      PROVE  Calm
  <2>1. UNCHANGED <<outcome, timeoutRef, armed>> /\ subs' \subseteq subs
    BY <1>7 DEF SelectDevice, timerVars
  <2>2. ASSUME Released
        PROVE  ~available' /\ callOn' = callOn
    <3>1. Live("device") = {}
      BY <2>2 DEF Released, Session, Live
    <3>2. opened = {} /\ ~available
      BY <1>7, <2>2, <3>1 DEF SelectDevice, Released
    <3> QED
      BY <1>7, <3>1, <3>2 DEF SelectDevice, TypeOK
  <2> QED
    BY <2>1, <2>2 DEF Calm, Released
<1> QED
  BY <1>1, <1>2, <1>3, <1>4, <1>5, <1>6, <1>7 DEF UserStep

LEMMA DeviceEnds ==
  ASSUME TypeOK, NEW r \in Requests, DeviceStep(r)
  PROVE  Ends \/ Calm
<1>1. ASSUME NEW o \in Authenticators, InfoAnswered(r, o)
      PROVE  Calm
  <2>1. UNCHANGED <<outcome, timeoutRef, armed, available, subs>>
    BY <1>1 DEF InfoAnswered, subVars, timerVars
  <2>2. ~available => \A q \in Requests : callOn'[q] \in {callOn[q], "idle"}
    BY <1>1, EndCallTarget DEF InfoAnswered
  <2> QED
    BY <2>1, <2>2, CalmFrame
<1>2. CASE SetPinReturns(r)
  <2>1. UNCHANGED <<outcome, timeoutRef, armed, available, subs>>
    BY <1>2 DEF SetPinReturns, subVars, timerVars
  <2>2. ~available => \A q \in Requests : callOn'[q] \in {callOn[q], "idle"}
    BY <1>2, EndCallTarget DEF SetPinReturns
  <2> QED
    BY <2>1, <2>2, CalmFrame
<1>3. CASE PinInvalid(r)
  <2>1. UNCHANGED <<outcome, timeoutRef, armed, available, subs>>
    BY <1>3 DEF PinInvalid, reqVars, subVars, timerVars
  <2>2. ~available => \A q \in Requests : callOn'[q] \in {callOn[q], "idle"}
    BY <1>3, EndCallTarget DEF PinInvalid
  <2> QED
    BY <2>1, <2>2, CalmFrame
<1>4. CASE HandlerThrows(r) \/ RetriesRead(r) \/ TokenGranted(r) \/ PinBlocked(r) \/ TokenFails(r)
           \/ PinInvalidReported(r) \/ ExtensionsBuilt(r) \/ CredentialReturns(r)
  <2>1. UNCHANGED <<outcome, timeoutRef, armed, available, subs>>
    BY <1>4 DEF HandlerThrows, RetriesRead, TokenGranted, PinBlocked, TokenFails,
                PinInvalidReported, ExtensionsBuilt, CredentialReturns, reqVars, subVars, timerVars
  <2>2. \E answered \in BOOLEAN : EndCall(r, answered)
    BY <1>4 DEF HandlerThrows, RetriesRead, TokenGranted, PinBlocked, TokenFails,
                PinInvalidReported, ExtensionsBuilt, CredentialReturns
  <2> QED
    BY <2>1, <2>2, EndCallTarget, CalmFrame
<1>5. CASE ExtensionsOutput(r)
  <2>1. UNCHANGED timeoutRef
    BY <1>5 DEF ExtensionsOutput
  <2>2. CASE Finish(r)
    BY <2>1, <2>2 DEF Finish, Ends
  <2>3. CASE /\ \E answered \in BOOLEAN : EndCall(r, answered)
             /\ UNCHANGED <<outcome, subs, armed, available, unawaited>>
    BY <2>1, <2>3, EndCallTarget, CalmFrame
  <2> QED
    BY <1>5, <2>2, <2>3 DEF ExtensionsOutput
<1> QED
  BY <1>1, <1>2, <1>3, <1>4, <1>5 DEF DeviceStep

LEMMA MicrotaskEnds ==
  ASSUME TypeOK, NEW r \in Requests, MicrotaskStep(r)
  PROVE  Ends \/ Calm
<1>1. CASE Decide(r)
  <2>1. UNCHANGED <<outcome, timeoutRef, armed, available, callOn>>
    BY <1>1 DEF Decide, timerVars, cliVars
  <2>2. \E s \in {"pin", "newPin"} : subs' \subseteq subs \cup {<<r, s>>}
    BY <1>1 DEF Decide
  <2>3. \A q \in Requests, x \in Session : <<q, x>> \in subs' => <<q, x>> \in subs
    BY <2>2 DEF Session
  <2> QED
    BY <2>1, <2>3, CalmFrame
<1>2. CASE MakeExtensionsInput(r) \/ SendCredentialCommand(r)
  <2>1. UNCHANGED <<outcome, timeoutRef, armed, available, subs>>
    BY <1>2 DEF MakeExtensionsInput, SendCredentialCommand, subVars, timerVars
  <2>2. ~available => callOn' = callOn
    BY <1>2 DEF MakeExtensionsInput, SendCredentialCommand, CallDevice
  <2> QED
    BY <2>1, <2>2, CalmFrame
<1>3. CASE CredentialParsed(r)
  <2>1. UNCHANGED timeoutRef
    BY <1>3 DEF CredentialParsed
  <2>2. CASE Finish(r)
    BY <2>1, <2>2 DEF Finish, Ends
  <2>3. CASE UNCHANGED <<outcome, subs, armed, cliVars>>
    BY <2>1, <2>3, CalmFrame DEF cliVars
  <2>4. CASE /\ CallDevice(r, "output", "failed")
             /\ UNCHANGED <<outcome, subs, armed, available, unawaited>>
    <3>1. ~available => callOn' = callOn
      BY <2>4 DEF CallDevice
    <3> QED
      BY <2>1, <2>4, <3>1, CalmFrame
  <2> QED
    BY <1>3, <2>2, <2>3, <2>4 DEF CredentialParsed
<1>4. CASE CommandFails(r)
  BY <1>4, RaiseErrorEnds DEF CommandFails
<1> QED
  BY <1>1, <1>2, <1>3, <1>4 DEF MicrotaskStep

(* Only a call makes a promise pending; every other step ends the session or is calm. *)
LEMMA StepEnds ==
  ASSUME TypeOK, [Next]_vars, ~CallerStep
  PROVE  Ends \/ Calm
<1>1. CASE UserStep
  BY <1>1, UserEnds
<1>2. ASSUME NEW r \in Requests, DeviceStep(r)
      PROVE  Ends \/ Calm
  BY <1>2, DeviceEnds
<1>3. ASSUME NEW r \in Requests, MicrotaskStep(r)
      PROVE  Ends \/ Calm
  BY <1>3, MicrotaskEnds
<1>4. CASE Release
  BY <1>4 DEF Release, Ends
<1>5. ASSUME NEW r \in Requests, TimerFires(r)
      PROVE  Calm
  BY <1>5 DEF TimerFires, Calm, Released, reqVars, subVars, cliVars
<1>6. CASE UnawaitedReturns \/ UNCHANGED vars \/ \E r \in Requests : DeviceAttached(r)
  <2>1. UNCHANGED <<outcome, timeoutRef, armed, available, callOn, subs>>
    BY <1>6 DEF UnawaitedReturns, DeviceAttached, vars, reqVars, subVars, timerVars, cliVars
  <2> QED
    BY <2>1, CalmFrame
<1> QED
  BY <1>1, <1>2, <1>3, <1>4, <1>5, <1>6 DEF Next

LEMMA ReleaseInit ==
  ASSUME Init
  PROVE  ReleaseInv
  BY DEF Init, ReleaseInv, Released

LEMMA ReleaseNext ==
  ASSUME ~Overlap, TypeOK, ReleaseInv, [Next]_vars
  PROVE  ReleaseInv'
<1>1. CASE Ends
  <2>1. armed' = {} /\ ~available' /\ subs' = {}
    BY <1>1 DEF Ends, Revoke, ReleaseInv
  <2>2. \A r \in Requests : callOn'[r] # "current"
    BY <1>1 DEF Ends, Revoke
  <2> QED
    BY <2>1, <2>2 DEF ReleaseInv, Released
<1>2. CASE Calm
  BY <1>2 DEF Calm, ReleaseInv, Idle, Pending
<1>3. ASSUME NEW r \in Requests, NEW uv \in Verifications, Call(r, uv)
      PROVE  ReleaseInv'
  <2>1. armed = {}
    BY <1>3 DEF Call, MayCall, ReleaseInv, Idle, Released
  <2>2. Pending(r)'
    BY <1>3 DEF Call, Pending, TypeOK
  <2> QED
    BY <1>3, <2>1, <2>2 DEF Call, ReleaseInv, Idle
<1>4. ASSUME NEW r \in Requests, CallRefused(r)
      PROVE  ReleaseInv'
  <2>1. Released
    BY <1>4 DEF CallRefused, MayCall, ReleaseInv, Idle
  <2> QED
    BY <1>4, <2>1 DEF CallRefused, ReleaseInv, Released, subVars, timerVars, cliVars
<1> QED
  BY <1>1, <1>2, <1>3, <1>4, StepEnds DEF CallerStep

LEMMA ReleaseEnough ==
  ASSUME TypeOK, ReleaseInv
  PROVE  ReleasedAfterSettle
<1> SUFFICES ASSUME Quiet
             PROVE  Released
  BY DEF ReleasedAfterSettle, Released, Session, Live
<1> QED
  BY DEF Quiet, ReleaseInv, Idle

(* One request at a time: when the last promise has settled no timer is left to fire, no
   device is open, no call runs on one and no request listens, whichever way the requests
   ended, with stale answers of earlier ones still to come and release() at any moment. *)
THEOREM ReleasedHolds ==
  ASSUME ~Overlap
  PROVE  Spec => []ReleasedAfterSettle
<1>1. Init => TypeOK /\ ReleaseInv
  BY InitType, ReleaseInit
<1>2. TypeOK /\ ReleaseInv /\ [Next]_vars => (TypeOK /\ ReleaseInv)'
  BY NextType, ReleaseNext
<1>3. TypeOK /\ ReleaseInv => ReleasedAfterSettle
  BY ReleaseEnough
<1> QED
  BY <1>1, <1>2, <1>3, PTL DEF Spec

-----------------------------------------------------------------------------
(* Where a request stands *)

Approved == {"select", "info", "retries", "decide", "newPin", "setPin", "pin", "ready", "exts", "send"}
Commanded == {"credential", "succeeded", "cancelled", "output", "silent"}

(* Which answers a request had, and which subjects it listens to, from its continuation. *)
LifeAt(r) ==
  /\ (pc[r] = "new") <=> (outcome[r] = "none")
  /\ pc[r] \in {"new", "asked"} => r \notin accepted /\ r \notin sent
  /\ pc[r] \in Approved => r \in accepted /\ r \notin sent
  /\ pc[r] \in Commanded => r \in sent
  /\ <<r, "request">> \in subs => pc[r] = "asked"
  /\ <<r, "device">> \in subs => pc[r] = "select"
  /\ <<r, "newPin">> \in subs => pc[r] = "newPin"
  /\ \A x \in Session : <<r, x>> \in subs => Pending(r)

AlonePending == \A r, q \in Requests : Pending(r) /\ Pending(q) => r = q

LifeInv == AlonePending /\ \A r \in Requests : LifeAt(r)

(* Nothing about q changes, but for subscriptions it may lose. *)
LifeKept(q) ==
  /\ pc'[q] = pc[q] /\ outcome'[q] = outcome[q]
  /\ q \in accepted' <=> q \in accepted
  /\ q \in sent' <=> q \in sent
  /\ \A x \in Subjects : <<q, x>> \in subs' => <<q, x>> \in subs

LEMMA LifeFrame ==
  ASSUME NEW q \in Requests, LifeAt(q), LifeKept(q)
  PROVE  LifeAt(q)'
<1>1. Session \subseteq Subjects /\ {"request", "device", "newPin"} \subseteq Subjects
  BY DEF Session, Subjects
<1>2. /\ <<q, "request">> \in subs' => <<q, "request">> \in subs
      /\ <<q, "device">> \in subs' => <<q, "device">> \in subs
      /\ <<q, "newPin">> \in subs' => <<q, "newPin">> \in subs
      /\ \A x \in Session : <<q, x>> \in subs' => <<q, x>> \in subs
  BY <1>1 DEF LifeKept
<1> QED
  BY <1>2 DEF LifeAt, LifeKept, Pending

LEMMA LifeFrameAll ==
  ASSUME LifeInv, UNCHANGED <<pc, outcome, accepted, sent>>, subs' \subseteq subs
  PROVE  LifeInv'
<1>1. \A q \in Requests : LifeKept(q)
  BY DEF LifeKept
<1> QED
  BY <1>1, LifeFrame DEF LifeInv, AlonePending, Pending

(* The continuation of r goes on, with a PIN subscription at most, and its promise is left
   alone: `before' and `after' are in the same part of its life, or the end of it. *)
LEMMA LifeMoves ==
  ASSUME TypeOK, LifeInv, NEW r \in Requests, NEW after \in PCs \ {"new", "asked"},
         pc[r] \notin {"new", "asked", "select", "newPin"},
         after \in Approved => pc[r] \in Approved,
         after \in Commanded => pc[r] \in Commanded,
         pc' = [pc EXCEPT ![r] = after],
         UNCHANGED <<outcome, accepted, sent>>,
         \/ subs' \subseteq subs
         \/ \E s \in {"pin", "newPin"} : after = s /\ subs' = subs \cup {<<r, s>>}
  PROVE  LifeInv'
<1>1. \A q \in Requests \ {r} : LifeKept(q)
  BY DEF LifeKept, TypeOK
<1>2. pc'[r] = after
  BY DEF TypeOK
<1>3. /\ <<r, "request">> \notin subs' /\ <<r, "device">> \notin subs'
      /\ <<r, "newPin">> \in subs' => after = "newPin"
      /\ \A x \in Session : <<r, x>> \in subs' => <<r, x>> \in subs
  BY DEF LifeInv, LifeAt, Session
<1>4. LifeAt(r)'
  BY <1>2, <1>3 DEF LifeInv, LifeAt, Pending
<1>5. \A q \in Requests : LifeAt(q)'
  BY <1>1, <1>4, LifeFrame DEF LifeInv
<1> QED
  BY <1>5 DEF LifeInv, AlonePending, Pending

(* The session ends: nobody listens any more, and at most a promise is settled. *)
LEMMA LifeEnds ==
  ASSUME TypeOK, LifeInv, subs' = {}, UNCHANGED <<accepted, sent>>,
         \A q \in Requests : pc'[q] \in {pc[q], "end"} /\ (pc[q] = "new" => pc'[q] = "new"),
         \A q \in Requests : \/ outcome'[q] = outcome[q]
                             \/ Pending(q) /\ outcome'[q] \in {"resolved"} \cup Rejections
  PROVE  LifeInv'
<1>1. \A q \in Requests : Pending(q)' => Pending(q)
  BY DEF Pending, Rejections
<1>2. AlonePending'
  BY <1>1 DEF LifeInv, AlonePending
<1>3. ASSUME NEW q \in Requests
      PROVE  LifeAt(q)'
  <2>1. /\ (pc'[q] = "new") <=> (pc[q] = "new")
        /\ pc'[q] \in {"new", "asked"} => pc'[q] = pc[q]
        /\ pc'[q] \in Approved \cup Commanded => pc'[q] = pc[q]
    BY DEF Approved, Commanded
  <2>2. (outcome'[q] = "none") <=> (outcome[q] = "none")
    BY DEF Pending, Rejections
  <2>3. LifeAt(q)
    BY DEF LifeInv
  <2> QED
    BY <2>1, <2>2, <2>3 DEF LifeAt
<1> QED
  BY <1>2, <1>3 DEF LifeInv

LEMMA MinSingle ==
  ASSUME NEW r \in Requests
  PROVE  Min({r}) = r
<1>1. r \in {r} /\ \A y \in {r} : r <= y
  BY DEF Requests
<1> QED
  BY <1>1 DEF Min

LEMMA SettleSettles ==
  ASSUME TypeOK, NEW r, NEW how, outcome' = Settle(r, how)
  PROVE  \A q \in Requests : \/ outcome'[q] = outcome[q]
                             \/ Pending(q) /\ outcome'[q] = how /\ q = r
  BY DEF TypeOK, Settle, Pending

(* An error is heard by nobody and changes nothing else, or ends the session. *)
LEMMA RaiseErrorSettles ==
  ASSUME TypeOK, NEW how \in Rejections, NEW rest, rest \subseteq subs, RaiseError(how, rest)
  PROVE  \/ subs' = rest /\ UNCHANGED outcome
         \/ /\ subs' = {}
            /\ \A q \in Requests : \/ outcome'[q] = outcome[q]
                                   \/ Pending(q) /\ outcome'[q] = how
<1> DEFINE listeners == {r \in Requests : <<r, "error">> \in rest}
<1>1. CASE listeners = {}
  BY <1>1 DEF RaiseError
<1>2. CASE listeners # {}
  <2>1. subs' = {} /\ outcome' = Settle(Min(listeners), how)
    BY <1>2 DEF RaiseError
  <2> QED
    BY <2>1, SettleSettles
<1> QED
  BY <1>1, <1>2

LEMMA LifeError ==
  ASSUME TypeOK, LifeInv, NEW how \in Rejections, NEW rest, rest \subseteq subs,
         RaiseError(how, rest), UNCHANGED <<accepted, sent>>,
         \/ UNCHANGED pc
         \/ \E r \in Requests :
              /\ pc[r] \notin {"new", "select", "newPin"}
              /\ pc' = [pc EXCEPT ![r] = "end"]
              /\ <<r, "request">> \notin rest
  PROVE  LifeInv'
<1>1. \A q \in Requests : pc'[q] \in {pc[q], "end"} /\ (pc[q] = "new" => pc'[q] = "new")
  BY DEF TypeOK
<1>2. CASE subs' = rest /\ UNCHANGED outcome
  <2>1. CASE UNCHANGED pc
    BY <1>2, <2>1, LifeFrameAll
  <2>2. ASSUME NEW r \in Requests,
               pc[r] \notin {"new", "select", "newPin"},
               pc' = [pc EXCEPT ![r] = "end"],
               <<r, "request">> \notin rest
        PROVE  LifeInv'
    <3>1. \A q \in Requests \ {r} : LifeKept(q)
      BY <1>2, <2>2 DEF LifeKept, TypeOK
    <3>2. LifeAt(r)'
      <4>1. pc'[r] = "end"
        BY <2>2 DEF TypeOK
      <4>2. LifeAt(r)
        BY DEF LifeInv
      <4>3. "end" \notin Approved /\ "end" \notin Commanded
        BY DEF Approved, Commanded
      <4>4. \A x \in Session : <<r, x>> \in subs' => Pending(r)'
        BY <1>2, <4>2 DEF LifeAt, Pending
      <4>5. <<r, "device">> \notin subs' /\ <<r, "newPin">> \notin subs' /\ <<r, "request">> \notin subs'
        BY <1>2, <2>2, <4>2 DEF LifeAt
      <4> QED
        BY <1>2, <2>2, <4>1, <4>2, <4>3, <4>4, <4>5 DEF LifeAt
    <3>3. \A q \in Requests : LifeAt(q)'
      BY <3>1, <3>2, LifeFrame DEF LifeInv
    <3> QED
      BY <1>2, <3>3 DEF LifeInv, AlonePending, Pending
  <2> QED
    BY <2>1, <2>2
<1>3. CASE /\ subs' = {}
           /\ \A q \in Requests : \/ outcome'[q] = outcome[q]
                                  \/ Pending(q) /\ outcome'[q] = how
  BY <1>1, <1>3, LifeEnds
<1> QED
  BY <1>2, <1>3, RaiseErrorSettles

LEMMA LifeFinish ==
  ASSUME TypeOK, LifeInv, NEW r \in Requests, Finish(r), UNCHANGED <<accepted, sent>>,
         pc[r] # "new"
  PROVE  LifeInv'
<1>1. \A q \in Requests : pc'[q] \in {pc[q], "end"} /\ (pc[q] = "new" => pc'[q] = "new")
  BY DEF Finish, TypeOK
<1>2. \A q \in Requests : \/ outcome'[q] = outcome[q]
                          \/ Pending(q) /\ outcome'[q] = "resolved"
  BY SettleSettles DEF Finish
<1> QED
  BY <1>1, <1>2, LifeEnds DEF Finish

LEMMA LifeCaller ==
  ASSUME ~Overlap, TypeOK, LifeInv, CallerStep
  PROVE  LifeInv'
<1>1. ASSUME NEW r \in Requests, NEW uv \in Verifications, Call(r, uv)
      PROVE  LifeInv'
  <2>1. \A q \in Requests : ~Pending(q)
    BY <1>1 DEF Call, MayCall
  <2>2. /\ pc[r] = "new" /\ pc'[r] = "asked" /\ outcome'[r] = "pending"
        /\ \A q \in Requests \ {r} : pc'[q] = pc[q] /\ outcome'[q] = outcome[q]
    BY <1>1 DEF Call, MayCall, TypeOK
  <2>3. UNCHANGED <<accepted, sent>> /\ subs' = subs \cup {<<r, "cancel">>, <<r, "error">>, <<r, "request">>}
    BY <1>1 DEF Call
  <2>4. \A q \in Requests \ {r} : LifeKept(q)
    BY <2>2, <2>3 DEF LifeKept
  <2>5. LifeAt(r)'
    <3>1. LifeAt(r) /\ "asked" \notin Approved \cup Commanded
      BY DEF LifeInv, Approved, Commanded
    <3>2. Pending(r)'
      BY <2>2 DEF Pending
    <3>3. <<r, "device">> \notin subs' /\ <<r, "newPin">> \notin subs'
      BY <2>2, <2>3, <3>1 DEF LifeAt
    <3> QED
      BY <2>2, <2>3, <3>1, <3>2, <3>3 DEF LifeAt
  <2>6. AlonePending'
    BY <2>1, <2>2 DEF AlonePending, Pending
  <2> QED
    BY <2>4, <2>5, <2>6, LifeFrame DEF LifeInv
<1>2. ASSUME NEW r \in Requests, CallRefused(r)
      PROVE  LifeInv'
  <2>1. \A q \in Requests : ~Pending(q)
    BY <1>2 DEF CallRefused, MayCall
  <2>2. /\ pc[r] = "new" /\ pc'[r] \in {"end", "dead"} /\ outcome'[r] \in {"invalid", "pending"}
        /\ \A q \in Requests \ {r} : pc'[q] = pc[q] /\ outcome'[q] = outcome[q]
    BY <1>2 DEF CallRefused, MayCall, TypeOK
  <2>3. UNCHANGED <<accepted, sent, subs>>
    BY <1>2 DEF CallRefused, subVars
  <2>4. \A q \in Requests \ {r} : LifeKept(q)
    BY <2>2, <2>3 DEF LifeKept
  <2>5. LifeAt(r)'
    <3>1. LifeAt(r) /\ {"end", "dead"} \cap (Approved \cup Commanded) = {}
      BY DEF LifeInv, Approved, Commanded
    <3>2. /\ \A x \in Session : <<r, x>> \notin subs
          /\ <<r, "newPin">> \notin subs /\ <<r, "request">> \notin subs /\ <<r, "device">> \notin subs
      BY <2>1, <2>2, <3>1 DEF LifeAt
    <3> QED
      BY <2>2, <2>3, <3>1, <3>2 DEF LifeAt
  <2>6. AlonePending'
    BY <2>1, <2>2 DEF AlonePending, Pending
  <2> QED
    BY <2>4, <2>5, <2>6, LifeFrame DEF LifeInv
<1> QED
  BY <1>1, <1>2 DEF CallerStep

LEMMA LifeUser ==
  ASSUME TypeOK, LifeInv, UserStep
  PROVE  LifeInv'
<1>1. CASE Accept
  <2> DEFINE listeners == Live("request")
  <2>1. /\ UNCHANGED <<outcome, sent>>
        /\ accepted' = accepted \cup listeners
        /\ subs' = (subs \ (listeners \X {"request"})) \cup (listeners \X {"device", "enumerate"})
        /\ \A q \in Requests : pc'[q] = IF q \in listeners THEN "select" ELSE pc[q]
    BY <1>1 DEF Accept
  <2>2. \A q \in Requests \ listeners : LifeKept(q)
    BY <2>1 DEF LifeKept
  <2>3. ASSUME NEW q \in listeners
        PROVE  LifeAt(q)'
    <3>1. q \in Requests /\ <<q, "request">> \in subs /\ LifeAt(q)
      BY <2>3 DEF Live, LifeInv
    <3>2. pc[q] = "asked" /\ Pending(q)
      BY <3>1 DEF LifeAt, Session
    <3>3. /\ <<q, "request">> \notin subs'
          /\ <<q, "newPin">> \notin subs'
      BY <2>1, <3>1, <3>2 DEF LifeAt
    <3>4. pc'[q] = "select" /\ q \in accepted' /\ q \notin sent' /\ Pending(q)'
      BY <2>1, <3>1, <3>2 DEF LifeAt, Pending
    <3>5. "select" \in Approved /\ "select" \notin Commanded
      BY DEF Approved, Commanded
    <3> QED
      BY <3>3, <3>4, <3>5 DEF LifeAt, Pending
  <2>4. \A q \in Requests : LifeAt(q)'
    BY <2>2, <2>3, LifeFrame DEF LifeInv
  <2> QED
    BY <2>1, <2>4 DEF LifeInv, AlonePending, Pending
<1>2. CASE Deny
  <2> DEFINE listeners == Live("request")
             first == Min(listeners)
             rest == subs \ {<<first, "request">>}
  <2>1. UNCHANGED <<accepted, sent>>
    BY <1>2 DEF Deny
  <2>2. CASE listeners = {}
    <3>1. UNCHANGED <<pc, subs, outcome>>
      BY <1>2, <2>2 DEF Deny, TypeOK
    <3> QED
      BY <2>1, <3>1, LifeFrameAll
  <2>3. CASE listeners # {}
    <3>1. RaiseError("notAllowed", rest)
      BY <1>2, <2>3 DEF Deny
    <3>2. PICK r \in Requests : <<r, "request">> \in subs
      BY <2>3 DEF Live
    <3>3. listeners = {r}
      BY <3>2 DEF LifeInv, AlonePending, LifeAt, Session, Live
    <3>4. first = r
      BY <3>3, MinSingle
    <3>5. pc[r] = "asked"
      BY <3>2 DEF LifeInv, LifeAt
    <3>6. pc' = [pc EXCEPT ![r] = "end"]
      BY <1>2, <2>3, <3>4 DEF Deny, TypeOK
    <3>7. <<r, "request">> \notin rest /\ rest \subseteq subs /\ "notAllowed" \in Rejections
      BY <3>4 DEF Rejections
    <3> QED
      BY <2>1, <3>1, <3>5, <3>6, <3>7, LifeError
  <2> QED
    BY <2>2, <2>3
<1>3. CASE PinAvailable
  <2> DEFINE setters == Live("newPin")
  <2>1. /\ UNCHANGED <<outcome, accepted, sent>>
        /\ subs' = subs \ (setters \X {"newPin"})
        /\ \A q \in Requests \ setters : pc'[q] = pc[q]
        /\ \A q \in setters : pc'[q] \in {"setPin", "decide"}
    BY <1>3 DEF PinAvailable, Live, TypeOK
  <2>2. \A q \in Requests \ setters : LifeKept(q)
    BY <2>1 DEF LifeKept
  <2>3. ASSUME NEW q \in setters
        PROVE  LifeAt(q)'
    <3>1. q \in Requests /\ <<q, "newPin">> \in subs /\ LifeAt(q)
      BY DEF Live, LifeInv
    <3>2. pc[q] = "newPin" /\ "newPin" \in Approved /\ {"setPin", "decide"} \subseteq Approved
          /\ {"setPin", "decide"} \cap Commanded = {}
      BY <3>1 DEF LifeAt, Approved, Commanded
    <3>3. /\ <<q, "newPin">> \notin subs' /\ <<q, "request">> \notin subs' /\ <<q, "device">> \notin subs'
          /\ \A x \in Session : <<q, x>> \in subs' => <<q, x>> \in subs
      BY <2>1, <3>1, <3>2 DEF LifeAt
    <3> QED
      BY <2>1, <2>3, <3>1, <3>2, <3>3 DEF LifeAt, Pending
  <2>4. \A q \in Requests : LifeAt(q)'
    BY <2>2, <2>3, LifeFrame DEF LifeInv
  <2> QED
    BY <2>1, <2>4 DEF LifeInv, AlonePending, Pending
<1>4. CASE HandlerGivesNothing
  BY <1>4, LifeFrameAll DEF HandlerGivesNothing, reqVars, subVars
<1>5. CASE CancelEvent
  <2> DEFINE rest == subs \ (Requests \X {"cancel"})
  <2>1. UNCHANGED <<pc, accepted, sent>> /\ rest \subseteq subs
    BY <1>5 DEF CancelEvent
  <2>2. \/ subs' = rest /\ UNCHANGED outcome
        \/ \E how \in Rejections : RaiseError(how, rest)
    BY <1>5 DEF CancelEvent, Rejections
  <2>3. CASE subs' = rest /\ UNCHANGED outcome
    BY <2>1, <2>3, LifeFrameAll
  <2>4. CASE \E how \in Rejections : RaiseError(how, rest)
    BY <2>1, <2>4, LifeError
  <2> QED
    BY <2>2, <2>3, <2>4
<1>6. CASE ErrorEvent
  <2>1. "error" \in Rejections
    BY DEF Rejections
  <2> QED
    BY <1>6, <2>1, LifeError DEF ErrorEvent
<1>7. ASSUME NEW opened \in SUBSET Requests, SelectDevice(opened)
      PROVE  LifeInv'
  <2> DEFINE listeners == Live("device")
  <2>1. /\ UNCHANGED <<outcome, accepted, sent>>
        /\ subs' = subs \ (Requests \X {"device", "enumerate"})
        /\ \A q \in Requests \ listeners : pc'[q] = pc[q]
        /\ \A q \in listeners : pc'[q] \in {"info", "dead"}
    BY <1>7 DEF SelectDevice, Live
  <2>2. \A q \in Requests \ listeners : LifeKept(q)
    BY <2>1 DEF LifeKept
  <2>3. ASSUME NEW q \in listeners
        PROVE  LifeAt(q)'
    <3>1. q \in Requests /\ <<q, "device">> \in subs /\ LifeAt(q)
      BY DEF Live, LifeInv
    <3>2. pc[q] = "select" /\ "select" \in Approved /\ {"info", "dead"} \cap Commanded = {}
      BY <3>1 DEF LifeAt, Approved, Commanded
    <3>3. /\ <<q, "newPin">> \notin subs' /\ <<q, "request">> \notin subs' /\ <<q, "device">> \notin subs'
          /\ \A x \in Session : <<q, x>> \in subs' => <<q, x>> \in subs
      BY <2>1, <3>1, <3>2 DEF LifeAt
    <3> QED
      BY <2>1, <2>3, <3>1, <3>2, <3>3 DEF LifeAt, Pending
  <2>4. \A q \in Requests : LifeAt(q)'
    BY <2>2, <2>3, LifeFrame DEF LifeInv
  <2> QED
    BY <2>1, <2>4 DEF LifeInv, AlonePending, Pending
<1> QED
  BY <1>1, <1>2, <1>3, <1>4, <1>5, <1>6, <1>7 DEF UserStep

LEMMA LifeDevice ==
  ASSUME TypeOK, LifeInv, NEW r \in Requests, DeviceStep(r)
  PROVE  LifeInv'
<1> USE DEF PCs, Microtask, InFlight
<1>1. ASSUME NEW o \in Authenticators, InfoAnswered(r, o)
      PROVE  LifeInv'
  <2>1. \E after \in {"dead", "retries", "decide"} : pc' = [pc EXCEPT ![r] = after]
    BY <1>1 DEF InfoAnswered
  <2> QED
    BY <1>1, <2>1, LifeMoves DEF InfoAnswered, subVars, Approved, Commanded
<1>2. CASE HandlerThrows(r)
  BY <1>2, LifeMoves DEF HandlerThrows, subVars, Approved, Commanded
<1>3. CASE RetriesRead(r)
  BY <1>3, LifeMoves DEF RetriesRead, subVars, Approved, Commanded
<1>4. CASE SetPinReturns(r)
  BY <1>4, LifeMoves DEF SetPinReturns, subVars, Approved, Commanded
<1>5. CASE TokenGranted(r)
  <2>1. CASE pc[r] = "pin" /\ r \notin lost
    BY <1>5, <2>1, LifeMoves DEF TokenGranted, subVars, Approved, Commanded
  <2>2. CASE ~(pc[r] = "pin" /\ r \notin lost)
    BY <1>5, <2>2, LifeFrameAll DEF TokenGranted, subVars
  <2> QED
    BY <2>1, <2>2
<1>6. CASE PinInvalid(r) \/ PinBlocked(r) \/ TokenFails(r) \/ PinInvalidReported(r)
  <2>1. UNCHANGED <<pc, outcome, accepted, sent, subs>>
    BY <1>6 DEF PinInvalid, PinBlocked, TokenFails, PinInvalidReported, reqVars, subVars
  <2> QED
    BY <2>1, LifeFrameAll
<1>7. CASE ExtensionsBuilt(r)
  BY <1>7, LifeMoves DEF ExtensionsBuilt, subVars, Approved, Commanded
<1>8. CASE CredentialReturns(r)
  <2>1. \E after \in {"succeeded", "cancelled", "silent", "failed"} : pc' = [pc EXCEPT ![r] = after]
    BY <1>8 DEF CredentialReturns
  <2> QED
    BY <1>8, <2>1, LifeMoves DEF CredentialReturns, subVars, Approved, Commanded
<1>9. CASE ExtensionsOutput(r)
  <2>1. pc[r] = "output" /\ UNCHANGED <<accepted, sent>>
    BY <1>9 DEF ExtensionsOutput
  <2>2. CASE Finish(r)
    BY <2>1, <2>2, LifeFinish
  <2>3. CASE pc' = [pc EXCEPT ![r] = "failed"] /\ UNCHANGED <<outcome, subs>>
    BY <2>1, <2>3, LifeMoves DEF Approved, Commanded
  <2> QED
    BY <1>9, <2>2, <2>3 DEF ExtensionsOutput
<1> QED
  BY <1>1, <1>2, <1>3, <1>4, <1>5, <1>6, <1>7, <1>8, <1>9 DEF DeviceStep

LEMMA LifeMicrotask ==
  ASSUME TypeOK, LifeInv, NEW r \in Requests, MicrotaskStep(r)
  PROVE  LifeInv'
<1> USE DEF PCs, Microtask, InFlight
<1>1. CASE Decide(r)
  <2>1. \/ /\ subs' = subs
           /\ \E after \in {"dead", "ready"} : pc' = [pc EXCEPT ![r] = after]
        \/ \E after \in {"pin", "newPin"} : /\ pc' = [pc EXCEPT ![r] = after]
                                            /\ subs' = subs \cup {<<r, after>>}
    BY <1>1 DEF Decide
  <2>2. pc[r] = "decide" /\ UNCHANGED <<outcome, accepted, sent>>
    BY <1>1 DEF Decide
  <2> QED
    BY <2>1, <2>2, LifeMoves DEF Approved, Commanded
<1>2. CASE MakeExtensionsInput(r)
  <2>1. \E after \in {"exts", "dead"} : pc' = [pc EXCEPT ![r] = after]
    BY <1>2 DEF MakeExtensionsInput, CallDevice
  <2> QED
    BY <1>2, <2>1, LifeMoves DEF MakeExtensionsInput, subVars, Approved, Commanded
<1>3. CASE SendCredentialCommand(r)
  <2>1. pc[r] \in {"ready", "send"} /\ UNCHANGED <<outcome, accepted, subs>>
    BY <1>3 DEF SendCredentialCommand, subVars
  <2>2. CASE ~available
    BY <1>3, <2>1, <2>2, LifeMoves DEF SendCredentialCommand, CallDevice, Approved, Commanded
  <2>3. CASE available
    <3>1. sent' = sent \cup {r} /\ pc' = [pc EXCEPT ![r] = "credential"]
      BY <1>3, <2>3 DEF SendCredentialCommand, CallDevice
    <3>2. \A q \in Requests \ {r} : LifeKept(q)
      BY <2>1, <3>1 DEF LifeKept, TypeOK
    <3>3. LifeAt(r)'
      <4>1. pc'[r] = "credential" /\ r \in sent' /\ "credential" \notin Approved
        BY <3>1 DEF TypeOK, Approved
      <4>2. LifeAt(r)
        BY DEF LifeInv
      <4> QED
        BY <2>1, <4>1, <4>2 DEF LifeAt, Pending
    <3>4. \A q \in Requests : LifeAt(q)'
      BY <3>2, <3>3, LifeFrame DEF LifeInv
    <3> QED
      BY <2>1, <3>4 DEF LifeInv, AlonePending, Pending
  <2> QED
    BY <2>2, <2>3
<1>4. CASE CredentialParsed(r)
  <2>1. pc[r] = "succeeded" /\ UNCHANGED <<accepted, sent>>
    BY <1>4 DEF CredentialParsed
  <2>2. CASE Finish(r)
    BY <2>1, <2>2, LifeFinish
  <2>3. CASE UNCHANGED <<outcome, subs>> /\ \E after \in {"failed", "output"} : pc' = [pc EXCEPT ![r] = after]
    BY <2>1, <2>3, LifeMoves DEF Approved, Commanded
  <2> QED
    BY <1>4, <2>2, <2>3 DEF CredentialParsed, CallDevice
<1>5. CASE CommandFails(r)
  <2>1. /\ pc[r] \in {"failed", "cancelled"} /\ pc' = [pc EXCEPT ![r] = "end"]
        /\ UNCHANGED <<accepted, sent>>
        /\ \E how \in {"cancel", "error"} : RaiseError(how, subs)
    BY <1>5 DEF CommandFails
  <2>2. <<r, "request">> \notin subs
    BY <2>1 DEF LifeInv, LifeAt
  <2>3. {"cancel", "error"} \subseteq Rejections
    BY DEF Rejections
  <2> QED
    BY <2>1, <2>2, <2>3, LifeError
<1> QED
  BY <1>1, <1>2, <1>3, <1>4, <1>5 DEF MicrotaskStep

LEMMA LifeNext ==
  ASSUME ~Overlap, TypeOK, LifeInv, [Next]_vars
  PROVE  LifeInv'
<1>1. CASE CallerStep
  BY <1>1, LifeCaller
<1>2. CASE UserStep
  BY <1>2, LifeUser
<1>3. ASSUME NEW r \in Requests, DeviceStep(r)
      PROVE  LifeInv'
  BY <1>3, LifeDevice
<1>4. ASSUME NEW r \in Requests, MicrotaskStep(r)
      PROVE  LifeInv'
  BY <1>4, LifeMicrotask
<1>5. CASE Release \/ UnawaitedReturns \/ UNCHANGED vars
           \/ \E r \in Requests : DeviceAttached(r) \/ TimerFires(r)
  <2>1. UNCHANGED reqVars /\ subs' \subseteq subs
    BY <1>5 DEF Release, UnawaitedReturns, DeviceAttached, TimerFires, vars, subVars
  <2> QED
    BY <2>1, LifeFrameAll DEF reqVars
<1> QED
  BY <1>1, <1>2, <1>3, <1>4, <1>5 DEF Next

LEMMA LifeInit ==
  ASSUME Init
  PROVE  LifeInv
  BY DEF Init, LifeInv, LifeAt, AlonePending, Pending, Approved, Commanded

-----------------------------------------------------------------------------
(* Console mode: a settled request is through *)

(* Nothing of a request goes on once its promise is settled, but device calls for a PIN. *)
ConsoleInv ==
  \A r \in Requests :
    ~Pending(r) => /\ pc[r] \in {"new", "end"}
                   /\ \A x \in Subjects : <<r, x>> \notin subs

(* Only the request r goes on, if any, and it is not through. *)
LEMMA ConsoleWorks ==
  ASSUME TypeOK, ConsoleInv, NEW r \in Requests, pc[r] \notin {"new", "end"},
         UNCHANGED outcome,
         \A q \in Requests \ {r} : pc'[q] = pc[q],
         \A q \in Requests \ {r}, x \in Subjects : <<q, x>> \in subs' => <<q, x>> \in subs
  PROVE  ConsoleInv'
<1>1. Pending(r) /\ Pending(r)'
  BY DEF ConsoleInv, Pending
<1> QED
  BY <1>1 DEF ConsoleInv, Pending

LEMMA ConsoleFrame ==
  ASSUME ConsoleInv, UNCHANGED outcome, subs' \subseteq subs,
         \A q \in Requests : ~Pending(q) => pc'[q] = pc[q]
  PROVE  ConsoleInv'
  BY DEF ConsoleInv, Pending

LEMMA ConsoleError ==
  ASSUME TypeOK, LifeInv, ConsoleInv, NEW how \in Rejections, NEW rest, rest \subseteq subs,
         RaiseError(how, rest),
         NEW r \in Requests, Pending(r), pc' = [pc EXCEPT ![r] = "end"]
  PROVE  ConsoleInv'
<1>1. pc'[r] = "end" /\ \A q \in Requests \ {r} : pc'[q] = pc[q]
  BY DEF TypeOK
<1>2. CASE subs' = rest /\ UNCHANGED outcome
  BY <1>1, <1>2, ConsoleFrame
<1>3. CASE /\ subs' = {}
           /\ \A q \in Requests : \/ outcome'[q] = outcome[q]
                                  \/ Pending(q) /\ outcome'[q] = how
  <2>1. \A q \in Requests : Pending(q) => q = r
    BY DEF LifeInv, AlonePending
  <2>2. \A q \in Requests \ {r} : ~Pending(q) /\ pc'[q] \in {"new", "end"}
    BY <1>1, <2>1 DEF ConsoleInv
  <2> QED
    BY <1>1, <1>3, <2>2 DEF ConsoleInv
<1> QED
  BY <1>2, <1>3, RaiseErrorSettles

LEMMA ConsoleFinish ==
  ASSUME TypeOK, ConsoleInv, NEW r \in Requests, Finish(r)
  PROVE  ConsoleInv'
<1>1. /\ subs' = {} /\ pc'[r] = "end"
      /\ \A q \in Requests \ {r} : pc'[q] = pc[q]
  BY DEF Finish, TypeOK
<1>2. \A q \in Requests \ {r} : outcome'[q] = outcome[q]
  BY SettleSettles DEF Finish
<1> QED
  BY <1>1, <1>2 DEF ConsoleInv, Pending

LEMMA ConsoleUser ==
  ASSUME ~DefaultModal, TypeOK, LifeInv, ConsoleInv, UserStep
  PROVE  ConsoleInv'
<1>1. CASE Accept
  <2> DEFINE listeners == Live("request")
  <2>1. /\ UNCHANGED outcome
        /\ \A q \in Requests \ listeners : pc'[q] = pc[q]
        /\ \A q \in Requests \ listeners, x \in Subjects : <<q, x>> \in subs' => <<q, x>> \in subs
    BY <1>1 DEF Accept
  <2>2. \A q \in listeners : Pending(q)
    BY DEF Live, LifeInv, LifeAt, Session
  <2> QED
    BY <2>1, <2>2 DEF ConsoleInv, Pending
<1>2. CASE Deny
  <2> DEFINE listeners == Live("request")
             rest == subs \ {<<Min(listeners), "request">>}
  <2>1. CASE listeners = {}
    <3>1. UNCHANGED <<pc, subs, outcome>>
      BY <1>2, <2>1 DEF Deny, TypeOK
    <3> QED
      BY <3>1, ConsoleFrame
  <2>2. CASE listeners # {}
    <3>1. RaiseError("notAllowed", rest)
      BY <1>2, <2>2 DEF Deny
    <3>2. PICK r \in Requests : <<r, "request">> \in subs
      BY <2>2 DEF Live
    <3>3. listeners = {r} /\ Pending(r)
      BY <3>2 DEF LifeInv, AlonePending, LifeAt, Session, Live
    <3>4. Min(listeners) = r
      BY <3>3, MinSingle
    <3>5. pc' = [pc EXCEPT ![r] = "end"]
      BY <1>2, <2>2, <3>4 DEF Deny, TypeOK
    <3>6. rest \subseteq subs /\ "notAllowed" \in Rejections
      BY DEF Rejections
    <3> QED
      BY <3>1, <3>3, <3>5, <3>6, ConsoleError
  <2> QED
    BY <2>1, <2>2
<1>3. CASE PinAvailable
  <2>1. UNCHANGED outcome /\ subs' \subseteq subs
    BY <1>3 DEF PinAvailable
  <2>2. \A q \in Requests : pc'[q] = pc[q] \/ <<q, "newPin">> \in subs
    BY <1>3 DEF PinAvailable, Live, TypeOK
  <2>3. \A q \in Requests : ~Pending(q) => pc'[q] = pc[q]
    BY <2>2 DEF ConsoleInv, Subjects
  <2> QED
    BY <2>1, <2>3, ConsoleFrame
<1>4. CASE HandlerGivesNothing
  BY <1>4, ConsoleFrame DEF HandlerGivesNothing, reqVars, subVars
<1>5. CASE CancelEvent \/ ErrorEvent
  BY <1>5 DEF CancelEvent, ErrorEvent
<1>6. ASSUME NEW opened \in SUBSET Requests, SelectDevice(opened)
      PROVE  ConsoleInv'
  <2>1. UNCHANGED outcome /\ subs' \subseteq subs
    BY <1>6 DEF SelectDevice
  <2>2. \A q \in Requests : pc'[q] = pc[q] \/ <<q, "device">> \in subs
    BY <1>6 DEF SelectDevice, Live
  <2>3. \A q \in Requests : ~Pending(q) => pc'[q] = pc[q]
    BY <2>2 DEF ConsoleInv, Subjects
  <2> QED
    BY <2>1, <2>3, ConsoleFrame
<1> QED
  BY <1>1, <1>2, <1>3, <1>4, <1>5, <1>6 DEF UserStep

LEMMA ConsoleDevice ==
  ASSUME TypeOK, LifeInv, ConsoleInv, NEW r \in Requests, DeviceStep(r)
  PROVE  ConsoleInv'
<1>1. ASSUME NEW o \in Authenticators, InfoAnswered(r, o)
      PROVE  ConsoleInv'
  <2>1. /\ pc[r] = "info" /\ UNCHANGED <<outcome, subs>>
        /\ \A q \in Requests \ {r} : pc'[q] = pc[q]
    BY <1>1 DEF InfoAnswered, subVars, TypeOK
  <2> QED
    BY <2>1, ConsoleWorks
<1>2. CASE HandlerThrows(r) \/ RetriesRead(r) \/ SetPinReturns(r) \/ ExtensionsBuilt(r)
           \/ CredentialReturns(r)
  <2>1. /\ pc[r] \notin {"new", "end"} /\ UNCHANGED <<outcome, subs>>
        /\ \A q \in Requests \ {r} : pc'[q] = pc[q]
    BY <1>2 DEF HandlerThrows, RetriesRead, SetPinReturns, ExtensionsBuilt, CredentialReturns,
                subVars, TypeOK
  <2> QED
    BY <2>1, ConsoleWorks
<1>3. CASE TokenGranted(r)
  <2>1. CASE pc[r] = "pin" /\ r \notin lost
    <3>1. UNCHANGED <<outcome, subs>> /\ \A q \in Requests \ {r} : pc'[q] = pc[q]
      BY <1>3, <2>1 DEF TokenGranted, subVars, TypeOK
    <3> QED
      BY <2>1, <3>1, ConsoleWorks
  <2>2. CASE ~(pc[r] = "pin" /\ r \notin lost)
    BY <1>3, <2>2, ConsoleFrame DEF TokenGranted, subVars
  <2> QED
    BY <2>1, <2>2
<1>4. CASE PinInvalid(r) \/ PinBlocked(r) \/ TokenFails(r) \/ PinInvalidReported(r)
  <2>1. UNCHANGED <<pc, outcome, subs>>
    BY <1>4 DEF PinInvalid, PinBlocked, TokenFails, PinInvalidReported, reqVars, subVars
  <2> QED
    BY <2>1, ConsoleFrame
<1>5. CASE ExtensionsOutput(r)
  <2>1. pc[r] = "output"
    BY <1>5 DEF ExtensionsOutput
  <2>2. CASE Finish(r)
    BY <2>2, ConsoleFinish
  <2>3. CASE pc' = [pc EXCEPT ![r] = "failed"] /\ UNCHANGED <<outcome, subs>>
    <3>1. \A q \in Requests \ {r} : pc'[q] = pc[q]
      BY <2>3 DEF TypeOK
    <3> QED
      BY <2>1, <2>3, <3>1, ConsoleWorks
  <2> QED
    BY <1>5, <2>2, <2>3 DEF ExtensionsOutput
<1> QED
  BY <1>1, <1>2, <1>3, <1>4, <1>5 DEF DeviceStep

LEMMA ConsoleMicrotask ==
  ASSUME TypeOK, LifeInv, ConsoleInv, NEW r \in Requests, MicrotaskStep(r)
  PROVE  ConsoleInv'
<1>1. CASE Decide(r)
  <2>1. /\ pc[r] = "decide" /\ UNCHANGED outcome
        /\ \A q \in Requests \ {r} : pc'[q] = pc[q]
        /\ subs' \subseteq subs \cup {<<r, "pin">>, <<r, "newPin">>}
    BY <1>1 DEF Decide, TypeOK
  <2> QED
    BY <2>1, ConsoleWorks
<1>2. CASE MakeExtensionsInput(r) \/ SendCredentialCommand(r)
  <2>1. /\ pc[r] \in {"ready", "send"} /\ UNCHANGED <<outcome, subs>>
        /\ \A q \in Requests \ {r} : pc'[q] = pc[q]
    BY <1>2 DEF MakeExtensionsInput, SendCredentialCommand, CallDevice, subVars, TypeOK
  <2> QED
    BY <2>1, ConsoleWorks
<1>3. CASE CredentialParsed(r)
  <2>1. pc[r] = "succeeded"
    BY <1>3 DEF CredentialParsed
  <2>2. CASE Finish(r)
    BY <2>2, ConsoleFinish
  <2>3. CASE /\ UNCHANGED <<outcome, subs>>
             /\ \E after \in {"failed", "output"} : pc' = [pc EXCEPT ![r] = after]
    <3>1. \A q \in Requests \ {r} : pc'[q] = pc[q]
      BY <2>3 DEF TypeOK
    <3> QED
      BY <2>1, <2>3, <3>1, ConsoleWorks
  <2> QED
    BY <1>3, <2>2, <2>3 DEF CredentialParsed, CallDevice
<1>4. CASE CommandFails(r)
  <2>1. /\ pc[r] \in {"failed", "cancelled"} /\ pc' = [pc EXCEPT ![r] = "end"]
        /\ \E how \in {"cancel", "error"} : RaiseError(how, subs)
    BY <1>4 DEF CommandFails
  <2>2. Pending(r) /\ {"cancel", "error"} \subseteq Rejections
    BY <2>1 DEF ConsoleInv, Rejections
  <2> QED
    BY <2>1, <2>2, ConsoleError
<1> QED
  BY <1>1, <1>2, <1>3, <1>4 DEF MicrotaskStep

LEMMA ConsoleNext ==
  ASSUME ~DefaultModal, TypeOK, LifeInv, ConsoleInv, [Next]_vars
  PROVE  ConsoleInv'
<1>1. CASE CallerStep
  <2>1. ASSUME NEW r \in Requests, NEW uv \in Verifications, Call(r, uv)
        PROVE  ConsoleInv'
    <3>1. /\ outcome'[r] = "pending"
          /\ \A q \in Requests \ {r} : pc'[q] = pc[q] /\ outcome'[q] = outcome[q]
          /\ subs' = subs \cup {<<r, "cancel">>, <<r, "error">>, <<r, "request">>}
      BY <2>1 DEF Call, TypeOK
    <3> QED
      BY <3>1 DEF ConsoleInv, Pending
  <2>2. ASSUME NEW r \in Requests, CallRefused(r)
        PROVE  ConsoleInv'
    <3>1. /\ pc[r] = "new" /\ ((pc'[r] = "end") \/ (outcome'[r] = "pending"))
          /\ \A q \in Requests \ {r} : pc'[q] = pc[q] /\ outcome'[q] = outcome[q]
          /\ subs' = subs
      BY <2>2 DEF CallRefused, MayCall, subVars, TypeOK
    <3>2. ~Pending(r)
      BY <3>1 DEF LifeInv, LifeAt, Pending
    <3> QED
      BY <3>1, <3>2 DEF ConsoleInv, Pending
  <2> QED
    BY <1>1, <2>1, <2>2 DEF CallerStep
<1>2. CASE UserStep
  BY <1>2, ConsoleUser
<1>3. ASSUME NEW r \in Requests, DeviceStep(r)
      PROVE  ConsoleInv'
  BY <1>3, ConsoleDevice
<1>4. ASSUME NEW r \in Requests, MicrotaskStep(r)
      PROVE  ConsoleInv'
  BY <1>4, ConsoleMicrotask
<1>5. CASE Release \/ UnawaitedReturns \/ UNCHANGED vars
           \/ \E r \in Requests : DeviceAttached(r) \/ TimerFires(r)
  <2>1. UNCHANGED <<pc, outcome>> /\ subs' \subseteq subs
    BY <1>5 DEF Release, UnawaitedReturns, DeviceAttached, TimerFires, vars, reqVars, subVars
  <2> QED
    BY <2>1, ConsoleFrame
<1> QED
  BY <1>1, <1>2, <1>3, <1>4, <1>5 DEF Next

LEMMA ConsoleInit ==
  ASSUME Init
  PROVE  ConsoleInv
  BY DEF Init, ConsoleInv

(* Console mode, one request at a time: when the last promise has settled nothing of this.subs
   is left, a PIN subscription included, so that no PIN entered late is taken for it.  With
   the default modal this is false: a late device answer subscribes a settled request. *)
THEOREM NoSubscriptionHolds ==
  ASSUME ~Overlap, ~DefaultModal
  PROVE  Spec => []NoSubscriptionAfterSettle
<1> DEFINE Inv == TypeOK /\ LifeInv /\ ConsoleInv
<1>1. Init => Inv
  BY InitType, LifeInit, ConsoleInit
<1>2. Inv /\ [Next]_vars => Inv'
  BY NextType, LifeNext, ConsoleNext
<1>3. Inv => NoSubscriptionAfterSettle
  <2>1. ASSUME Inv, Quiet
        PROVE  subs = {}
    BY <2>1 DEF Quiet, ConsoleInv, TypeOK
  <2> QED
    BY <2>1 DEF NoSubscriptionAfterSettle
<1> QED
  BY <1>1, <1>2, <1>3, PTL DEF Spec

-----------------------------------------------------------------------------
(* No PIN before the PIN is asked for *)

(* Where the continuation stands before the client subscribes the request to the PIN. *)
Early == {"new", "asked", "select", "info", "retries", "decide", "newPin", "setPin"}

EarlyInv ==
  \A r \in Requests :
    pc[r] \in Early => tokenCalls[r] = 0 /\ retryCalls[r] = 0 /\ <<r, "pin">> \notin subs

LEMMA EarlyFrame ==
  ASSUME EarlyInv,
         \A q \in Requests : pc'[q] \in Early =>
           /\ pc[q] \in Early
           /\ tokenCalls'[q] = tokenCalls[q] /\ retryCalls'[q] = retryCalls[q]
           /\ <<q, "pin">> \in subs' => <<q, "pin">> \in subs
  PROVE  EarlyInv'
  BY DEF EarlyInv

(* Only r goes on, and no PIN call begins or ends. *)
LEMMA EarlyMoves ==
  ASSUME TypeOK, EarlyInv, NEW r \in Requests, UNCHANGED <<tokenCalls, retryCalls>>,
         \A q \in Requests \ {r} : pc'[q] = pc[q],
         pc'[r] \in Early => pc[r] \in Early,
         \A q \in Requests : <<q, "pin">> \in subs' => <<q, "pin">> \in subs
  PROVE  EarlyInv'
  BY EarlyFrame

LEMMA EarlyUser ==
  ASSUME TypeOK, LifeInv, EarlyInv, UserStep
  PROVE  EarlyInv'
<1>1. CASE Accept
  <2>1. /\ UNCHANGED <<tokenCalls, retryCalls>>
        /\ \A q \in Requests : pc'[q] = pc[q] \/ <<q, "request">> \in subs
        /\ \A q \in Requests : <<q, "pin">> \in subs' => <<q, "pin">> \in subs
    BY <1>1 DEF Accept, pinVars, Live
  <2>2. \A q \in Requests : pc'[q] = pc[q] \/ pc[q] \in Early
    BY <2>1 DEF LifeInv, LifeAt, Early
  <2> QED
    BY <2>1, <2>2, EarlyFrame
<1>2. CASE Deny
  <2>1. UNCHANGED <<tokenCalls, retryCalls>>
    BY <1>2 DEF Deny, pinVars
  <2>2. \A q \in Requests : pc'[q] \in {pc[q], "end"}
    BY <1>2 DEF Deny
  <2>3. subs' \subseteq subs
    BY <1>2 DEF Deny, RaiseError
  <2> QED
    BY <2>1, <2>2, <2>3, EarlyFrame DEF Early
<1>3. CASE PinAvailable
  <2>1. /\ UNCHANGED retryCalls /\ subs' \subseteq subs
        /\ \A q \in Requests : pc'[q] = pc[q] \/ <<q, "newPin">> \in subs
        /\ \A q \in Requests : tokenCalls'[q] = tokenCalls[q] \/ <<q, "pin">> \in subs
    BY <1>3 DEF PinAvailable, Live, TypeOK
  <2>2. \A q \in Requests : pc'[q] = pc[q] \/ pc[q] \in Early
    BY <2>1 DEF LifeInv, LifeAt, Early
  <2>3. \A q \in Requests : pc[q] \in Early => tokenCalls'[q] = tokenCalls[q]
    BY <2>1 DEF EarlyInv
  <2> QED
    BY <2>1, <2>2, <2>3, EarlyFrame
<1>4. CASE HandlerGivesNothing
  BY <1>4, EarlyFrame DEF HandlerGivesNothing, reqVars, subVars, pinVars
<1>5. CASE CancelEvent \/ ErrorEvent
  <2>1. UNCHANGED <<pc, tokenCalls, retryCalls>>
    BY <1>5 DEF CancelEvent, ErrorEvent, pinVars
  <2>2. subs' \subseteq subs
    BY <1>5 DEF CancelEvent, ErrorEvent, RaiseError
  <2> QED
    BY <2>1, <2>2, EarlyFrame
<1>6. ASSUME NEW opened \in SUBSET Requests, SelectDevice(opened)
      PROVE  EarlyInv'
  <2>1. /\ UNCHANGED <<tokenCalls, retryCalls>> /\ subs' \subseteq subs
        /\ \A q \in Requests : pc'[q] = pc[q] \/ <<q, "device">> \in subs
    BY <1>6 DEF SelectDevice, pinVars, Live
  <2>2. \A q \in Requests : pc'[q] = pc[q] \/ pc[q] \in Early
    BY <2>1 DEF LifeInv, LifeAt, Early
  <2> QED
    BY <2>1, <2>2, EarlyFrame
<1> QED
  BY <1>1, <1>2, <1>3, <1>4, <1>5, <1>6 DEF UserStep

LEMMA EarlyDevice ==
  ASSUME TypeOK, EarlyInv, NEW r \in Requests, DeviceStep(r)
  PROVE  EarlyInv'
<1>1. CASE \/ \E o \in Authenticators : InfoAnswered(r, o)
           \/ HandlerThrows(r) \/ RetriesRead(r) \/ SetPinReturns(r)
           \/ ExtensionsBuilt(r) \/ CredentialReturns(r)
  <2>1. UNCHANGED <<subs, tokenCalls, retryCalls>>
    BY <1>1 DEF InfoAnswered, HandlerThrows, RetriesRead, SetPinReturns, ExtensionsBuilt,
                CredentialReturns, subVars, pinVars
  <2>2. \A q \in Requests \ {r} : pc'[q] = pc[q]
    BY <1>1 DEF InfoAnswered, HandlerThrows, RetriesRead, SetPinReturns, ExtensionsBuilt,
                CredentialReturns, TypeOK
  <2>3. pc'[r] \in Early => pc[r] \in Early
    BY <1>1 DEF InfoAnswered, HandlerThrows, RetriesRead, SetPinReturns, ExtensionsBuilt,
                CredentialReturns, TypeOK, Early
  <2> QED
    BY <2>1, <2>2, <2>3, EarlyMoves
<1>2. CASE ExtensionsOutput(r)
  <2>1. UNCHANGED <<tokenCalls, retryCalls>> /\ subs' \subseteq subs
    BY <1>2 DEF ExtensionsOutput, Finish, pinVars
  <2>2. \E after \in {"end", "failed"} : pc' = [pc EXCEPT ![r] = after]
    BY <1>2 DEF ExtensionsOutput, Finish
  <2> QED
    BY <2>1, <2>2, EarlyMoves DEF TypeOK, Early
<1>3. CASE TokenGranted(r) \/ PinInvalid(r) \/ PinBlocked(r) \/ TokenFails(r) \/ PinInvalidReported(r)
  <2>1. /\ tokenCalls[r] > 0 \/ retryCalls[r] > 0
        /\ subs' = subs
        /\ \A q \in Requests \ {r} : pc'[q] = pc[q]
    BY <1>3 DEF TokenGranted, PinInvalid, PinBlocked, TokenFails, PinInvalidReported,
                reqVars, subVars, TypeOK
  <2>2. \A q \in Requests \ {r} : tokenCalls'[q] = tokenCalls[q]
    BY <1>3 DEF TokenGranted, PinInvalid, PinBlocked, TokenFails, PinInvalidReported, TypeOK
  <2>3. \A q \in Requests \ {r} : retryCalls'[q] = retryCalls[q]
    <3>1. retryCalls' \in {retryCalls, [retryCalls EXCEPT ![r] = @ + 1], [retryCalls EXCEPT ![r] = @ - 1]}
      BY <1>3, Zenon DEF TokenGranted, PinInvalid, PinBlocked, TokenFails, PinInvalidReported
    <3> QED
      BY <3>1 DEF TypeOK
  <2>4. pc[r] \notin Early
    <3>1. tokenCalls[r] # 0 \/ retryCalls[r] # 0
      BY <2>1 DEF TypeOK
    <3> QED
      BY <3>1 DEF EarlyInv
  <2>5. pc'[r] \in {pc[r], "ready"}
    BY <1>3 DEF TokenGranted, PinInvalid, PinBlocked, TokenFails, PinInvalidReported, reqVars, TypeOK
  <2> QED
    BY <2>1, <2>2, <2>3, <2>4, <2>5, EarlyFrame DEF Early
<1> QED
  BY <1>1, <1>2, <1>3 DEF DeviceStep

LEMMA EarlyMicrotask ==
  ASSUME TypeOK, EarlyInv, NEW r \in Requests, MicrotaskStep(r)
  PROVE  EarlyInv'
<1>1. CASE Decide(r)
  <2>1. /\ pc[r] = "decide" /\ UNCHANGED <<tokenCalls, retryCalls>>
        /\ \A q \in Requests \ {r} : pc'[q] = pc[q]
        /\ \/ subs' = subs
           \/ subs' = subs \cup {<<r, "newPin">>}
           \/ subs' = subs \cup {<<r, "pin">>} /\ pc'[r] = "pin"
    BY <1>1 DEF Decide, pinVars, TypeOK
  <2> QED
    BY <2>1, EarlyFrame DEF Early
<1>2. CASE MakeExtensionsInput(r) \/ SendCredentialCommand(r)
  <2>1. UNCHANGED <<tokenCalls, retryCalls, subs>>
    BY <1>2 DEF MakeExtensionsInput, SendCredentialCommand, subVars, pinVars
  <2>2. \E after \in {"exts", "dead", "credential", "failed"} : pc' = [pc EXCEPT ![r] = after]
    BY <1>2 DEF MakeExtensionsInput, SendCredentialCommand, CallDevice
  <2> QED
    BY <2>1, <2>2, EarlyMoves DEF TypeOK, Early
<1>3. CASE CredentialParsed(r) \/ CommandFails(r)
  <2>1. UNCHANGED <<tokenCalls, retryCalls>>
    BY <1>3 DEF CredentialParsed, CommandFails, pinVars
  <2>2. subs' \subseteq subs
    BY <1>3 DEF CredentialParsed, CommandFails, Finish, RaiseError
  <2>3. \E after \in {"end", "failed", "output"} : pc' = [pc EXCEPT ![r] = after]
    BY <1>3 DEF CredentialParsed, CommandFails, Finish, CallDevice
  <2> QED
    BY <2>1, <2>2, <2>3, EarlyMoves DEF TypeOK, Early
<1> QED
  BY <1>1, <1>2, <1>3 DEF MicrotaskStep

LEMMA EarlyNext ==
  ASSUME TypeOK, LifeInv, EarlyInv, [Next]_vars
  PROVE  EarlyInv'
<1>1. CASE CallerStep
  <2>1. UNCHANGED <<tokenCalls, retryCalls>>
    BY <1>1 DEF CallerStep, Call, CallRefused, pinVars
  <2>2. PICK r \in Requests : CallRefused(r) \/ \E uv \in Verifications : Call(r, uv)
    BY <1>1 DEF CallerStep
  <2>3. pc[r] = "new" /\ \A q \in Requests \ {r} : pc'[q] = pc[q]
    BY <2>2 DEF Call, CallRefused, MayCall, TypeOK
  <2>4. \A q \in Requests : <<q, "pin">> \in subs' => <<q, "pin">> \in subs
    BY <2>2 DEF Call, CallRefused, subVars
  <2> QED
    BY <2>1, <2>3, <2>4, EarlyMoves DEF Early
<1>2. CASE UserStep
  BY <1>2, EarlyUser
<1>3. ASSUME NEW r \in Requests, DeviceStep(r)
      PROVE  EarlyInv'
  BY <1>3, EarlyDevice
<1>4. ASSUME NEW r \in Requests, MicrotaskStep(r)
      PROVE  EarlyInv'
  BY <1>4, EarlyMicrotask
<1>5. CASE Release \/ UnawaitedReturns \/ UNCHANGED vars
           \/ \E r \in Requests : DeviceAttached(r) \/ TimerFires(r)
  <2>1. UNCHANGED <<pc, tokenCalls, retryCalls>> /\ subs' \subseteq subs
    BY <1>5 DEF Release, UnawaitedReturns, DeviceAttached, TimerFires, vars, reqVars, subVars, pinVars
  <2> QED
    BY <2>1, EarlyFrame
<1> QED
  BY <1>1, <1>2, <1>3, <1>4, <1>5 DEF Next

LEMMA EarlyInit ==
  ASSUME Init
  PROVE  EarlyInv
  BY DEF Init, EarlyInv

-----------------------------------------------------------------------------
(* Ceremony *)

(* A request that goes on to its command, or whose credential is about to reach the caller,
   is pending: what the refinement needs, and what each mode ensures in its own way. *)
CommandsPending ==
  \A r \in Requests :
    /\ pc[r] \in {"ready", "send", "succeeded"} => Pending(r)
    /\ pc[r] = "output" => Pending(r) \/ (Transport = "usb" /\ callOn[r] = "closed")

phases == [r \in Requests |-> Phase(r)]

(* What [C!Next]_(C!vars) says, without the instance: which step of Ceremony is taken. *)
LEMMA StepStutters ==
  ASSUME UNCHANGED <<outcome, accepted, sent>>
  PROVE  UNCHANGED C!vars
<1>1. phases' = phases
  BY DEF phases, Phase
<1> QED
  BY <1>1 DEF C!vars, phases

(* An error under LifeInv: the one pending request is rejected, if it still listens. *)
LEMMA RaiseErrorRejects ==
  ASSUME TypeOK, LifeInv, NEW how, NEW rest, rest \subseteq subs, RaiseError(how, rest)
  PROVE  \/ subs' = rest /\ UNCHANGED <<outcome, callOn>>
         \/ \E q \in Requests : /\ Pending(q) /\ <<q, "error">> \in rest
                                /\ subs' = {} /\ Revoke
                                /\ outcome' = [outcome EXCEPT ![q] = how]
<1> DEFINE listeners == {r \in Requests : <<r, "error">> \in rest}
<1>1. CASE listeners = {}
  BY <1>1 DEF RaiseError, cliVars
<1>2. CASE listeners # {}
  <2>1. subs' = {} /\ outcome' = Settle(Min(listeners), how) /\ Revoke
    BY <1>2 DEF RaiseError
  <2>2. PICK q \in Requests : <<q, "error">> \in rest
    BY <1>2
  <2>3. \A r \in listeners : Pending(r)
    BY DEF LifeInv, LifeAt, Session
  <2>4. Pending(q) /\ listeners = {q}
    BY <2>2, <2>3 DEF LifeInv, AlonePending
  <2>5. outcome' = [outcome EXCEPT ![q] = how]
    BY <2>1, <2>4, MinSingle DEF Settle, Pending
  <2> QED
    BY <2>1, <2>2, <2>4, <2>5
<1> QED
  BY <1>1, <1>2

LEMMA StepRejects ==
  ASSUME TypeOK, NEW how \in Rejections \ {"invalid"}, NEW q \in Requests, Pending(q),
         how = "notAllowed" => Phase(q) = "asked",
         outcome' = [outcome EXCEPT ![q] = how],
         UNCHANGED <<accepted, sent>>
  PROVE  C!Next
<1>1. \A r \in Requests : Phase(r)' = Phase(r)
  BY DEF TypeOK, Phase, Pending, Rejections
<1>2. phases' = phases
  BY <1>1 DEF phases
<1>3. C!Reject(q, how)
  BY <1>2 DEF C!Reject, phases, Pending
<1> QED
  BY <1>3 DEF C!Next

LEMMA ErrorRejects ==
  ASSUME TypeOK, LifeInv, NEW how \in Rejections \ {"invalid", "notAllowed"},
         NEW rest, rest \subseteq subs, RaiseError(how, rest), UNCHANGED <<accepted, sent>>
  PROVE  C!Next \/ UNCHANGED C!vars
<1>1. CASE UNCHANGED outcome
  BY <1>1, StepStutters
<1>2. ASSUME NEW q \in Requests, Pending(q), outcome' = [outcome EXCEPT ![q] = how]
      PROVE  C!Next
  BY <1>2, StepRejects
<1> QED
  BY <1>1, <1>2, RaiseErrorRejects

LEMMA StepGrants ==
  ASSUME TypeOK, LifeInv, NEW r \in Requests, pc[r] \in Commanded, Pending(r), Finish(r),
         UNCHANGED <<accepted, sent>>
  PROVE  C!Next
<1>1. r \in sent
  BY DEF LifeInv, LifeAt
<1>2. outcome' = [outcome EXCEPT ![r] = "resolved"]
  BY DEF Finish, Settle, Pending
<1>3. \A q \in Requests : Phase(q)' = Phase(q)
  BY <1>1, <1>2 DEF TypeOK, Phase
<1>4. phases' = phases
  BY <1>3 DEF phases
<1>5. C!Grant(r)
  BY <1>1, <1>2, <1>4 DEF C!Grant, phases, Phase, Pending
<1> QED
  BY <1>5 DEF C!Next

LEMMA CeremonyCaller ==
  ASSUME TypeOK, LifeInv, CallerStep
  PROVE  C!Next
<1>1. ASSUME NEW r \in Requests, outcome[r] = "none", r \notin accepted, r \notin sent,
             UNCHANGED <<accepted, sent>>,
             outcome' = [outcome EXCEPT ![r] = "pending"]
      PROVE  C!Next
  <2>1. /\ \A q \in Requests \ {r} : Phase(q)' = Phase(q)
        /\ Phase(r)' = "asked"
    BY <1>1 DEF TypeOK, Phase
  <2>2. phases' = [phases EXCEPT ![r] = "asked"]
    BY <2>1 DEF phases
  <2>3. C!Ask(r)
    BY <1>1, <2>2 DEF C!Ask, phases
  <2> QED
    BY <2>3 DEF C!Next
<1>2. ASSUME NEW r \in Requests, outcome[r] = "none", r \notin accepted, r \notin sent,
             UNCHANGED <<accepted, sent>>,
             outcome' = [outcome EXCEPT ![r] = "invalid"]
      PROVE  C!Next
  <2>1. \A q \in Requests : Phase(q)' = Phase(q)
    BY <1>2 DEF TypeOK, Phase
  <2>2. phases' = phases
    BY <2>1 DEF phases
  <2>3. C!Refuse(r)
    BY <1>2, <2>2 DEF C!Refuse, phases
  <2> QED
    BY <2>3 DEF C!Next
<1>3. ASSUME NEW r \in Requests, NEW uv \in Verifications, Call(r, uv)
      PROVE  C!Next
  BY <1>1, <1>3 DEF Call, MayCall, LifeInv, LifeAt
<1>4. ASSUME NEW r \in Requests, CallRefused(r)
      PROVE  C!Next
  BY <1>1, <1>2, <1>4 DEF CallRefused, MayCall, LifeInv, LifeAt
<1> QED
  BY <1>3, <1>4 DEF CallerStep

LEMMA CeremonyUser ==
  ASSUME TypeOK, LifeInv, UserStep
  PROVE  C!Next \/ UNCHANGED C!vars
<1>1. CASE Accept
  <2> DEFINE listeners == Live("request")
  <2>1. UNCHANGED <<outcome, sent>> /\ accepted' = accepted \cup listeners
    BY <1>1 DEF Accept
  <2>2. CASE listeners = {}
    BY <2>1, <2>2, StepStutters
  <2>3. ASSUME NEW r \in Requests, <<r, "request">> \in subs
        PROVE  C!Next
    <3>1. listeners = {r} /\ Pending(r) /\ pc[r] = "asked"
      BY <2>3 DEF LifeInv, AlonePending, LifeAt, Session, Live
    <3>2. Phase(r) = "asked" /\ r \notin sent
      BY <3>1 DEF LifeInv, LifeAt, Phase, Pending
    <3>3. /\ \A q \in Requests \ {r} : Phase(q)' = Phase(q)
          /\ Phase(r)' = "approved"
      BY <2>1, <3>1, <3>2 DEF Phase
    <3>4. phases' = [phases EXCEPT ![r] = "approved"]
      BY <3>3 DEF phases
    <3>5. C!Approve(r)
      BY <2>1, <3>1, <3>2, <3>4 DEF C!Approve, phases, Pending
    <3> QED
      BY <3>5 DEF C!Next
  <2> QED
    BY <2>2, <2>3 DEF Live
<1>2. CASE Deny
  <2> DEFINE listeners == Live("request")
             rest == subs \ {<<Min(listeners), "request">>}
  <2>1. UNCHANGED <<accepted, sent>>
    BY <1>2 DEF Deny
  <2>2. CASE listeners = {}
    BY <1>2, <2>1, <2>2, StepStutters DEF Deny
  <2>3. CASE listeners # {}
    <3>1. RaiseError("notAllowed", rest) /\ rest \subseteq subs
      BY <1>2, <2>3 DEF Deny
    <3>2. PICK r \in Requests : <<r, "request">> \in subs
      BY <2>3 DEF Live
    <3>3. Pending(r) /\ Phase(r) = "asked"
      BY <3>2 DEF LifeInv, LifeAt, Session, Phase, Pending
    <3>4. CASE UNCHANGED outcome
      BY <2>1, <3>4, StepStutters
    <3>5. ASSUME NEW q \in Requests, Pending(q), outcome' = [outcome EXCEPT ![q] = "notAllowed"]
          PROVE  C!Next
      <4>1. q = r
        BY <3>3, <3>5 DEF LifeInv, AlonePending
      <4>2. "notAllowed" \in Rejections \ {"invalid"}
        BY DEF Rejections
      <4> QED
        BY <2>1, <3>3, <3>5, <4>1, <4>2, StepRejects
    <3> QED
      BY <3>1, <3>4, <3>5, RaiseErrorRejects
  <2> QED
    BY <2>2, <2>3
<1>3. CASE CancelEvent
  <2> DEFINE rest == subs \ (Requests \X {"cancel"})
  <2>1. UNCHANGED <<accepted, sent>> /\ rest \subseteq subs
    BY <1>3 DEF CancelEvent
  <2>2. \/ UNCHANGED outcome
        \/ \E how \in {"unknown", "cancel"} : RaiseError(how, rest)
    BY <1>3 DEF CancelEvent
  <2>3. {"unknown", "cancel"} \subseteq Rejections \ {"invalid", "notAllowed"}
    BY DEF Rejections
  <2> QED
    BY <2>1, <2>2, <2>3, StepStutters, ErrorRejects
<1>4. CASE ErrorEvent
  <2>1. "error" \in Rejections \ {"invalid", "notAllowed"}
    BY DEF Rejections
  <2> QED
    BY <1>4, <2>1, ErrorRejects DEF ErrorEvent
<1>5. CASE PinAvailable \/ HandlerGivesNothing \/ \E opened \in SUBSET Requests : SelectDevice(opened)
  <2>1. UNCHANGED <<outcome, accepted, sent>>
    BY <1>5 DEF PinAvailable, HandlerGivesNothing, SelectDevice, reqVars
  <2> QED
    BY <2>1, StepStutters
<1> QED
  BY <1>1, <1>2, <1>3, <1>4, <1>5 DEF UserStep

LEMMA CeremonyDevice ==
  ASSUME TypeOK, LifeInv, CommandsPending, NEW r \in Requests, DeviceStep(r)
  PROVE  C!Next \/ UNCHANGED C!vars
<1>1. CASE ExtensionsOutput(r)
  <2>1. pc[r] = "output" /\ UNCHANGED <<accepted, sent>>
    BY <1>1 DEF ExtensionsOutput
  <2>2. CASE Finish(r) /\ ~(Transport = "usb" /\ callOn[r] = "closed")
    <3>1. pc[r] \in Commanded /\ Pending(r)
      BY <2>1, <2>2 DEF Commanded, CommandsPending
    <3> QED
      BY <2>1, <2>2, <3>1, StepGrants
  <2>3. CASE UNCHANGED outcome
    BY <2>1, <2>3, StepStutters
  <2> QED
    BY <1>1, <2>2, <2>3 DEF ExtensionsOutput
<1>2. CASE ~ExtensionsOutput(r)
  <2>1. UNCHANGED <<outcome, accepted, sent>>
    BY <1>2 DEF DeviceStep, InfoAnswered, HandlerThrows, RetriesRead, SetPinReturns, TokenGranted,
                PinInvalid, PinBlocked, TokenFails, PinInvalidReported, ExtensionsBuilt,
                CredentialReturns, reqVars
  <2> QED
    BY <2>1, StepStutters
<1> QED
  BY <1>1, <1>2

LEMMA CeremonyMicrotask ==
  ASSUME TypeOK, LifeInv, CommandsPending, NEW r \in Requests, MicrotaskStep(r)
  PROVE  C!Next \/ UNCHANGED C!vars
<1>1. CASE Decide(r) \/ MakeExtensionsInput(r)
  BY <1>1, StepStutters DEF Decide, MakeExtensionsInput
<1>2. CASE SendCredentialCommand(r)
  <2>1. pc[r] \in {"ready", "send"} /\ UNCHANGED <<outcome, accepted>>
    BY <1>2 DEF SendCredentialCommand
  <2>2. CASE ~available
    BY <1>2, <2>1, <2>2, StepStutters DEF SendCredentialCommand
  <2>3. CASE available
    <3>1. sent' = sent \cup {r}
      BY <1>2, <2>3 DEF SendCredentialCommand
    <3>2. Pending(r) /\ r \in accepted /\ r \notin sent
      BY <2>1 DEF CommandsPending, LifeInv, LifeAt, Approved
    <3>3. Phase(r) = "approved" /\ Phase(r)' = "commanded"
          /\ \A q \in Requests \ {r} : Phase(q)' = Phase(q)
      BY <2>1, <3>1, <3>2 DEF Phase
    <3>4. phases' = [phases EXCEPT ![r] = "commanded"]
      BY <3>3 DEF phases
    <3>5. C!Command(r)
      BY <2>1, <3>2, <3>3, <3>4 DEF C!Command, phases, Pending
    <3> QED
      BY <3>5 DEF C!Next
  <2> QED
    BY <2>2, <2>3
<1>3. CASE CredentialParsed(r)
  <2>1. pc[r] = "succeeded" /\ UNCHANGED <<accepted, sent>>
    BY <1>3 DEF CredentialParsed
  <2>2. CASE Finish(r)
    <3>1. pc[r] \in Commanded /\ Pending(r)
      BY <2>1 DEF Commanded, CommandsPending
    <3> QED
      BY <2>1, <2>2, <3>1, StepGrants
  <2>3. CASE UNCHANGED outcome
    BY <2>1, <2>3, StepStutters
  <2> QED
    BY <1>3, <2>2, <2>3 DEF CredentialParsed
<1>4. CASE CommandFails(r)
  <2>1. UNCHANGED <<accepted, sent>> /\ \E how \in {"cancel", "error"} : RaiseError(how, subs)
    BY <1>4 DEF CommandFails
  <2>2. {"cancel", "error"} \subseteq Rejections \ {"invalid", "notAllowed"}
    BY DEF Rejections
  <2> QED
    BY <2>1, <2>2, ErrorRejects
<1> QED
  BY <1>1, <1>2, <1>3, <1>4 DEF MicrotaskStep

(* Every step of the client is a step of Ceremony, or changes nothing it speaks of. *)
LEMMA CeremonyStep ==
  ASSUME TypeOK, LifeInv, CommandsPending, [Next]_vars
  PROVE  [C!Next]_(C!vars)
<1>1. CASE CallerStep
  BY <1>1, CeremonyCaller
<1>2. CASE UserStep
  BY <1>2, CeremonyUser
<1>3. ASSUME NEW r \in Requests, DeviceStep(r)
      PROVE  [C!Next]_(C!vars)
  BY <1>3, CeremonyDevice
<1>4. ASSUME NEW r \in Requests, MicrotaskStep(r)
      PROVE  [C!Next]_(C!vars)
  BY <1>4, CeremonyMicrotask
<1>5. CASE Release \/ UnawaitedReturns \/ UNCHANGED vars
           \/ \E r \in Requests : DeviceAttached(r) \/ TimerFires(r)
  <2>1. UNCHANGED <<outcome, accepted, sent>>
    BY <1>5 DEF Release, UnawaitedReturns, DeviceAttached, TimerFires, vars, reqVars
  <2> QED
    BY <2>1, StepStutters
<1> QED
  BY <1>1, <1>2, <1>3, <1>4, <1>5 DEF Next

LEMMA CeremonyInit ==
  ASSUME Init
  PROVE  C!Init
<1>1. \A r \in Requests : Phase(r) = "idle"
  BY DEF Init, Phase
<1> QED
  BY <1>1 DEF Init, C!Init

LEMMA ConsoleCommandsPending ==
  ASSUME ConsoleInv
  PROVE  CommandsPending
  BY DEF ConsoleInv, CommandsPending

(* Console mode, one request at a time: the client implements Ceremony.  For any number of
   requests, whatever devices, timers and release() do, a promise settles once, is granted only
   on a command sent for it with the user's approval, and is refused as not allowed only while
   the user is asked. *)
THEOREM CeremonyHolds ==
  ASSUME ~Overlap, ~DefaultModal
  PROVE  Spec => CeremonySpec
<1> DEFINE Inv == TypeOK /\ LifeInv /\ ConsoleInv
<1>1. Init => Inv /\ C!Init
  BY InitType, LifeInit, ConsoleInit, CeremonyInit
<1>2. Inv /\ [Next]_vars => Inv'
  BY NextType, LifeNext, ConsoleNext
<1>3. Inv /\ [Next]_vars => [C!Next]_(C!vars)
  BY CeremonyStep, ConsoleCommandsPending
<1> HIDE DEF Inv
<1> QED
  BY <1>1, <1>2, <1>3, PTL DEF Spec, CeremonySpec, C!Spec
=============================================================================
