---------------------------- MODULE ClientPinProofs ----------------------------
(***************************************************************************)
(* Theorems about ClientPin for every value of its constants.              *)
(*                                                                         *)
(* Inv tells how far the operations of a request are from what the request *)
(* waits for; QuietInv, that the history quiet means what it says;         *)
(* TokenInv and SecretInv, which keys an operation that is quiet relies    *)
(* on; AloneInv, that a request without another beside it finds its own    *)
(* client data in the session.                                             *)
(***************************************************************************)
EXTENDS ClientPin, FiniteSetTheorems, SequenceTheorems, TLAPS

-----------------------------------------------------------------------------
(* Types *)

Records == [pc : {"idle", "asking", "keyed", "sent", "answered", "over"},
            pin : {"none", "right", "wrong"},
            peer : Keys, under : Keys,
            result : {"none", "granted", "invalid", "refused", "genuine",
                      "garbage", "accepted", "rejected"}]
Tokens == {"none", "genuine", "garbage"}
Params == [token : Tokens, hash : Requests \cup {None}]

(* The steps that the operations of each kind go through. *)
PhasesOf(k) ==
    IF k \in {"in", "out"} THEN {"idle", "asking", "keyed", "over"}
    ELSE IF k = "command" THEN {"idle", "sent", "answered", "over"}
    ELSE {"idle", "asking", "keyed", "sent", "answered", "over"}

(* An operation has no data before it starts, and no result before its answer. *)
CallAt(c) ==
    /\ call[c].pc \in PhasesOf(c[2])
    /\ call[c].pc = "idle" => call[c] = NoCall
    /\ call[c].pc \in {"asking", "keyed", "sent"} => call[c].result = "none"

CallInv == \A c \in Calls : CallAt(c)

(* The stages of a request before its token. *)
Early == {"idle", "set", "setting", "pin"}

(* What a request waits for tells how far its operations are. *)
StageAt(r) ==
    /\ stage[r] \in {"idle", "set"} => call[<<r, "set">>].pc = "idle"
    /\ call[<<r, "set">>].pc \in {"asking", "keyed"} => stage[r] = "setting"
    /\ stage[r] \in Early => call[<<r, "in">>].pc = "idle"
    /\ call[<<r, "in">>].pc \in {"asking", "keyed"} => stage[r] = "exts"
    /\ stage[r] \in Early \cup {"exts"} => call[<<r, "command">>].pc = "idle"
    /\ call[<<r, "command">>].pc \in {"sent", "answered"} => stage[r] = "command"
    /\ stage[r] \in Early \cup {"exts", "command"} => call[<<r, "out">>].pc = "idle"
    /\ call[<<r, "out">>].pc \in {"asking", "keyed"} => stage[r] = "output"
    /\ stage[r] = "output" => call[<<r, "command">>].pc = "over"

StageInv == \A r \in Requests : StageAt(r)

Inv == TypeOK /\ CallInv /\ StageInv

LEMMA CallsOf ==
  /\ \A r \in Requests : /\ <<r, "set">> \in Calls /\ <<r, "in">> \in Calls
                         /\ <<r, "command">> \in Calls /\ <<r, "out">> \in Calls
  /\ \A r \in Requests, s \in PinSlots : <<r, s>> \in Calls
  /\ \A c \in Calls : /\ c[1] \in Requests /\ c = <<c[1], c[2]>>
                      /\ c[2] \in PinSlots \cup {"set", "in", "command", "out"}
  /\ \A s \in PinSlots : s \notin {"set", "in", "command", "out"}
BY ConstantsAssumption DEF ConstantsAssumption, Calls

(* A record with one field replaced is one still. *)
LEMMA Fields ==
  ASSUME NEW f \in Records
  PROVE  /\ \A x \in {"idle", "asking", "keyed", "sent", "answered", "over"} :
              [f EXCEPT !.pc = x] \in Records
         /\ \A x \in Keys : [f EXCEPT !.peer = x] \in Records
BY DEF Records

LEMMA NoCallType == NoCall \in Records
BY DEF NoCall, Records, Keys

(* A step of operation c alone changes its call only. *)
LEMMA OneCall ==
  ASSUME TypeOK, NEW c \in Calls, NEW f \in Records, call' = [call EXCEPT ![c] = f]
  PROVE  /\ call' \in [Calls -> Records] /\ call'[c] = f
         /\ \A d \in Calls \ {c} : call'[d] = call[d]
BY DEF TypeOK, Records

LEMMA TwoCalls ==
  ASSUME TypeOK, NEW c \in Calls, NEW f \in Records, NEW d \in Calls, NEW g \in Records, c # d,
         call' = [call EXCEPT ![c] = f, ![d] = g]
  PROVE  /\ call' \in [Calls -> Records] /\ call'[c] = f /\ call'[d] = g
         /\ \A e \in Calls \ {c, d} : call'[e] = call[e]
BY DEF TypeOK, Records

-----------------------------------------------------------------------------
(* What each action does *)

LEMMA BeginEffect ==
  ASSUME TypeOK, NEW r \in Requests, Begin(r)
  PROVE  /\ stage[r] = "idle" /\ stage'[r] \in {"pin", "set"}
         /\ \A q \in Requests \ {r} : stage'[q] = stage[q]
         /\ stage' \in [Requests -> {"idle", "set", "setting", "pin", "exts", "command", "output", "done"}]
         /\ UNCHANGED <<platformKey, hashOf, call, secret, token, param, authKey, pinSet, retries,
                        queue, quiet>>
         /\ subs' = subs \cup {r}
BY DEF Begin, platform, authenticator, TypeOK

LEMMA SendSetPinEffect ==
  ASSUME TypeOK, NEW r \in Requests, SendSetPin(r)
  PROVE  /\ call[<<r, "set">>].pc = "keyed"
         /\ call' \in [Calls -> Records]
         /\ call'[<<r, "set">>] = [call[<<r, "set">>] EXCEPT !.pc = "sent"]
         /\ \A d \in Calls \ {<<r, "set">>} : call'[d] = call[d]
         /\ stage'[r] = "pin" /\ \A q \in Requests \ {r} : stage'[q] = stage[q]
         /\ stage' \in [Requests -> {"idle", "set", "setting", "pin", "exts", "command", "output", "done"}]
         /\ platformKey' = <<r, "set">> /\ queue' = Append(queue, <<r, "set">>)
         /\ UNCHANGED <<hashOf, token, param, secret, authKey, pinSet, retries, quiet, alone>>
         /\ subs' = subs \cup {r}
<1> DEFINE c == <<r, "set">>
<1>1. c \in Calls
  BY CallsOf
<1>2. call[c] \in Records
  BY <1>1 DEF TypeOK, Records
<1>3. [call[c] EXCEPT !.pc = "sent"] \in Records
  BY <1>2, Fields
<1>4. call' = [call EXCEPT ![c] = [call[c] EXCEPT !.pc = "sent"]]
  BY DEF SendSetPin, Encapsulate
<1>5. /\ call' \in [Calls -> Records] /\ call'[c] = [call[c] EXCEPT !.pc = "sent"]
      /\ \A d \in Calls \ {c} : call'[d] = call[d]
  BY <1>1, <1>3, <1>4, OneCall
<1> QED
  BY <1>5 DEF SendSetPin, Encapsulate, authenticator, history, TypeOK

LEMMA SendGetPinTokenEffect ==
  ASSUME TypeOK, NEW r \in Requests, NEW s \in PinSlots, SendGetPinToken(r, s)
  PROVE  /\ call[<<r, s>>].pc = "keyed"
         /\ call' \in [Calls -> Records]
         /\ call'[<<r, s>>] = [call[<<r, s>>] EXCEPT !.pc = "sent"]
         /\ \A d \in Calls \ {<<r, s>>} : call'[d] = call[d]
         /\ platformKey' = <<r, s>> /\ queue' = Append(queue, <<r, s>>)
         /\ UNCHANGED <<hashOf, stage, subs, token, param, secret, authKey, pinSet, retries,
                        quiet, alone>>
<1> DEFINE c == <<r, s>>
<1>1. c \in Calls
  BY CallsOf
<1>2. call[c] \in Records
  BY <1>1 DEF TypeOK, Records
<1>3. [call[c] EXCEPT !.pc = "sent"] \in Records
  BY <1>2, Fields
<1>4. call' = [call EXCEPT ![c] = [call[c] EXCEPT !.pc = "sent"]]
  BY DEF SendGetPinToken, Encapsulate
<1>5. /\ call' \in [Calls -> Records] /\ call'[c] = [call[c] EXCEPT !.pc = "sent"]
      /\ \A d \in Calls \ {c} : call'[d] = call[d]
  BY <1>1, <1>3, <1>4, OneCall
<1> QED
  BY <1>5 DEF SendGetPinToken, Encapsulate, request, authenticator, history

LEMMA TokenRefusedEffect ==
  ASSUME TypeOK, NEW r \in Requests, NEW s \in PinSlots, TokenRefused(r, s)
  PROVE  /\ call[<<r, s>>].pc = "answered"
         /\ call' \in [Calls -> Records]
         /\ call'[<<r, s>>].pc = "over" /\ call'[<<r, s>>].pin = call[<<r, s>>].pin
         /\ call'[<<r, s>>].result = call[<<r, s>>].result
         /\ \A d \in Calls \ {<<r, s>>} : call'[d] = call[d]
         /\ UNCHANGED <<platformKey, hashOf, stage, subs, token, param, secret, authKey, pinSet,
                        retries, queue, quiet, alone>>
<1> DEFINE c == <<r, s>>
           new == [NoCall EXCEPT !.pc = "over", !.pin = call[c].pin, !.result = call[c].result]
<1>1. c \in Calls
  BY CallsOf
<1>2. call[c] \in Records
  BY <1>1 DEF TypeOK, Records
<1>3. new \in Records /\ new.pc = "over" /\ new.pin = call[c].pin /\ new.result = call[c].result
  BY <1>2, NoCallType DEF Records, NoCall
<1>4. call' = [call EXCEPT ![c] = new]
  BY DEF TokenRefused, Over
<1> HIDE DEF new
<1>5. /\ call' \in [Calls -> Records] /\ call'[c] = new
      /\ \A d \in Calls \ {c} : call'[d] = call[d]
  BY <1>1, <1>3, <1>4, OneCall
<1> QED
  BY <1>3, <1>5 DEF TokenRefused, platform, request, authenticator, history

LEMMA SendSecretCommandEffect ==
  ASSUME TypeOK, NEW r \in Requests, SendSecretCommand(r)
  PROVE  /\ call[<<r, "in">>].pc = "keyed"
         /\ call' \in [Calls -> Records]
         /\ call'[<<r, "in">>] = [call[<<r, "in">>] EXCEPT !.pc = "over"]
         /\ call'[<<r, "command">>] = [call[<<r, "command">>] EXCEPT !.pc = "sent"]
         /\ \A d \in Calls \ {<<r, "in">>, <<r, "command">>} : call'[d] = call[d]
         /\ stage'[r] = "command" /\ \A q \in Requests \ {r} : stage'[q] = stage[q]
         /\ stage' \in [Requests -> {"idle", "set", "setting", "pin", "exts", "command", "output", "done"}]
         /\ platformKey' = <<r, "in">> /\ queue' = Append(queue, <<r, "command">>)
         /\ param' = [param EXCEPT ![r] = [token |-> token[r], hash |-> hashOf]]
         /\ UNCHANGED <<hashOf, subs, token, secret, authKey, pinSet, retries, quiet, alone>>
<1> DEFINE c == <<r, "in">>
           d == <<r, "command">>
<1>1. c \in Calls /\ d \in Calls /\ c # d
  BY CallsOf
<1>2. call[c] \in Records /\ call[d] \in Records
  BY <1>1 DEF TypeOK, Records
<1>3. [call[c] EXCEPT !.pc = "over"] \in Records /\ [call[d] EXCEPT !.pc = "sent"] \in Records
  BY <1>2, Fields
<1>4. call' = [call EXCEPT ![c] = [call[c] EXCEPT !.pc = "over"],
                           ![d] = [call[d] EXCEPT !.pc = "sent"]]
  BY <1>1 DEF SendSecretCommand, TypeOK
<1> HIDE DEF c, d
<1>5. /\ call' \in [Calls -> Records] /\ call'[c] = [call[c] EXCEPT !.pc = "over"]
      /\ call'[d] = [call[d] EXCEPT !.pc = "sent"]
      /\ \A e \in Calls \ {c, d} : call'[e] = call[e]
  BY <1>1, <1>3, <1>4, TwoCalls
<1> QED
  BY <1>5 DEF SendSecretCommand, Param, authenticator, history, TypeOK, c, d

(* Operations that have been asked for. *)
LEMMA AskedOne ==
  ASSUME NEW f \in [Calls -> Records], NEW c \in Calls
  PROVE  /\ Ask(f, <<c>>, "none") \in [Calls -> Records]
         /\ Ask(f, <<c>>, "none")[c] = [f[c] EXCEPT !.pc = "asking", !.pin = "none"]
         /\ \A d \in Calls \ {c} : Ask(f, <<c>>, "none")[d] = f[d]
<1>1. \A d \in Calls : (\E i \in DOMAIN <<c>> : <<c>>[i] = d) <=> d = c
  OBVIOUS
<1>2. \A d \in Calls : [f[d] EXCEPT !.pc = "asking", !.pin = "none"] \in Records
  BY DEF Records
<1>3. Ask(f, <<c>>, "none") =
        [d \in Calls |-> IF d = c THEN [f[d] EXCEPT !.pc = "asking", !.pin = "none"] ELSE f[d]]
  BY <1>1 DEF Ask
<1> QED
  BY <1>2, <1>3

Stages == {"idle", "set", "setting", "pin", "exts", "command", "output", "done"}

LEMMA OverAt ==
  ASSUME TypeOK, NEW c \in Calls,
         NEW x \in {"none", "granted", "invalid", "refused", "genuine", "garbage"}
  PROVE  /\ Over(call, c, x) \in [Calls -> Records]
         /\ Over(call, c, x)[c].pc = "over" /\ Over(call, c, x)[c].pin = call[c].pin
         /\ Over(call, c, x)[c].result = x
         /\ \A d \in Calls \ {c} : Over(call, c, x)[d] = call[d]
<1> DEFINE new == [NoCall EXCEPT !.pc = "over", !.pin = call[c].pin, !.result = x]
<1>1. call \in [Calls -> Records]
  BY DEF TypeOK, Records
<1>2. new \in Records /\ new.pc = "over" /\ new.pin = call[c].pin /\ new.result = x
  BY <1>1, NoCallType DEF Records, NoCall
<1>3. Over(call, c, x) = [call EXCEPT ![c] = new]
  BY DEF Over
<1> HIDE DEF new
<1> QED
  BY <1>1, <1>2, <1>3

(* A token was got.  The request goes on with its extension or its command if it
   waits for it; otherwise the token is dropped. *)
LEMMA TokenReturnsEffect ==
  ASSUME TypeOK, NEW r \in Requests, NEW s \in PinSlots, TokenReturns(r, s)
  PROVE  LET c == <<r, s>>
             in == <<r, "in">>
             command == <<r, "command">>
             t == Decrypt(call[c].peer, c, call[c].under)
         IN  /\ call[c].pc = "answered" /\ call[c].result = "granted" /\ t \in {"genuine", "garbage"}
             /\ call' \in [Calls -> Records] /\ stage' \in [Requests -> Stages]
             /\ call'[c].pc = "over" /\ call'[c].pin = call[c].pin /\ call'[c].result = t
             /\ \A d \in Calls \ {c, in, command} : call'[d] = call[d]
             /\ \A q \in Requests \ {r} : stage'[q] = stage[q]
             /\ UNCHANGED <<platformKey, subs, secret, authKey, pinSet, retries, alone>>
             /\ \/ /\ stage[r] # "pin"
                   /\ UNCHANGED <<stage, token, hashOf, param, queue, quiet>>
                   /\ call'[in] = call[in] /\ call'[command] = call[command]
                \/ /\ stage[r] = "pin" /\ stage'[r] = "exts" /\ r \in secret
                   /\ token' = [token EXCEPT ![r] = t] /\ hashOf' = r
                   /\ call'[in] = [call[in] EXCEPT !.pc = "asking", !.pin = "none"]
                   /\ call'[command] = call[command]
                   /\ queue' = Append(queue, in) /\ Begins({in}, {c}) /\ UNCHANGED param
                \/ /\ stage[r] = "pin" /\ stage'[r] = "command" /\ r \notin secret
                   /\ token' = [token EXCEPT ![r] = t] /\ hashOf' = r
                   /\ call'[in] = call[in]
                   /\ call'[command] = [call[command] EXCEPT !.pc = "sent"]
                   /\ param' = [param EXCEPT ![r] = [token |-> t, hash |-> r]]
                   /\ queue' = Append(queue, command) /\ UNCHANGED quiet
<1> DEFINE c == <<r, s>>
           in == <<r, "in">>
           command == <<r, "command">>
           t == Decrypt(call[c].peer, c, call[c].under)
           over == Over(call, c, t)
<1>1. c \in Calls /\ in \in Calls /\ command \in Calls /\ c # in /\ c # command /\ in # command
  BY CallsOf
<1>2. t \in {"genuine", "garbage"}
  BY DEF Decrypt
<1>3. /\ over \in [Calls -> Records] /\ over[c].pc = "over" /\ over[c].pin = call[c].pin
      /\ over[c].result = t /\ \A d \in Calls \ {c} : over[d] = call[d]
  <2> HIDE DEF t, c
  <2> QED
    BY <1>1, <1>2, OverAt
<1>4. /\ call[c].pc = "answered" /\ call[c].result = "granted"
      /\ UNCHANGED <<platformKey, subs, secret, authKey, pinSet, retries, alone>>
  BY DEF TokenReturns, authenticator
<1>5. CASE stage[r] # "pin"
  <2>1. call' = over /\ UNCHANGED <<stage, token, hashOf, param, queue, quiet>>
    BY <1>5 DEF TokenReturns
  <2>2. stage' \in [Requests -> Stages]
    BY <2>1 DEF TypeOK, Stages
  <2> HIDE DEF over, t, c, in, command
  <2>3. call'[in] = call[in] /\ call'[command] = call[command]
    BY <1>1, <1>3, <2>1
  <2>4. /\ call' \in [Calls -> Records] /\ call'[c].pc = "over" /\ call'[c].pin = call[c].pin
        /\ call'[c].result = t /\ \A d \in Calls \ {c, in, command} : call'[d] = call[d]
    BY <1>3, <2>1
  <2> QED
    BY <1>2, <1>4, <1>5, <2>1, <2>2, <2>3, <2>4 DEF c, in, command, t
<1>6. CASE stage[r] = "pin" /\ r \in secret
  <2>1. /\ stage' = [stage EXCEPT ![r] = "exts"] /\ token' = [token EXCEPT ![r] = t] /\ hashOf' = r
        /\ call' = Ask(over, <<in>>, "none")
        /\ queue' = Append(queue, in) /\ Begins({in}, {c}) /\ UNCHANGED param
    BY <1>6 DEF TokenReturns
  <2>2. /\ stage' \in [Requests -> Stages] /\ stage'[r] = "exts"
        /\ \A q \in Requests \ {r} : stage'[q] = stage[q]
    BY <2>1 DEF TypeOK, Stages
  <2> HIDE DEF over, t, c, in, command
  <2> DEFINE asked == Ask(over, <<in>>, "none")
  <2>3. /\ call' \in [Calls -> Records]
        /\ call'[in] = [over[in] EXCEPT !.pc = "asking", !.pin = "none"]
        /\ \A d \in Calls \ {in} : call'[d] = over[d]
    <3>1. /\ asked \in [Calls -> Records]
          /\ asked[in] = [over[in] EXCEPT !.pc = "asking", !.pin = "none"]
          /\ \A d \in Calls \ {in} : asked[d] = over[d]
      BY ONLY <1>1, <1>3, AskedOne
    <3>2. call' = asked
      BY <2>1
    <3> HIDE DEF asked
    <3> QED
      BY <3>1, <3>2
  <2>4. /\ call'[c].pc = "over" /\ call'[c].pin = call[c].pin /\ call'[c].result = t
        /\ call'[in] = [call[in] EXCEPT !.pc = "asking", !.pin = "none"]
        /\ call'[command] = call[command]
        /\ \A d \in Calls \ {c, in, command} : call'[d] = call[d]
    BY <1>1, <1>3, <2>3
  <2> QED
    BY <1>2, <1>4, <1>6, <2>1, <2>2, <2>3, <2>4 DEF c, in, command, t
<1>7. CASE stage[r] = "pin" /\ r \notin secret
  <2>1. /\ stage' = [stage EXCEPT ![r] = "command"] /\ token' = [token EXCEPT ![r] = t] /\ hashOf' = r
        /\ call' = [over EXCEPT ![command].pc = "sent"]
        /\ queue' = Append(queue, command) /\ UNCHANGED quiet
        /\ param' = [param EXCEPT ![r] = [token |-> t, hash |-> r]]
    BY <1>7 DEF TokenReturns, Param
  <2>2. /\ stage' \in [Requests -> Stages] /\ stage'[r] = "command"
        /\ \A q \in Requests \ {r} : stage'[q] = stage[q]
    BY <2>1 DEF TypeOK, Stages
  <2> HIDE DEF over, t, c, in, command
  <2>3. [over[command] EXCEPT !.pc = "sent"] \in Records
    BY <1>1, <1>3, Fields
  <2>4. /\ call' \in [Calls -> Records] /\ call'[command] = [over[command] EXCEPT !.pc = "sent"]
        /\ \A d \in Calls \ {command} : call'[d] = over[d]
    BY <1>1, <1>3, <2>1, <2>3
  <2>5. /\ call'[c].pc = "over" /\ call'[c].pin = call[c].pin /\ call'[c].result = t
        /\ call'[command] = [call[command] EXCEPT !.pc = "sent"]
        /\ call'[in] = call[in]
        /\ \A d \in Calls \ {c, in, command} : call'[d] = call[d]
    BY <1>1, <1>3, <2>4
  <2> QED
    BY <1>2, <1>4, <1>7, <2>1, <2>2, <2>4, <2>5 DEF c, in, command, t
<1> QED
  BY <1>5, <1>6, <1>7

LEMMA CommandReturnsEffect ==
  ASSUME TypeOK, NEW r \in Requests, CommandReturns(r)
  PROVE  LET c == <<r, "command">>
             out == <<r, "out">>
         IN  /\ call[c].pc = "answered"
             /\ call' \in [Calls -> Records] /\ stage' \in [Requests -> Stages]
             /\ call'[c] = [call[c] EXCEPT !.pc = "over"]
             /\ \A d \in Calls \ {c, out} : call'[d] = call[d]
             /\ \A q \in Requests \ {r} : stage'[q] = stage[q]
             /\ UNCHANGED <<platformKey, hashOf, token, param, secret, authKey, pinSet, retries, alone>>
             /\ \/ /\ stage'[r] = "output"
                   /\ call'[out] = [call[out] EXCEPT !.pc = "asking", !.pin = "none"]
                   /\ queue' = Append(queue, out) /\ Begins({out}, {}) /\ UNCHANGED subs
                \/ /\ stage'[r] = "done" /\ subs' = {}
                   /\ call'[out] = call[out] /\ UNCHANGED <<queue, quiet>>
<1> DEFINE c == <<r, "command">>
           out == <<r, "out">>
           over == [call EXCEPT ![c].pc = "over"]
<1>1. c \in Calls /\ out \in Calls /\ c # out
  BY CallsOf
<1>2. call \in [Calls -> Records]
  BY DEF TypeOK, Records
<1>3. /\ over \in [Calls -> Records] /\ over[c] = [call[c] EXCEPT !.pc = "over"]
      /\ \A d \in Calls \ {c} : over[d] = call[d]
  <2>1. [call[c] EXCEPT !.pc = "over"] \in Records
    BY <1>1, <1>2, Fields
  <2> QED
    BY <1>1, <1>2, <2>1
<1>4. /\ call[c].pc = "answered"
      /\ UNCHANGED <<platformKey, hashOf, token, param, secret, authKey, pinSet, retries, alone>>
  BY DEF CommandReturns, platform, authenticator
<1>5. CASE call[c].result = "accepted" /\ r \in secret
  <2>1. /\ stage' = [stage EXCEPT ![r] = "output"] /\ call' = Ask(over, <<out>>, "none")
        /\ queue' = Append(queue, out) /\ Begins({out}, {}) /\ UNCHANGED subs
    BY <1>5 DEF CommandReturns
  <2>2. /\ stage' \in [Requests -> Stages] /\ stage'[r] = "output"
        /\ \A q \in Requests \ {r} : stage'[q] = stage[q]
    BY <2>1 DEF TypeOK, Stages
  <2> HIDE DEF over, c, out
  <2> DEFINE asked == Ask(over, <<out>>, "none")
  <2>3. /\ call' \in [Calls -> Records]
        /\ call'[out] = [over[out] EXCEPT !.pc = "asking", !.pin = "none"]
        /\ \A d \in Calls \ {out} : call'[d] = over[d]
    <3>1. /\ asked \in [Calls -> Records]
          /\ asked[out] = [over[out] EXCEPT !.pc = "asking", !.pin = "none"]
          /\ \A d \in Calls \ {out} : asked[d] = over[d]
      BY ONLY <1>1, <1>3, AskedOne
    <3>2. call' = asked
      BY <2>1
    <3> HIDE DEF asked
    <3> QED
      BY <3>1, <3>2
  <2>4. /\ call'[c] = [call[c] EXCEPT !.pc = "over"]
        /\ call'[out] = [call[out] EXCEPT !.pc = "asking", !.pin = "none"]
        /\ \A d \in Calls \ {c, out} : call'[d] = call[d]
    BY <1>1, <1>3, <2>3
  <2> QED
    BY <1>4, <2>1, <2>2, <2>3, <2>4 DEF c, out
<1>6. CASE ~(call[c].result = "accepted" /\ r \in secret)
  <2>1. /\ stage' = [stage EXCEPT ![r] = "done"] /\ call' = over /\ subs' = {}
        /\ UNCHANGED <<queue, quiet>>
    BY <1>6 DEF CommandReturns, Settle
  <2>2. /\ stage' \in [Requests -> Stages] /\ stage'[r] = "done"
        /\ \A q \in Requests \ {r} : stage'[q] = stage[q]
    BY <2>1 DEF TypeOK, Stages
  <2> HIDE DEF over, c, out
  <2>3. /\ call' \in [Calls -> Records] /\ call'[c] = [call[c] EXCEPT !.pc = "over"]
        /\ call'[out] = call[out] /\ \A d \in Calls \ {c, out} : call'[d] = call[d]
    BY <1>1, <1>3, <2>1
  <2> QED
    BY <1>4, <2>1, <2>2, <2>3 DEF c, out
<1> QED
  BY <1>5, <1>6

LEMMA OutputBuiltEffect ==
  ASSUME TypeOK, NEW r \in Requests, OutputBuilt(r)
  PROVE  LET c == <<r, "out">>
             t == Decrypt(call[c].peer, <<r, "in">>, call[<<r, "command">>].under)
         IN  /\ call[c].pc = "keyed" /\ t \in {"genuine", "garbage"}
             /\ call' \in [Calls -> Records] /\ stage' \in [Requests -> Stages]
             /\ call'[c] = [call[c] EXCEPT !.pc = "over", !.result = t]
             /\ \A d \in Calls \ {c} : call'[d] = call[d]
             /\ stage'[r] = "done" /\ \A q \in Requests \ {r} : stage'[q] = stage[q]
             /\ UNCHANGED <<platformKey, hashOf, token, param, secret, authKey, pinSet, retries,
                            queue, quiet, alone>>
             /\ subs' = {}
<1> DEFINE c == <<r, "out">>
           t == Decrypt(call[c].peer, <<r, "in">>, call[<<r, "command">>].under)
<1>1. c \in Calls
  BY CallsOf
<1>2. call \in [Calls -> Records]
  BY DEF TypeOK, Records
<1>3. t \in {"genuine", "garbage"}
  BY DEF Decrypt
<1>4. /\ call[c].pc = "keyed" /\ call' = [call EXCEPT ![c] = [call[c] EXCEPT !.pc = "over", !.result = t]]
      /\ stage' = [stage EXCEPT ![r] = "done"] /\ subs' = {}
      /\ UNCHANGED <<platformKey, hashOf, token, param, secret, authKey, pinSet, retries,
                     queue, quiet, alone>>
  BY <1>1, <1>2 DEF OutputBuilt, Settle, platform, authenticator, history
<1> HIDE DEF c, t
<1>5. [call[c] EXCEPT !.pc = "over", !.result = t] \in Records
  BY <1>1, <1>2, <1>3 DEF Records
<1>6. /\ call' \in [Calls -> Records] /\ call'[c] = [call[c] EXCEPT !.pc = "over", !.result = t]
      /\ \A d \in Calls \ {c} : call'[d] = call[d]
  BY <1>1, <1>4, <1>5, OneCall
<1>7. /\ stage' \in [Requests -> Stages] /\ stage'[r] = "done"
      /\ \A q \in Requests \ {r} : stage'[q] = stage[q]
  BY <1>4 DEF TypeOK, Stages
<1> QED
  BY <1>3, <1>4, <1>6, <1>7 DEF c, t

(* A PIN typed starts one operation for each of the subscriptions; the set C of
   operations begins. *)
LEMMA TypePinEffect ==
  ASSUME Inv, NEW p \in {"right", "wrong"}, TypePin(p)
  PROVE  /\ \E C \in SUBSET Calls :
              /\ \A c \in C : /\ call[c].pc = "idle"
                              /\ c[2] \in PinSlots \cup {"set"}
                              /\ c[2] = "set" => stage'[c[1]] = "setting"
                              /\ call'[c] = [call[c] EXCEPT !.pc = "asking", !.pin = p]
              /\ \A c \in Calls \ C : call'[c] = call[c]
              /\ IsFiniteSet(C) /\ Begins(C, {})
         /\ call' \in [Calls -> Records] /\ stage' \in [Requests -> Stages] /\ queue' \in Seq(Calls)
         /\ \A r \in Requests : stage'[r] = stage[r] \/ (stage[r] = "set" /\ stage'[r] = "setting")
         /\ subs' \subseteq subs
         /\ UNCHANGED <<platformKey, hashOf, secret, token, param, authKey, pinSet, retries, alone>>
<1> DEFINE setting == {r \in subs : stage[r] = "set"}
<1>1. subs \subseteq Requests /\ IsFiniteSet(subs) /\ Cardinality(subs) \in Nat
  BY ConstantsAssumption, FS_Subset, FS_CardinalityType
     DEF ConstantsAssumption, Inv, TypeOK
<1>2. PICK order \in [1..Cardinality(subs) -> subs] :
        /\ call' = Ask(call, [i \in DOMAIN order |-> Started(order[i])], p)
        /\ queue' = queue \o [i \in DOMAIN order |-> Started(order[i])]
        /\ stage' = [r \in Requests |-> IF r \in setting THEN "setting" ELSE stage[r]]
        /\ subs' = subs \ setting
        /\ Begins({[i \in DOMAIN order |-> Started(order[i])][j] : j \in DOMAIN order}, {})
  BY DEF TypePin
<1> DEFINE cs == [i \in DOMAIN order |-> Started(order[i])]
           C == {cs[i] : i \in DOMAIN order}
           n == Cardinality(subs)
<1>3. \A r \in subs : /\ Started(r) \in Calls /\ call[Started(r)].pc = "idle" /\ Started(r)[1] = r
                      /\ Started(r)[2] \in PinSlots \cup {"set"}
                      /\ Started(r)[2] = "set" => r \in setting
  <2> SUFFICES ASSUME NEW r \in subs
               PROVE  /\ Started(r) \in Calls /\ call[Started(r)].pc = "idle" /\ Started(r)[1] = r
                      /\ Started(r)[2] \in PinSlots \cup {"set"}
                      /\ Started(r)[2] = "set" => r \in setting
    OBVIOUS
  <2>1. r \in Requests
    BY <1>1
  <2>2. CASE stage[r] = "set"
    BY <2>1, <2>2, CallsOf DEF Started, Inv, StageInv, StageAt
  <2>3. CASE stage[r] # "set"
    <3>1. FreeSlots(r) # {}
      BY <2>3 DEF TypePin
    <3>2. PICK s \in FreeSlots(r) : Started(r) = <<r, s>>
      BY <2>3, <3>1 DEF Started
    <3>3. s \in PinSlots /\ call[<<r, s>>].pc = "idle"
      BY DEF FreeSlots
    <3> QED
      BY <2>1, <3>2, <3>3, CallsOf
  <2> QED
    BY <2>2, <2>3
<1>4. cs \in [1..n -> Calls] /\ DOMAIN order = 1..n /\ n \in Nat
  BY <1>1, <1>3
<1>5. cs \in Seq(Calls) /\ DOMAIN cs = DOMAIN order
  BY <1>4 DEF Seq
<1>6. IsFiniteSet(C)
  <2>1. cs \in Surjection(1..n, C)
    BY <1>4 DEF Surjection
  <2> QED
    BY <1>4, <2>1, FS_NatSurjection DEF ExistsSurjection
<1>7. \A c \in C : /\ c \in Calls /\ call[c].pc = "idle"
                   /\ c[2] \in PinSlots \cup {"set"}
                   /\ c[2] = "set" => c[1] \in setting
  BY <1>3
<1>8. queue' \in Seq(Calls)
  <2>1. queue \in Seq(Calls) /\ queue' = queue \o cs
    BY <1>2 DEF Inv, TypeOK
  <2> HIDE DEF cs
  <2> QED
    BY <1>5, <2>1, ConcatProperties
<1>9. /\ call' \in [Calls -> Records]
      /\ \A c \in C : c \in Calls => call'[c] = [call[c] EXCEPT !.pc = "asking", !.pin = p]
      /\ \A c \in Calls \ C : call'[c] = call[c]
  <2>1. call \in [Calls -> Records] /\ p \in {"none", "right", "wrong"} /\ call' = Ask(call, cs, p)
    BY <1>2 DEF Inv, TypeOK, Records
  <2>2. \A c \in Calls : (\E i \in DOMAIN cs : cs[i] = c) <=> c \in C
    BY <1>5
  <2> HIDE DEF cs, C
  <2>3. call' = [c \in Calls |-> IF c \in C THEN [call[c] EXCEPT !.pc = "asking", !.pin = p] ELSE call[c]]
    BY <2>1, <2>2 DEF Ask
  <2>4. \A c \in Calls : [call[c] EXCEPT !.pc = "asking", !.pin = p] \in Records
    BY <2>1 DEF Records
  <2> QED
    BY <2>1, <2>3, <2>4
<1>11. /\ stage' \in [Requests -> Stages]
       /\ \A r \in Requests : stage'[r] = stage[r] \/ (stage[r] = "set" /\ stage'[r] = "setting")
       /\ \A r \in setting : stage'[r] = "setting"
  BY <1>1, <1>2 DEF Inv, TypeOK, Stages
<1>12. Begins(C, {}) /\ subs' \subseteq subs
  BY <1>2
<1>13. UNCHANGED <<platformKey, hashOf, secret, token, param, authKey, pinSet, retries, alone>>
  BY DEF TypePin, platform, authenticator
<1> HIDE DEF C, cs, setting, n
<1>14. C \in SUBSET Calls
  BY <1>7
<1>15. \A c \in C : /\ call[c].pc = "idle" /\ c[2] \in PinSlots \cup {"set"}
                    /\ c[2] = "set" => stage'[c[1]] = "setting"
                    /\ call'[c] = [call[c] EXCEPT !.pc = "asking", !.pin = p]
  BY <1>7, <1>9, <1>11
<1>16. \A c \in Calls \ C : call'[c] = call[c]
  BY <1>9
<1> QED
  BY <1>6, <1>8, <1>9, <1>11, <1>12, <1>13, <1>14, <1>15, <1>16

(* The authenticator answers the first message of its queue. *)
LEMMA AnswerEffect ==
  ASSUME TypeOK, Answer
  PROVE  \E c \in Calls :
           /\ queue' \in Seq(Calls) /\ call' \in [Calls -> Records]
           /\ \A d \in Calls \ {c} : call'[d] = call[d]
           /\ UNCHANGED <<platformKey, hashOf, stage, subs, token, param, secret, quiet, alone>>
           /\ \/ /\ call[c].pc = "asking" /\ UNCHANGED <<authKey, pinSet, retries>>
                 /\ call'[c] = [call[c] EXCEPT !.pc = "keyed", !.peer = authKey]
              \/ /\ c[2] = "set" /\ call[c].pc = "sent" /\ UNCHANGED <<authKey, retries>>
                 /\ pinSet' \in BOOLEAN
                 /\ call'[c].pc = "over" /\ call'[c].result = "none" /\ call'[c].pin = call[c].pin
              \/ /\ c[2] \in PinSlots /\ call[c].pc = "sent" /\ pinSet' = pinSet
                 /\ retries' \in 0..MaxRetries
                 /\ \E x \in {"refused", "granted", "invalid"} :
                      /\ call'[c] = [call[c] EXCEPT !.pc = "answered", !.result = x, !.under = authKey]
                      /\ x = "granted" => call[c].peer = authKey
                      /\ x = "invalid" => ~(call[c].pin = "right" /\ call[c].peer = authKey)
                      /\ authKey' = IF x = "invalid" THEN c ELSE authKey
              \/ /\ c[2] = "command" /\ call[c].pc = "sent" /\ UNCHANGED <<authKey, pinSet, retries>>
                 /\ \E x \in {"accepted", "rejected"} :
                      /\ call'[c] = [call[c] EXCEPT !.pc = "answered", !.result = x, !.under = authKey]
                      /\ x = "rejected" =>
                           ~(/\ param[c[1]] = [token |-> "genuine", hash |-> c[1]]
                             /\ c[1] \in secret => call[<<c[1], "in">>].peer = authKey)
<1>1. /\ queue \in Seq(Calls) /\ queue # << >> /\ queue' = Tail(queue)
      /\ UNCHANGED <<platformKey, hashOf, stage, subs, token, param, secret, quiet, alone>>
  BY DEF Answer, TypeOK, platform, request, history
<1>2. queue' \in Seq(Calls) /\ Head(queue) \in Calls
  BY <1>1, HeadTailProperties
<1>3. PICK c \in Calls : AnswerKey(c) \/ AnswerSetPin(c) \/ AnswerPin(c) \/ AnswerCommand(c)
  BY <1>2 DEF Answer
<1>4. call[c] \in Records /\ authKey \in Keys /\ authKey \in Keys
  BY DEF TypeOK, Records
<1>5. CASE AnswerKey(c)
  <2>1. /\ call[c].pc = "asking" /\ UNCHANGED <<authKey, pinSet, retries>>
        /\ call' = [call EXCEPT ![c] = [call[c] EXCEPT !.pc = "keyed", !.peer = authKey]]
    BY <1>5 DEF AnswerKey, authenticator, TypeOK
  <2>2. [call[c] EXCEPT !.pc = "keyed", !.peer = authKey] \in Records
    BY <1>4 DEF Records
  <2>3. /\ call' \in [Calls -> Records] /\ call'[c] = [call[c] EXCEPT !.pc = "keyed", !.peer = authKey]
        /\ \A d \in Calls \ {c} : call'[d] = call[d]
    BY <2>1, <2>2, OneCall
  <2> QED
    BY <1>1, <1>2, <2>1, <2>3
<1>6. CASE AnswerSetPin(c)
  <2>1. /\ c[2] = "set" /\ call[c].pc = "sent" /\ UNCHANGED <<authKey, retries>>
        /\ call' = Over(call, c, "none") /\ pinSet' = (pinSet \/ Readable(c))
    BY <1>6 DEF AnswerSetPin
  <2>2. /\ Over(call, c, "none") \in [Calls -> Records] /\ Over(call, c, "none")[c].pc = "over"
        /\ Over(call, c, "none")[c].pin = call[c].pin /\ Over(call, c, "none")[c].result = "none"
        /\ \A d \in Calls \ {c} : Over(call, c, "none")[d] = call[d]
    BY OverAt
  <2>3. pinSet' \in BOOLEAN
    BY <2>1 DEF TypeOK, Readable
  <2> QED
    BY <1>1, <1>2, <2>1, <2>2, <2>3
<1>7. ASSUME NEW x \in {"refused", "granted", "invalid", "accepted", "rejected"}, Answered(c, x)
      PROVE  /\ call' \in [Calls -> Records]
             /\ call'[c] = [call[c] EXCEPT !.pc = "answered", !.result = x, !.under = authKey]
             /\ \A d \in Calls \ {c} : call'[d] = call[d]
  <2>1. call' = [call EXCEPT ![c] = [call[c] EXCEPT !.pc = "answered", !.result = x, !.under = authKey]]
    BY <1>7 DEF Answered, TypeOK
  <2>2. [call[c] EXCEPT !.pc = "answered", !.result = x, !.under = authKey] \in Records
    BY <1>4, <1>7 DEF Records
  <2> QED
    BY <2>1, <2>2, OneCall
<1>8. CASE AnswerPin(c)
  <2>1. PICK x \in {"refused", "granted", "invalid"} :
          /\ Answered(c, x)
          /\ x = "granted" => call[c].peer = authKey
          /\ x = "invalid" => ~(call[c].pin = "right" /\ call[c].peer = authKey)
          /\ authKey' = IF x = "invalid" THEN c ELSE authKey
    BY <1>8 DEF AnswerPin, Readable, authenticator
  <2>2. c[2] \in PinSlots /\ call[c].pc = "sent" /\ pinSet' = pinSet /\ retries' \in 0..MaxRetries
    BY <1>8, ConstantsAssumption DEF AnswerPin, authenticator, TypeOK, ConstantsAssumption
  <2> QED
    BY <1>1, <1>2, <1>7, <2>1, <2>2
<1>9. CASE AnswerCommand(c)
  <2>1. PICK x \in {"accepted", "rejected"} :
          /\ Answered(c, x)
          /\ x = "rejected" => ~(/\ param[c[1]] = [token |-> "genuine", hash |-> c[1]]
                                 /\ c[1] \in secret => call[<<c[1], "in">>].peer = authKey)
    BY <1>9 DEF AnswerCommand, Readable
  <2>2. c[2] = "command" /\ call[c].pc = "sent" /\ UNCHANGED <<authKey, pinSet, retries>>
    BY <1>9 DEF AnswerCommand, authenticator
  <2> QED
    BY <1>1, <1>2, <1>7, <2>1, <2>2
<1> QED
  BY <1>3, <1>5, <1>6, <1>8, <1>9

-----------------------------------------------------------------------------
(* Types and stages are kept *)

LEMMA Phases ==
  /\ PhasesOf("in") = {"idle", "asking", "keyed", "over"}
  /\ PhasesOf("out") = {"idle", "asking", "keyed", "over"}
  /\ PhasesOf("command") = {"idle", "sent", "answered", "over"}
  /\ \A k \in PinSlots \cup {"set"} :
       PhasesOf(k) = {"idle", "asking", "keyed", "sent", "answered", "over"}
BY ConstantsAssumption DEF ConstantsAssumption, PhasesOf

LEMMA BeginsType ==
  ASSUME TypeOK, NEW C \in SUBSET Calls, NEW D, Begins(C, D)
  PROVE  quiet' \subseteq Calls
BY DEF TypeOK, Begins

LEMMA StageKept ==
  ASSUME NEW q \in Requests, StageAt(q), stage'[q] = stage[q],
         call'[<<q, "set">>].pc = call[<<q, "set">>].pc,
         call'[<<q, "in">>].pc = call[<<q, "in">>].pc,
         call'[<<q, "command">>].pc = call[<<q, "command">>].pc,
         call'[<<q, "out">>].pc = call[<<q, "out">>].pc
  PROVE  StageAt(q)'
BY DEF StageAt

LEMMA CallKept ==
  ASSUME NEW c \in Calls, CallAt(c), call'[c] = call[c]
  PROVE  CallAt(c)'
BY DEF CallAt

(* The types follow from those of the variables that a step changes. *)
LEMMA TypeStep ==
  ASSUME TypeOK,
         platformKey' \in Calls \cup {platformKey}, hashOf' \in Requests \cup {hashOf},
         authKey' \in Calls \cup {authKey}, pinSet' \in BOOLEAN, retries' \in 0..MaxRetries,
         call' \in [Calls -> Records], stage' \in [Requests -> Stages],
         token' \in [Requests -> Tokens], param' \in [Requests -> Params],
         queue' \in Seq(Calls), quiet' \subseteq Calls, alone' \subseteq Requests,
         secret' = secret, subs' \subseteq Requests, \A r \in subs' : stage'[r] \notin {"idle", "done"}
  PROVE  TypeOK'
<1>1. platformKey' \in Keys /\ authKey' \in Keys /\ hashOf' \in Requests \cup {None}
  BY DEF TypeOK, Keys
<1>2. subs' \subseteq {r \in Requests : Pending(r)'}
  BY DEF Pending
<1>3. secret' \subseteq Requests
  BY DEF TypeOK
<1> QED
  BY <1>1, <1>2, <1>3 DEF TypeOK, Records, Tokens, Params, Stages, Pending

LEMMA SubsType ==
  ASSUME TypeOK
  PROVE  /\ \A r \in subs : r \in Requests /\ stage[r] \notin {"idle", "done"}
         /\ stage \in [Requests -> Stages] /\ call \in [Calls -> Records]
         /\ token \in [Requests -> Tokens] /\ param \in [Requests -> Params]
         /\ pinSet \in BOOLEAN /\ retries \in 0..MaxRetries /\ queue \in Seq(Calls)
         /\ quiet \subseteq Calls /\ alone \subseteq Requests
BY DEF TypeOK, Pending, Stages, Records, Tokens, Params

LEMMA AppendCall ==
  ASSUME TypeOK, NEW c \in Calls
  PROVE  Append(queue, c) \in Seq(Calls)
BY SubsType, AppendProperties

LEMMA BeginInv ==
  ASSUME Inv, NEW r \in Requests, Begin(r)
  PROVE  Inv'
<1> TypeOK
  BY DEF Inv
<1>1. /\ stage[r] = "idle" /\ stage'[r] \in {"pin", "set"} /\ stage' \in [Requests -> Stages]
      /\ \A q \in Requests \ {r} : stage'[q] = stage[q]
      /\ UNCHANGED <<platformKey, hashOf, call, secret, token, param, authKey, pinSet, retries,
                     queue, quiet>>
      /\ subs' = subs \cup {r}
  BY BeginEffect DEF Stages
<1>2. alone' \subseteq Requests
  BY DEF Begin, TypeOK
<1>3. TypeOK'
  <2>1. subs' \subseteq Requests /\ \A q \in subs' : stage'[q] \notin {"idle", "done"}
    BY <1>1, SubsType
  <2> QED
    BY <1>1, <1>2, <2>1, SubsType, TypeStep
<1>4. StageInv'
  <2>1. StageAt(r)'
    BY <1>1 DEF Inv, StageInv, StageAt, Early
  <2>2. \A q \in Requests \ {r} : StageAt(q)'
    BY <1>1, StageKept DEF Inv, StageInv
  <2> QED
    BY <2>1, <2>2 DEF StageInv
<1> QED
  BY <1>1, <1>3, <1>4 DEF Inv, CallInv, CallAt

LEMMA TypePinInv ==
  ASSUME Inv, NEW p \in {"right", "wrong"}, TypePin(p)
  PROVE  Inv'
<1> TypeOK
  BY DEF Inv
<1>1. PICK C \in SUBSET Calls :
        /\ \A c \in C : /\ call[c].pc = "idle"
                        /\ c[2] \in PinSlots \cup {"set"}
                        /\ c[2] = "set" => stage'[c[1]] = "setting"
                        /\ call'[c] = [call[c] EXCEPT !.pc = "asking", !.pin = p]
        /\ \A c \in Calls \ C : call'[c] = call[c]
        /\ IsFiniteSet(C) /\ Begins(C, {})
  BY TypePinEffect
<1>2. /\ call' \in [Calls -> Records] /\ stage' \in [Requests -> Stages] /\ queue' \in Seq(Calls)
      /\ \A r \in Requests : stage'[r] = stage[r] \/ (stage[r] = "set" /\ stage'[r] = "setting")
      /\ subs' \subseteq subs
      /\ UNCHANGED <<platformKey, hashOf, secret, token, param, authKey, pinSet, retries, alone>>
  BY TypePinEffect
<1>3. TypeOK'
  <2>1. subs' \subseteq Requests /\ \A q \in subs' : stage'[q] \notin {"idle", "done"}
    BY <1>2, SubsType
  <2>2. quiet' \subseteq Calls
    BY <1>1, BeginsType
  <2> QED
    BY <1>2, <2>1, <2>2, SubsType, TypeStep
<1>4. CallInv'
  <2>1. ASSUME NEW c \in C
        PROVE  CallAt(c)'
    <3>0. c \in Calls /\ CallAt(c) /\ call[c].pc = "idle" /\ c[2] \in PinSlots \cup {"set"}
      BY <1>1 DEF Inv, CallInv
    <3>1. call[c] = NoCall /\ call[c] \in Records
      BY <3>0, SubsType DEF CallAt
    <3>2. call'[c].pc = "asking" /\ call'[c].result = "none"
      <4>1. call'[c] = [call[c] EXCEPT !.pc = "asking", !.pin = p]
        BY <1>1
      <4> QED
        BY <3>1, <4>1 DEF NoCall
    <3>3. call'[c].pc \in PhasesOf(c[2])
      BY <3>0, <3>2, Phases
    <3> QED
      BY <3>2, <3>3 DEF CallAt
  <2>2. \A c \in Calls \ C : CallAt(c)'
    BY <1>1, CallKept DEF Inv, CallInv
  <2> QED
    BY <2>1, <2>2 DEF CallInv
<1>5. StageInv'
  <2> SUFFICES ASSUME NEW r \in Requests
               PROVE  StageAt(r)'
    BY DEF StageInv
  <2>1. /\ \A k \in {"in", "command", "out"} : <<r, k>> \in Calls \ C
        /\ <<r, "set">> \in Calls
    BY <1>1, CallsOf
  <2>2. \A k \in {"in", "command", "out"} : call'[<<r, k>>] = call[<<r, k>>]
    BY <1>1, <2>1
  <2>3. StageAt(r)
    BY DEF Inv, StageInv
  <2>4. /\ call'[<<r, "in">>] = call[<<r, "in">>]
        /\ call'[<<r, "command">>] = call[<<r, "command">>]
        /\ call'[<<r, "out">>] = call[<<r, "out">>]
    BY <2>2
  <2>5. CASE <<r, "set">> \in C
    <3>1. stage'[r] = "setting"
      BY <1>1, <2>5
    <3>2. stage[r] \in Early
      BY <1>2, <3>1 DEF Early
    <3> QED
      BY <2>3, <2>4, <3>1, <3>2 DEF StageAt, Early
  <2>6. CASE <<r, "set">> \notin C
    <3>1. call'[<<r, "set">>] = call[<<r, "set">>]
      BY <1>1, <2>1, <2>6
    <3>2. CASE stage'[r] = stage[r]
      BY <2>3, <2>4, <3>1, <3>2, StageKept
    <3>3. CASE stage[r] = "set" /\ stage'[r] = "setting"
      BY <2>3, <2>4, <3>1, <3>3 DEF StageAt, Early
    <3> QED
      BY <1>2, <3>2, <3>3
  <2> QED
    BY <2>5, <2>6
<1> QED
  BY <1>3, <1>4, <1>5 DEF Inv

(* A step of request r leaves the others' operations and stages alone. *)
LEMMA OwnStepInv ==
  ASSUME Inv, TypeOK', NEW r \in Requests, NEW C \in SUBSET Calls,
         \A c \in C : c[1] = r /\ CallAt(c)', \A c \in Calls \ C : call'[c] = call[c],
         \A q \in Requests \ {r} : stage'[q] = stage[q], StageAt(r)'
  PROVE  Inv'
<1>1. CallInv'
  BY CallKept DEF Inv, CallInv
<1>2. ASSUME NEW q \in Requests \ {r}
      PROVE  StageAt(q)'
  <2>1. \A k \in {"set", "in", "command", "out"} : <<q, k>> \in Calls \ C
    BY CallsOf
  <2>2. \A k \in {"set", "in", "command", "out"} : call'[<<q, k>>] = call[<<q, k>>]
    BY <2>1
  <2> QED
    BY <1>2, <2>2, StageKept DEF Inv, StageInv
<1>3. StageInv'
  BY <1>2 DEF StageInv
<1> QED
  BY <1>1, <1>3 DEF Inv

LEMMA SendSetPinInv ==
  ASSUME Inv, NEW r \in Requests, SendSetPin(r)
  PROVE  Inv'
<1> DEFINE c == <<r, "set">>
<1> TypeOK
  BY DEF Inv
<1>1. /\ call[c].pc = "keyed" /\ call' \in [Calls -> Records]
      /\ call'[c] = [call[c] EXCEPT !.pc = "sent"]
      /\ \A d \in Calls \ {c} : call'[d] = call[d]
      /\ stage'[r] = "pin" /\ \A q \in Requests \ {r} : stage'[q] = stage[q]
      /\ stage' \in [Requests -> Stages]
      /\ platformKey' = c /\ queue' = Append(queue, c)
      /\ UNCHANGED <<hashOf, token, param, secret, authKey, pinSet, retries, quiet, alone>>
      /\ subs' = subs \cup {r}
  BY SendSetPinEffect DEF Stages
<1>2. queue' \in Seq(Calls) /\ c \in Calls /\ c[1] = r
  BY <1>1, SubsType, CallsOf, AppendProperties
<1>3. subs' \subseteq Requests /\ \A q \in subs' : stage'[q] \notin {"idle", "done"}
  BY <1>1, SubsType
<1>4. TypeOK'
  BY <1>1, <1>2, <1>3, SubsType, TypeStep
<1>5. call[c] \in Records /\ call[c].result = "none" /\ StageAt(r)
  BY <1>1, <1>2, SubsType DEF Inv, CallInv, CallAt, StageInv
<1>6. call'[c].pc = "sent" /\ call'[c].result = "none"
  BY <1>1, <1>5 DEF Records
<1>7. CallAt(c)'
  BY <1>6, Phases DEF CallAt
<1>8. StageAt(r)'
  <2>1. /\ call'[<<r, "in">>] = call[<<r, "in">>]
        /\ call'[<<r, "command">>] = call[<<r, "command">>]
        /\ call'[<<r, "out">>] = call[<<r, "out">>]
    BY <1>1, CallsOf
  <2>2. stage[r] \in Early
    BY <1>1, <1>5 DEF StageAt, Early
  <2> QED
    BY <1>1, <1>5, <1>6, <2>1, <2>2 DEF StageAt, Early
<1> DEFINE C == {c}
<1>9. C \in SUBSET Calls /\ (\A d \in C : d[1] = r /\ CallAt(d)')
      /\ \A d \in Calls \ C : call'[d] = call[d]
  BY <1>1, <1>2, <1>7
<1> HIDE DEF c, C
<1> QED
  BY <1>1, <1>4, <1>8, <1>9, OwnStepInv

(* A step of a getPinToken changes no stage, unless its token is the first. *)
LEMMA PinSlotInv ==
  ASSUME Inv, TypeOK', NEW r \in Requests, NEW s \in PinSlots, stage' = stage,
         \A d \in Calls \ {<<r, s>>} : call'[d] = call[d], CallAt(<<r, s>>)'
  PROVE  Inv'
<1>1. <<r, s>> \in Calls /\ <<r, s>>[1] = r
  BY CallsOf
<1>2. \A k \in {"set", "in", "command", "out"} : call'[<<r, k>>] = call[<<r, k>>]
  BY CallsOf
<1>3. StageAt(r)'
  BY <1>2, StageKept DEF Inv, StageInv
<1> DEFINE C == {<<r, s>>}
<1>4. C \in SUBSET Calls /\ \A c \in C : c[1] = r /\ CallAt(c)'
  BY <1>1
<1> QED
  BY <1>3, <1>4, OwnStepInv

LEMMA SendGetPinTokenInv ==
  ASSUME Inv, NEW r \in Requests, NEW s \in PinSlots, SendGetPinToken(r, s)
  PROVE  Inv'
<1> DEFINE c == <<r, s>>
<1> TypeOK
  BY DEF Inv
<1>1. /\ call[c].pc = "keyed" /\ call' \in [Calls -> Records]
      /\ call'[c] = [call[c] EXCEPT !.pc = "sent"]
      /\ \A d \in Calls \ {c} : call'[d] = call[d]
      /\ platformKey' = c /\ queue' = Append(queue, c)
      /\ UNCHANGED <<hashOf, stage, subs, token, param, secret, authKey, pinSet, retries,
                     quiet, alone>>
  BY SendGetPinTokenEffect
<1>2. queue' \in Seq(Calls) /\ c \in Calls
  BY <1>1, SubsType, CallsOf, AppendProperties
<1>3. TypeOK'
  BY <1>1, <1>2, SubsType, TypeStep
<1>4. call[c] \in Records /\ call[c].result = "none"
  BY <1>1, <1>2, SubsType DEF Inv, CallInv, CallAt
<1>5. call'[c].pc = "sent" /\ call'[c].result = "none"
  BY <1>1, <1>4 DEF Records
<1>6. CallAt(c)'
  BY <1>5, Phases DEF CallAt
<1> QED
  BY <1>1, <1>3, <1>6, PinSlotInv

LEMMA TokenRefusedInv ==
  ASSUME Inv, NEW r \in Requests, NEW s \in PinSlots, TokenRefused(r, s)
  PROVE  Inv'
<1> TypeOK
  BY DEF Inv
<1>1. /\ call' \in [Calls -> Records] /\ call'[<<r, s>>].pc = "over"
      /\ \A d \in Calls \ {<<r, s>>} : call'[d] = call[d]
      /\ UNCHANGED <<platformKey, hashOf, stage, subs, token, param, secret, authKey, pinSet,
                     retries, queue, quiet, alone>>
  BY TokenRefusedEffect
<1>2. TypeOK'
  BY <1>1, SubsType, TypeStep
<1>3. CallAt(<<r, s>>)'
  BY <1>1, Phases DEF CallAt
<1> QED
  BY <1>1, <1>2, <1>3, PinSlotInv

LEMMA SendSecretCommandInv ==
  ASSUME Inv, NEW r \in Requests, SendSecretCommand(r)
  PROVE  Inv'
<1> DEFINE c == <<r, "in">>
           d == <<r, "command">>
<1> TypeOK
  BY DEF Inv
<1>1. /\ call[c].pc = "keyed" /\ call' \in [Calls -> Records]
      /\ call'[c] = [call[c] EXCEPT !.pc = "over"]
      /\ call'[d] = [call[d] EXCEPT !.pc = "sent"]
      /\ \A e \in Calls \ {c, d} : call'[e] = call[e]
      /\ stage'[r] = "command" /\ \A q \in Requests \ {r} : stage'[q] = stage[q]
      /\ stage' \in [Requests -> Stages]
      /\ platformKey' = c /\ queue' = Append(queue, d)
      /\ param' = [param EXCEPT ![r] = [token |-> token[r], hash |-> hashOf]]
      /\ UNCHANGED <<hashOf, subs, token, secret, authKey, pinSet, retries, quiet, alone>>
  BY SendSecretCommandEffect DEF Stages
<1>2. queue' \in Seq(Calls) /\ c \in Calls /\ d \in Calls /\ c[1] = r /\ d[1] = r
  BY <1>1, SubsType, CallsOf, AppendProperties
<1>3. subs' \subseteq Requests /\ \A q \in subs' : stage'[q] \notin {"idle", "done"}
  BY <1>1, SubsType
<1>4. param' \in [Requests -> Params]
  <2>1. [token |-> token[r], hash |-> hashOf] \in Params
    BY SubsType DEF TypeOK, Params
  <2> QED
    BY <1>1, <2>1, SubsType
<1>5. TypeOK'
  BY <1>1, <1>2, <1>3, <1>4, SubsType, TypeStep
<1>6. StageAt(r) /\ stage[r] = "exts" /\ call[d] = NoCall /\ call[c] \in Records
  <2>1. StageAt(r) /\ CallAt(d)
    BY <1>2 DEF Inv, StageInv, CallInv
  <2> QED
    BY <1>1, <1>2, <2>1, SubsType DEF StageAt, CallAt
<1>7. call'[c].pc = "over" /\ call'[d].pc = "sent" /\ call'[d].result = "none"
  BY <1>1, <1>6 DEF NoCall, Records
<1>8. CallAt(c)' /\ CallAt(d)'
  BY <1>7, Phases DEF CallAt
<1>9. StageAt(r)'
  <2>1. call'[<<r, "set">>] = call[<<r, "set">>] /\ call'[<<r, "out">>] = call[<<r, "out">>]
    BY <1>1, CallsOf
  <2> QED
    BY <1>1, <1>6, <1>7, <2>1 DEF StageAt, Early
<1> DEFINE C == {c, d}
<1>10. C \in SUBSET Calls /\ (\A e \in C : e[1] = r /\ CallAt(e)')
       /\ \A e \in Calls \ C : call'[e] = call[e]
  BY <1>1, <1>2, <1>8
<1> HIDE DEF c, d, C
<1> QED
  BY <1>1, <1>5, <1>9, <1>10, OwnStepInv

LEMMA TokenReturnsInv ==
  ASSUME Inv, NEW r \in Requests, NEW s \in PinSlots, TokenReturns(r, s)
  PROVE  Inv'
<1> DEFINE c == <<r, s>>
           in == <<r, "in">>
           command == <<r, "command">>
           t == Decrypt(call[c].peer, c, call[c].under)
<1> TypeOK
  BY DEF Inv
<1>1. /\ t \in {"genuine", "garbage"}
      /\ call' \in [Calls -> Records] /\ stage' \in [Requests -> Stages] /\ call'[c].pc = "over"
      /\ \A d \in Calls \ {c, in, command} : call'[d] = call[d]
      /\ \A q \in Requests \ {r} : stage'[q] = stage[q]
      /\ UNCHANGED <<platformKey, subs, secret, authKey, pinSet, retries, alone>>
  BY TokenReturnsEffect, ZenonT(30)
<1>2. \/ /\ stage[r] # "pin"
         /\ UNCHANGED <<stage, token, hashOf, param, queue, quiet>>
         /\ call'[in] = call[in] /\ call'[command] = call[command]
      \/ /\ stage[r] = "pin" /\ stage'[r] = "exts" /\ r \in secret
         /\ token' = [token EXCEPT ![r] = t] /\ hashOf' = r
         /\ call'[in] = [call[in] EXCEPT !.pc = "asking", !.pin = "none"]
         /\ call'[command] = call[command]
         /\ queue' = Append(queue, in) /\ Begins({in}, {c}) /\ UNCHANGED param
      \/ /\ stage[r] = "pin" /\ stage'[r] = "command" /\ r \notin secret
         /\ token' = [token EXCEPT ![r] = t] /\ hashOf' = r
         /\ call'[in] = call[in]
         /\ call'[command] = [call[command] EXCEPT !.pc = "sent"]
         /\ param' = [param EXCEPT ![r] = [token |-> t, hash |-> r]]
         /\ queue' = Append(queue, command) /\ UNCHANGED quiet
  BY TokenReturnsEffect, ZenonT(30)
<1>3. /\ c \in Calls /\ in \in Calls /\ command \in Calls /\ c # in /\ c # command /\ in # command
      /\ c[1] = r /\ in[1] = r /\ command[1] = r
  BY CallsOf
<1>4. /\ hashOf' \in Requests \cup {hashOf} /\ queue' \in Seq(Calls)
      /\ quiet' \subseteq Calls
  <2>1. queue' = queue \/ queue' = Append(queue, in) \/ queue' = Append(queue, command)
    BY <1>2
  <2>2. quiet' = quiet \/ Begins({in}, {c})
    BY <1>2
  <2>3. {in} \in SUBSET Calls
    BY <1>3
  <2>4. quiet' \subseteq Calls
    BY <2>2, <2>3, SubsType, BeginsType
  <2> HIDE DEF in, command
  <2>5. queue' \in Seq(Calls)
    BY <1>3, <2>1, SubsType, AppendCall
  <2> QED
    BY <1>2, <2>4, <2>5
<1>5. token' \in [Requests -> Tokens] /\ param' \in [Requests -> Params]
  <2>1. [token |-> t, hash |-> r] \in Params /\ t \in Tokens
    BY <1>1 DEF Params, Tokens
  <2>2. /\ token' = token \/ token' = [token EXCEPT ![r] = t]
        /\ param' = param \/ param' = [param EXCEPT ![r] = [token |-> t, hash |-> r]]
    BY <1>2
  <2>3. token \in [Requests -> Tokens] /\ param \in [Requests -> Params]
    BY SubsType
  <2> HIDE DEF t
  <2> QED
    BY <2>1, <2>2, <2>3
<1>6. subs' \subseteq Requests /\ \A q \in subs' : stage'[q] \notin {"idle", "done"}
  BY <1>1, <1>2, SubsType
<1>7. TypeOK'
  BY <1>1, <1>4, <1>5, <1>6, SubsType, TypeStep
<1>8. /\ StageAt(r) /\ CallAt(in) /\ CallAt(command)
      /\ stage[r] = "pin" => call[in] = NoCall /\ call[command] = NoCall
  <2>1. StageAt(r) /\ CallAt(in) /\ CallAt(command)
    BY <1>3 DEF Inv, StageInv, CallInv
  <2> QED
    BY <2>1 DEF StageAt, CallAt, Early
<1>9. CallAt(c)' /\ CallAt(in)' /\ CallAt(command)'
  <2>1. CallAt(c)'
    BY <1>1, Phases DEF CallAt
  <2>2. CallAt(in)'
    <3>1. CASE call'[in] = call[in]
      BY <1>3, <1>8, <3>1, CallKept
    <3>2. CASE stage[r] = "pin" /\ call'[in] = [call[in] EXCEPT !.pc = "asking", !.pin = "none"]
      BY <1>8, <3>2, Phases DEF CallAt, NoCall
    <3> QED
      BY <1>2, <3>1, <3>2
  <2>3. CallAt(command)'
    <3>1. CASE call'[command] = call[command]
      BY <1>3, <1>8, <3>1, CallKept
    <3>2. CASE stage[r] = "pin" /\ call'[command] = [call[command] EXCEPT !.pc = "sent"]
      BY <1>8, <3>2, Phases DEF CallAt, NoCall
    <3> QED
      BY <1>2, <3>1, <3>2
  <2> QED
    BY <2>1, <2>2, <2>3
<1>10. StageAt(r)'
  <2>1. call'[<<r, "set">>] = call[<<r, "set">>] /\ call'[<<r, "out">>] = call[<<r, "out">>]
    <3>1. <<r, "set">> \in Calls \ {c, in, command} /\ <<r, "out">> \in Calls \ {c, in, command}
      BY CallsOf
    <3> QED
      BY <1>1, <3>1
  <2>2. CASE UNCHANGED stage /\ call'[in] = call[in] /\ call'[command] = call[command]
    BY <1>8, <2>1, <2>2, StageKept
  <2>3. CASE stage[r] = "pin" /\ stage'[r] = "exts" /\ call'[command] = call[command]
    BY <1>8, <2>1, <2>3 DEF StageAt, Early
  <2>4. CASE /\ stage[r] = "pin" /\ stage'[r] = "command" /\ call'[in] = call[in]
             /\ call'[command] = [call[command] EXCEPT !.pc = "sent"]
    BY <1>8, <2>1, <2>4 DEF StageAt, Early
  <2> QED
    BY <1>2, <2>2, <2>3, <2>4
<1> DEFINE C == {c, in, command}
<1>11. C \in SUBSET Calls /\ (\A e \in C : e[1] = r /\ CallAt(e)')
       /\ \A e \in Calls \ C : call'[e] = call[e]
  BY <1>1, <1>3, <1>9
<1> HIDE DEF c, in, command, C
<1> QED
  BY <1>1, <1>7, <1>10, <1>11, OwnStepInv

LEMMA CommandReturnsInv ==
  ASSUME Inv, NEW r \in Requests, CommandReturns(r)
  PROVE  Inv'
<1> DEFINE c == <<r, "command">>
           out == <<r, "out">>
<1> TypeOK
  BY DEF Inv
<1>1. /\ call[c].pc = "answered"
      /\ call' \in [Calls -> Records] /\ stage' \in [Requests -> Stages]
      /\ call'[c] = [call[c] EXCEPT !.pc = "over"]
      /\ \A d \in Calls \ {c, out} : call'[d] = call[d]
      /\ \A q \in Requests \ {r} : stage'[q] = stage[q]
      /\ UNCHANGED <<platformKey, hashOf, token, param, secret, authKey, pinSet, retries, alone>>
  BY CommandReturnsEffect
<1>2. \/ /\ stage'[r] = "output"
         /\ call'[out] = [call[out] EXCEPT !.pc = "asking", !.pin = "none"]
         /\ queue' = Append(queue, out) /\ Begins({out}, {}) /\ UNCHANGED subs
      \/ /\ stage'[r] = "done" /\ subs' = {}
         /\ call'[out] = call[out] /\ UNCHANGED <<queue, quiet>>
  BY CommandReturnsEffect
<1>3. c \in Calls /\ out \in Calls /\ c[1] = r /\ out[1] = r
  BY CallsOf
<1>4. StageAt(r) /\ stage[r] = "command" /\ call[out] = NoCall /\ call[c] \in Records
  <2>1. StageAt(r) /\ CallAt(out)
    BY <1>3 DEF Inv, StageInv, CallInv
  <2> QED
    BY <1>1, <1>3, <2>1, SubsType DEF StageAt, CallAt, Early
<1>5. queue' \in Seq(Calls) /\ quiet' \subseteq Calls
  <2>1. {out} \in SUBSET Calls
    BY <1>3
  <2>2. quiet' \subseteq Calls
    BY <1>2, <2>1, SubsType, BeginsType
  <2>3. queue' \in Seq(Calls)
    BY <1>2, <1>3, SubsType, AppendCall
  <2> QED
    BY <2>2, <2>3
<1>6. subs' \subseteq Requests /\ \A q \in subs' : stage'[q] \notin {"idle", "done"}
  BY <1>1, <1>2, SubsType
<1>7. TypeOK'
  BY <1>1, <1>5, <1>6, SubsType, TypeStep
<1>8. call'[c].pc = "over"
  BY <1>1, <1>4 DEF Records
<1>9. CallAt(c)' /\ CallAt(out)'
  <2>1. \/ call'[out] = NoCall /\ NoCall.pc = "idle"
        \/ call'[out].pc = "asking" /\ call'[out].result = "none"
    <3>1. call'[out] = call[out] \/ call'[out] = [call[out] EXCEPT !.pc = "asking", !.pin = "none"]
      BY <1>2
    <3>2. call[out] = NoCall /\ call[out] \in Records
      BY <1>4, NoCallType
    <3>3. /\ NoCall.pc = "idle"
          /\ [NoCall EXCEPT !.pc = "asking", !.pin = "none"].pc = "asking"
          /\ [NoCall EXCEPT !.pc = "asking", !.pin = "none"].result = "none"
      BY DEF NoCall
    <3> HIDE DEF c, out
    <3> QED
      BY <3>1, <3>2, <3>3
  <2>2. CallAt(out)'
    BY <2>1, Phases DEF CallAt
  <2> QED
    BY <1>8, <2>2, Phases DEF CallAt
<1>10. StageAt(r)'
  <2>1. call'[<<r, "set">>] = call[<<r, "set">>] /\ call'[<<r, "in">>] = call[<<r, "in">>]
    <3>1. <<r, "set">> \in Calls \ {c, out} /\ <<r, "in">> \in Calls \ {c, out}
      BY CallsOf
    <3> QED
      BY <1>1, <3>1
  <2>2. \/ stage'[r] = "output"
        \/ stage'[r] = "done" /\ call'[out].pc = "idle"
    BY <1>2, <1>4 DEF NoCall
  <2>3. /\ call[<<r, "set">>].pc \notin {"asking", "keyed"}
        /\ call[<<r, "in">>].pc \notin {"asking", "keyed"}
    BY <1>4 DEF StageAt
  <2> QED
    BY <1>8, <2>1, <2>2, <2>3 DEF StageAt, Early
<1> DEFINE C == {c, out}
<1>11. C \in SUBSET Calls /\ (\A e \in C : e[1] = r /\ CallAt(e)')
       /\ \A e \in Calls \ C : call'[e] = call[e]
  BY <1>1, <1>3, <1>9
<1> HIDE DEF c, out, C
<1> QED
  BY <1>1, <1>7, <1>10, <1>11, OwnStepInv

LEMMA OutputBuiltInv ==
  ASSUME Inv, NEW r \in Requests, OutputBuilt(r)
  PROVE  Inv'
<1> DEFINE c == <<r, "out">>
           t == Decrypt(call[c].peer, <<r, "in">>, call[<<r, "command">>].under)
<1> TypeOK
  BY DEF Inv
<1>1. /\ call[c].pc = "keyed" /\ t \in {"genuine", "garbage"}
      /\ call' \in [Calls -> Records] /\ stage' \in [Requests -> Stages]
      /\ call'[c] = [call[c] EXCEPT !.pc = "over", !.result = t]
      /\ \A d \in Calls \ {c} : call'[d] = call[d]
      /\ stage'[r] = "done" /\ \A q \in Requests \ {r} : stage'[q] = stage[q]
      /\ UNCHANGED <<platformKey, hashOf, token, param, secret, authKey, pinSet, retries,
                     queue, quiet, alone>>
      /\ subs' = {}
  BY OutputBuiltEffect
<1>2. c \in Calls /\ c[1] = r /\ call[c] \in Records /\ StageAt(r)
  BY CallsOf, SubsType DEF Inv, StageInv
<1>3. TypeOK'
  BY <1>1, SubsType, TypeStep
<1>4. call'[c].pc = "over"
  <2> HIDE DEF t
  <2> QED
    BY <1>1, <1>2 DEF Records
<1>5. CallAt(c)'
  BY <1>4, Phases DEF CallAt
<1>6. StageAt(r)'
  <2>1. /\ call'[<<r, "set">>] = call[<<r, "set">>] /\ call'[<<r, "in">>] = call[<<r, "in">>]
        /\ call'[<<r, "command">>] = call[<<r, "command">>]
    <3>1. \A k \in {"set", "in", "command"} : <<r, k>> \in Calls \ {c}
      BY CallsOf
    <3> QED
      BY <1>1, <3>1
  <2>2. stage[r] = "output"
    BY <1>1, <1>2 DEF StageAt
  <2> QED
    BY <1>1, <1>2, <1>4, <2>1, <2>2 DEF StageAt, Early
<1> DEFINE C == {c}
<1>7. C \in SUBSET Calls /\ (\A d \in C : d[1] = r /\ CallAt(d)')
      /\ \A d \in Calls \ C : call'[d] = call[d]
  BY <1>1, <1>2, <1>5
<1> HIDE DEF c, t, C
<1> QED
  BY <1>1, <1>3, <1>6, <1>7, OwnStepInv

(* An answer starts nothing, and ends only what waits for it. *)
LEMMA AnswerPhase ==
  ASSUME Inv, Answer
  PROVE  \E c \in Calls :
           /\ call[c].pc # "idle"
           /\ \A d \in Calls \ {c} : call'[d] = call[d]
           /\ UNCHANGED <<platformKey, hashOf, stage, subs, token, param, secret, quiet, alone>>
           /\ \/ call[c].pc = "asking" /\ call'[c].pc = "keyed" /\ call'[c].result = "none"
              \/ call[c].pc = "sent" /\ c[2] \in PinSlots \cup {"command"} /\ call'[c].pc = "answered"
              \/ call[c].pc = "sent" /\ c[2] = "set" /\ call'[c].pc = "over"
           /\ authKey' = authKey \/ (c[2] \in PinSlots /\ call[c].pc = "sent")
           /\ authKey' \in Calls \cup {authKey} /\ pinSet' \in BOOLEAN /\ retries' \in 0..MaxRetries
           /\ queue' \in Seq(Calls) /\ call' \in [Calls -> Records]
<1> TypeOK
  BY DEF Inv
<1>1. PICK c \in Calls :
           /\ queue' \in Seq(Calls) /\ call' \in [Calls -> Records]
           /\ \A d \in Calls \ {c} : call'[d] = call[d]
           /\ UNCHANGED <<platformKey, hashOf, stage, subs, token, param, secret, quiet, alone>>
           /\ \/ /\ call[c].pc = "asking" /\ UNCHANGED <<authKey, pinSet, retries>>
                 /\ call'[c] = [call[c] EXCEPT !.pc = "keyed", !.peer = authKey]
              \/ /\ c[2] = "set" /\ call[c].pc = "sent" /\ UNCHANGED <<authKey, retries>>
                 /\ pinSet' \in BOOLEAN
                 /\ call'[c].pc = "over" /\ call'[c].result = "none" /\ call'[c].pin = call[c].pin
              \/ /\ c[2] \in PinSlots /\ call[c].pc = "sent" /\ pinSet' = pinSet
                 /\ retries' \in 0..MaxRetries
                 /\ \E x \in {"refused", "granted", "invalid"} :
                      /\ call'[c] = [call[c] EXCEPT !.pc = "answered", !.result = x, !.under = authKey]
                      /\ x = "granted" => call[c].peer = authKey
                      /\ x = "invalid" => ~(call[c].pin = "right" /\ call[c].peer = authKey)
                      /\ authKey' = IF x = "invalid" THEN c ELSE authKey
              \/ /\ c[2] = "command" /\ call[c].pc = "sent" /\ UNCHANGED <<authKey, pinSet, retries>>
                 /\ \E x \in {"accepted", "rejected"} :
                      /\ call'[c] = [call[c] EXCEPT !.pc = "answered", !.result = x, !.under = authKey]
                      /\ x = "rejected" =>
                           ~(/\ param[c[1]] = [token |-> "genuine", hash |-> c[1]]
                             /\ c[1] \in secret => call[<<c[1], "in">>].peer = authKey)
  BY AnswerEffect
<1>2. call[c] \in Records /\ CallAt(c) /\ pinSet \in BOOLEAN /\ retries \in 0..MaxRetries
  BY SubsType DEF Inv, CallInv
<1>3. \/ /\ call[c].pc = "asking" /\ call'[c].pc = "keyed" /\ call'[c].result = "none"
         /\ UNCHANGED <<authKey, pinSet, retries>>
      \/ /\ call[c].pc = "sent" /\ c[2] \in PinSlots /\ call'[c].pc = "answered" /\ pinSet' = pinSet
         /\ retries' \in 0..MaxRetries /\ authKey' \in {c, authKey}
      \/ /\ call[c].pc = "sent" /\ c[2] = "command" /\ call'[c].pc = "answered"
         /\ UNCHANGED <<authKey, pinSet, retries>>
      \/ /\ call[c].pc = "sent" /\ c[2] = "set" /\ call'[c].pc = "over" /\ authKey' = authKey
         /\ pinSet' \in BOOLEAN /\ retries' = retries
  BY <1>1, <1>2 DEF Records, CallAt
<1>4. call[c].pc # "idle"
  BY <1>3
<1> QED
  BY <1>1, <1>2, <1>3, <1>4

LEMMA AnswerInv ==
  ASSUME Inv, Answer
  PROVE  Inv'
<1> TypeOK
  BY DEF Inv
<1>1. PICK c \in Calls :
           /\ call[c].pc # "idle"
           /\ \A d \in Calls \ {c} : call'[d] = call[d]
           /\ UNCHANGED <<platformKey, hashOf, stage, subs, token, param, secret, quiet, alone>>
           /\ \/ call[c].pc = "asking" /\ call'[c].pc = "keyed" /\ call'[c].result = "none"
              \/ call[c].pc = "sent" /\ c[2] \in PinSlots \cup {"command"} /\ call'[c].pc = "answered"
              \/ call[c].pc = "sent" /\ c[2] = "set" /\ call'[c].pc = "over"
           /\ authKey' = authKey \/ (c[2] \in PinSlots /\ call[c].pc = "sent")
           /\ authKey' \in Calls \cup {authKey} /\ pinSet' \in BOOLEAN /\ retries' \in 0..MaxRetries
           /\ queue' \in Seq(Calls) /\ call' \in [Calls -> Records]
  BY AnswerPhase
<1>2. TypeOK'
  BY <1>1, SubsType, TypeStep
<1>3. CallAt(c)
  BY DEF Inv, CallInv
<1>4. c[1] \in Requests /\ c[2] \in PinSlots \cup {"set", "in", "command", "out"} /\ c = <<c[1], c[2]>>
  BY CallsOf
<1>5. CallAt(c)'
  <2>1. "keyed" \in PhasesOf(c[2]) \/ call[c].pc # "asking"
    BY <1>3, <1>4, Phases DEF CallAt
  <2>2. c[2] \in PinSlots \cup {"command"} => "answered" \in PhasesOf(c[2])
    BY Phases
  <2>3. c[2] = "set" => "over" \in PhasesOf(c[2])
    BY Phases
  <2> QED
    BY <1>1, <2>1, <2>2, <2>3 DEF CallAt
<1>6. StageAt(c[1])'
  <2> DEFINE r == c[1]
  <2>1. \A k \in {"set", "in", "command", "out"} : k # c[2] => call'[<<r, k>>] = call[<<r, k>>]
    <3> SUFFICES ASSUME NEW k \in {"set", "in", "command", "out"}, k # c[2]
                 PROVE  call'[<<r, k>>] = call[<<r, k>>]
      OBVIOUS
    <3>1. <<r, k>> \in Calls \ {c}
      BY <1>4, CallsOf
    <3> QED
      BY <1>1, <3>1
  <2>2. StageAt(r)
    BY <1>4 DEF Inv, StageInv
  <2>3. CASE c[2] \in PinSlots
    <3>1. \A k \in {"set", "in", "command", "out"} : call'[<<r, k>>] = call[<<r, k>>]
      BY <2>1, <2>3, CallsOf
    <3> QED
      BY <1>1, <1>4, <2>2, <3>1, StageKept
  <2>4. ASSUME NEW k \in {"set", "in", "command", "out"}, c[2] = k
        PROVE  StageAt(r)'
    <3>1. c = <<r, k>> /\ k \notin PinSlots
      BY <1>4, <2>4, CallsOf
    <3>2. /\ k # "set" => call'[<<r, "set">>] = call[<<r, "set">>]
          /\ k # "in" => call'[<<r, "in">>] = call[<<r, "in">>]
          /\ k # "command" => call'[<<r, "command">>] = call[<<r, "command">>]
          /\ k # "out" => call'[<<r, "out">>] = call[<<r, "out">>]
      BY <2>1, <2>4
    <3>3. \/ call[<<r, k>>].pc = "asking" /\ call'[<<r, k>>].pc = "keyed"
          \/ k = "command" /\ call[<<r, k>>].pc = "sent" /\ call'[<<r, k>>].pc = "answered"
          \/ k = "set" /\ call[<<r, k>>].pc = "sent" /\ call'[<<r, k>>].pc = "over"
      BY <1>1, <2>4, <3>1
    <3>4. k = "command" => call[<<r, k>>].pc # "asking"
      BY <1>3, <2>4, <3>1, Phases DEF CallAt
    <3>5. stage'[r] = stage[r]
      BY <1>1
    <3> HIDE DEF r
    <3>6. CASE k = "set"
      BY <2>2, <3>2, <3>3, <3>5, <3>6 DEF StageAt, Early
    <3>7. CASE k = "in"
      BY <2>2, <3>2, <3>3, <3>5, <3>7 DEF StageAt, Early
    <3>8. CASE k = "command"
      BY <2>2, <3>2, <3>3, <3>4, <3>5, <3>8 DEF StageAt, Early
    <3>9. CASE k = "out"
      BY <2>2, <3>2, <3>3, <3>5, <3>9 DEF StageAt, Early
    <3> QED
      BY <2>4, <3>6, <3>7, <3>8, <3>9
  <2> QED
    BY <1>4, <2>3, <2>4
<1> DEFINE C == {c}
<1>7. C \in SUBSET Calls /\ (\A d \in C : d[1] = c[1] /\ CallAt(d)')
      /\ \A d \in Calls \ C : call'[d] = call[d]
  BY <1>1, <1>5
<1> HIDE DEF C
<1> QED
  BY <1>1, <1>2, <1>4, <1>6, <1>7, OwnStepInv

LEMMA InvInit ==
  ASSUME Init
  PROVE  Inv
<1>1. \A c \in Calls : call[c] = NoCall
  BY DEF Init
<1>2. call \in [Calls -> Records] /\ NoCall.pc = "idle"
  BY NoCallType DEF Init, NoCall
<1>3. TypeOK
  <2>1. param \in [Requests -> Params]
    BY DEF Init, NoParam, Params, Tokens
  <2>2. MaxRetries \in Nat
    BY ConstantsAssumption DEF ConstantsAssumption
  <2>3. << >> \in Seq(Calls)
    BY EmptySeq
  <2> QED
    BY <1>2, <2>1, <2>2, <2>3 DEF Init, TypeOK, Keys, Records, Params, Tokens
<1>4. \A c \in Calls : "idle" \in PhasesOf(c[2])
  BY CallsOf, Phases
<1>5. CallInv
  BY <1>1, <1>2, <1>4 DEF CallInv, CallAt
<1>6. StageInv
  <2>1. \A r \in Requests : stage[r] = "idle" /\ \A k \in {"set", "in", "command", "out"} :
                              call[<<r, k>>].pc = "idle"
    BY <1>1, <1>2, CallsOf DEF Init
  <2> QED
    BY <2>1 DEF StageInv, StageAt, Early
<1> QED
  BY <1>3, <1>5, <1>6 DEF Inv

LEMMA InvNext ==
  ASSUME Inv, [Next]_vars
  PROVE  Inv'
<1>1. ASSUME NEW r \in Requests,
             \/ Begin(r) \/ SendSetPin(r) \/ SendSecretCommand(r) \/ CommandReturns(r)
             \/ OutputBuilt(r)
      PROVE  Inv'
  BY <1>1, BeginInv, SendSetPinInv, SendSecretCommandInv, CommandReturnsInv, OutputBuiltInv
<1>2. ASSUME NEW r \in Requests, NEW s \in PinSlots,
             SendGetPinToken(r, s) \/ TokenReturns(r, s) \/ TokenRefused(r, s)
      PROVE  Inv'
  BY <1>2, SendGetPinTokenInv, TokenReturnsInv, TokenRefusedInv
<1>3. ASSUME NEW p \in {"right", "wrong"}, TypePin(p)
      PROVE  Inv'
  BY <1>3, TypePinInv
<1>4. CASE Answer
  BY <1>4, AnswerInv
<1>5. CASE UNCHANGED vars
  BY <1>5 DEF vars, platform, request, authenticator, history, Inv, TypeOK, Pending, CallInv,
              CallAt, StageInv, StageAt
<1> QED
  BY <1>1, <1>2, <1>3, <1>4, <1>5 DEF Next

-----------------------------------------------------------------------------
(* Nothing runs beside an operation that has been quiet so far *)

(* Only the output of hmac-secret may be under way with its input. *)
Compatible(c, d) == c[2] = "in" /\ d = <<c[1], "out">>

QuietAt(c) ==
    /\ call[c].pc # "idle"
    /\ UnderWay(c) => \A d \in Calls \ {c} : UnderWay(d) => Compatible(c, d)

QuietInv == \A c \in quiet : c[2] \in PinSlots \cup {"in"} => QuietAt(c)

Runs == {"asking", "keyed", "sent", "answered"}
Extended == {"exts", "command", "output"}

LEMMA UnderWayOf ==
  ASSUME NEW c \in Calls
  PROVE  /\ c[2] = "set" => (UnderWay(c) <=> call[c].pc \in {"asking", "keyed"})
         /\ c[2] \in PinSlots \cup {"out"} => (UnderWay(c) <=> call[c].pc \in Runs)
         /\ c[2] = "in" => (UnderWay(c) <=> stage[c[1]] \in Extended)
         /\ c[2] = "command" => ~UnderWay(c)
BY CallsOf DEF UnderWay, Runs, Extended

LEMMA UnderWayNext ==
  ASSUME NEW c \in Calls
  PROVE  /\ c[2] = "set" => (UnderWay(c)' <=> call'[c].pc \in {"asking", "keyed"})
         /\ c[2] \in PinSlots \cup {"out"} => (UnderWay(c)' <=> call'[c].pc \in Runs)
         /\ c[2] = "in" => (UnderWay(c)' <=> stage'[c[1]] \in Extended)
         /\ c[2] = "command" => ~UnderWay(c)'
BY CallsOf DEF UnderWay, Runs, Extended

(* An operation that goes on was under way before, unless the step starts it. *)
LEMMA UnderWayKept ==
  ASSUME NEW c \in Calls, UnderWay(c)',
         c[2] = "set" /\ call'[c].pc \in {"asking", "keyed"} => call[c].pc \in {"asking", "keyed"},
         c[2] \in PinSlots \cup {"out"} /\ call'[c].pc \in Runs => call[c].pc \in Runs,
         c[2] = "in" /\ stage'[c[1]] \in Extended => stage[c[1]] \in Extended
  PROVE  UnderWay(c)
<1>1. c[2] \in PinSlots \cup {"set", "in", "command", "out"}
  BY CallsOf
<1> QED
  BY <1>1, UnderWayOf, UnderWayNext

(* No operation of its request is quiet before it has started. *)
LEMMA QuietStarted ==
  ASSUME Inv, QuietInv, NEW r \in Requests, stage[r] \in Early
  PROVE  <<r, "in">> \notin quiet
BY CallsOf DEF Inv, StageInv, StageAt, QuietInv, QuietAt

(* A step that starts nothing. *)
LEMMA QuietKept ==
  ASSUME Inv, QuietInv, quiet' = quiet,
         \A c \in Calls : call[c].pc # "idle" => call'[c].pc # "idle",
         \A c \in Calls : UnderWay(c)' => UnderWay(c)
  PROVE  QuietInv'
<1> SUFFICES ASSUME NEW c \in quiet, c[2] \in PinSlots \cup {"in"}
             PROVE  QuietAt(c)'
  BY DEF QuietInv
<1>1. c \in Calls /\ QuietAt(c)
  BY SubsType DEF Inv, QuietInv
<1>2. call'[c].pc # "idle"
  BY <1>1 DEF QuietAt
<1>3. ASSUME UnderWay(c)', NEW d \in Calls \ {c}, UnderWay(d)'
      PROVE  Compatible(c, d)
  BY <1>1, <1>3 DEF QuietAt
<1> QED
  BY <1>2, <1>3 DEF QuietAt, Compatible

(* A step in which the operations in C begin and those in D end. *)
LEMMA QuietBegins ==
  ASSUME Inv, QuietInv, NEW C \in SUBSET Calls, IsFiniteSet(C), NEW D, Begins(C, D),
         \A c \in C : call[c].pc = "idle" /\ call'[c].pc # "idle",
         \A c \in C : c[2] = "out" => C = {c},
         \A c \in Calls \ C : call[c].pc # "idle" => call'[c].pc # "idle",
         \A c \in Calls \ C : UnderWay(c)' => UnderWay(c) /\ c \notin D
  PROVE  QuietInv'
<1> DEFINE own == {c \in Calls : c[2] = "in" /\ <<c[1], "out">> \in C}
           others == {c \in Calls \ (own \cup D) : UnderWay(c)}
<1> SUFFICES ASSUME NEW c \in quiet', c[2] \in PinSlots \cup {"in"}
             PROVE  QuietAt(c)'
  BY DEF QuietInv
<1>1. \/ c \in quiet /\ c \notin others
      \/ others = {} /\ Cardinality(C) = 1 /\ c \in C
  BY DEF Begins
<1>2. CASE c \in quiet /\ c \notin others
  <2>1. c \in Calls /\ QuietAt(c)
    BY <1>2, SubsType DEF Inv, QuietInv
  <2>2. c \notin C /\ call'[c].pc # "idle"
    BY <2>1 DEF QuietAt
  <2>3. ASSUME UnderWay(c)', NEW d \in Calls \ {c}, UnderWay(d)'
        PROVE  Compatible(c, d)
    <3>1. UnderWay(c) /\ c \in own
      BY <1>2, <2>1, <2>2, <2>3
    <3>2. CASE d \in C
      <4>1. <<c[1], "out">> \in C /\ c[2] = "in"
        BY <3>1
      <4>2. <<c[1], "out">>[2] = "out"
        OBVIOUS
      <4>3. C = {<<c[1], "out">>}
        BY <4>1, <4>2
      <4> QED
        BY <3>2, <4>1, <4>3 DEF Compatible
    <3>3. CASE d \notin C
      BY <2>1, <2>3, <3>1, <3>3 DEF QuietAt
    <3> QED
      BY <3>2, <3>3
  <2> QED
    BY <2>2, <2>3 DEF QuietAt, Compatible
<1>3. CASE others = {} /\ Cardinality(C) = 1 /\ c \in C
  <2>1. C = {c}
    BY <1>3, FS_Singleton
  <2>2. call'[c].pc # "idle"
    BY <1>3
  <2>3. ASSUME NEW d \in Calls \ {c}, UnderWay(d)'
        PROVE  FALSE
    <3>1. UnderWay(d) /\ d \notin D
      BY <2>1, <2>3
    <3>2. d \in own
      BY <1>3, <3>1
    <3>3. c = <<d[1], "out">>
      BY <2>1, <3>2
    <3>4. c[2] = "out"
      BY <3>3
    <3> QED
      BY <3>4, ConstantsAssumption DEF ConstantsAssumption
  <2> QED
    BY <2>2, <2>3 DEF QuietAt
<1> QED
  BY <1>1, <1>2, <1>3

(* A step that touches nothing but the calls in C, none of which starts, and no stage. *)
LEMMA QuietCalls ==
  ASSUME Inv, QuietInv, quiet' = quiet, NEW C \in SUBSET Calls,
         \A c \in Calls \ C : call'[c] = call[c],
         \A c \in C : /\ call'[c].pc # "idle"
                      /\ c[2] = "set" /\ call'[c].pc \in {"asking", "keyed"} => call[c].pc \in {"asking", "keyed"}
                      /\ c[2] \in PinSlots \cup {"out"} /\ call'[c].pc \in Runs => call[c].pc \in Runs,
         \A r \in Requests : stage'[r] \in Extended => stage[r] \in Extended
  PROVE  QuietInv'
<1>1. \A c \in Calls : call[c].pc # "idle" => call'[c].pc # "idle"
  OBVIOUS
<1>2. ASSUME NEW c \in Calls, UnderWay(c)'
      PROVE  UnderWay(c)
  <2>1. c[2] = "set" /\ call'[c].pc \in {"asking", "keyed"} => call[c].pc \in {"asking", "keyed"}
    OBVIOUS
  <2>2. c[2] \in PinSlots \cup {"out"} /\ call'[c].pc \in Runs => call[c].pc \in Runs
    OBVIOUS
  <2>3. c[2] = "in" /\ stage'[c[1]] \in Extended => stage[c[1]] \in Extended
    BY CallsOf
  <2> QED
    BY <1>2, <2>1, <2>2, <2>3, UnderWayKept
<1> QED
  BY <1>1, <1>2, QuietKept

LEMMA BeginQuiet ==
  ASSUME Inv, QuietInv, NEW r \in Requests, Begin(r)
  PROVE  QuietInv'
<1>1. /\ stage'[r] \in {"pin", "set"} /\ \A q \in Requests \ {r} : stage'[q] = stage[q]
      /\ call' = call /\ quiet' = quiet
  BY BeginEffect DEF Inv
<1>2. \A q \in Requests : stage'[q] \in Extended => stage[q] \in Extended
  BY <1>1 DEF Extended
<1> DEFINE C == {}
<1>3. C \in SUBSET Calls /\ \A c \in Calls \ C : call'[c] = call[c]
  BY <1>1
<1>4. \A c \in C : FALSE
  OBVIOUS
<1> HIDE DEF C
<1> QED
  BY <1>1, <1>2, <1>3, <1>4, QuietCalls

LEMMA SendSetPinQuiet ==
  ASSUME Inv, QuietInv, NEW r \in Requests, SendSetPin(r)
  PROVE  QuietInv'
<1> DEFINE c == <<r, "set">>
<1>1. /\ call[c].pc = "keyed" /\ call'[c] = [call[c] EXCEPT !.pc = "sent"]
      /\ \A d \in Calls \ {c} : call'[d] = call[d]
      /\ stage'[r] = "pin" /\ \A q \in Requests \ {r} : stage'[q] = stage[q]
      /\ quiet' = quiet
  BY SendSetPinEffect DEF Inv
<1>2. c \in Calls /\ c[2] = "set" /\ call[c] \in Records
  BY CallsOf, SubsType DEF Inv
<1>3. call'[c].pc = "sent" /\ c[2] \notin PinSlots \cup {"out"}
  BY <1>1, <1>2, CallsOf DEF Records
<1>4. \A q \in Requests : stage'[q] \in Extended => stage[q] \in Extended
  BY <1>1 DEF Extended
<1> DEFINE C == {c}
<1>5. C \in SUBSET Calls /\ \A d \in Calls \ C : call'[d] = call[d]
  BY <1>1, <1>2
<1>6. \A d \in C : /\ call'[d].pc # "idle"
                   /\ d[2] = "set" /\ call'[d].pc \in {"asking", "keyed"} => call[d].pc \in {"asking", "keyed"}
                   /\ d[2] \in PinSlots \cup {"out"} /\ call'[d].pc \in Runs => call[d].pc \in Runs
  BY <1>3
<1> HIDE DEF c, C
<1> QED
  BY <1>1, <1>4, <1>5, <1>6, QuietCalls

LEMMA SendGetPinTokenQuiet ==
  ASSUME Inv, QuietInv, NEW r \in Requests, NEW s \in PinSlots, SendGetPinToken(r, s)
  PROVE  QuietInv'
<1> DEFINE c == <<r, s>>
<1>1. /\ call[c].pc = "keyed" /\ call'[c] = [call[c] EXCEPT !.pc = "sent"]
      /\ \A d \in Calls \ {c} : call'[d] = call[d]
      /\ UNCHANGED <<stage, quiet>>
  BY SendGetPinTokenEffect DEF Inv
<1>2. c \in Calls /\ c[2] = s /\ s # "set" /\ call[c] \in Records
  BY CallsOf, SubsType DEF Inv
<1>3. call'[c].pc = "sent"
  BY <1>1, <1>2 DEF Records
<1> DEFINE C == {c}
<1>4. C \in SUBSET Calls /\ \A d \in Calls \ C : call'[d] = call[d]
  BY <1>1, <1>2
<1>5. \A d \in C : /\ call'[d].pc # "idle"
                   /\ d[2] = "set" /\ call'[d].pc \in {"asking", "keyed"} => call[d].pc \in {"asking", "keyed"}
                   /\ d[2] \in PinSlots \cup {"out"} /\ call'[d].pc \in Runs => call[d].pc \in Runs
  BY <1>1, <1>2, <1>3 DEF Runs
<1> HIDE DEF c, C
<1> QED
  BY <1>1, <1>4, <1>5, QuietCalls

LEMMA TokenRefusedQuiet ==
  ASSUME Inv, QuietInv, NEW r \in Requests, NEW s \in PinSlots, TokenRefused(r, s)
  PROVE  QuietInv'
<1> DEFINE c == <<r, s>>
<1>1. /\ call'[c].pc = "over" /\ \A d \in Calls \ {c} : call'[d] = call[d]
      /\ UNCHANGED <<stage, quiet>>
  BY TokenRefusedEffect DEF Inv
<1>2. c \in Calls
  BY CallsOf
<1> DEFINE C == {c}
<1>3. C \in SUBSET Calls /\ \A d \in Calls \ C : call'[d] = call[d]
  BY <1>1, <1>2
<1>4. \A d \in C : /\ call'[d].pc # "idle"
                   /\ d[2] = "set" /\ call'[d].pc \in {"asking", "keyed"} => call[d].pc \in {"asking", "keyed"}
                   /\ d[2] \in PinSlots \cup {"out"} /\ call'[d].pc \in Runs => call[d].pc \in Runs
  BY <1>1 DEF Runs
<1> HIDE DEF c, C
<1> QED
  BY <1>1, <1>3, <1>4, QuietCalls

LEMMA SendSecretCommandQuiet ==
  ASSUME Inv, QuietInv, NEW r \in Requests, SendSecretCommand(r)
  PROVE  QuietInv'
<1> DEFINE c == <<r, "in">>
           d == <<r, "command">>
<1>1. /\ call[c].pc = "keyed" /\ call'[c] = [call[c] EXCEPT !.pc = "over"]
      /\ call'[d] = [call[d] EXCEPT !.pc = "sent"]
      /\ \A e \in Calls \ {c, d} : call'[e] = call[e]
      /\ stage'[r] = "command" /\ \A q \in Requests \ {r} : stage'[q] = stage[q]
      /\ quiet' = quiet
  BY SendSecretCommandEffect DEF Inv
<1>2. c \in Calls /\ d \in Calls /\ c[2] = "in" /\ d[2] = "command" /\ call[c] \in Records /\ call[d] \in Records
  BY CallsOf, SubsType DEF Inv
<1>3. call'[c].pc = "over" /\ call'[d].pc = "sent"
  BY <1>1, <1>2 DEF Records
<1>4. StageAt(r)
  BY DEF Inv, StageInv
<1>5. \A q \in Requests : stage'[q] \in Extended => stage[q] \in Extended
  BY <1>1, <1>4 DEF Extended, StageAt
<1> DEFINE C == {c, d}
<1>6. C \in SUBSET Calls /\ \A e \in Calls \ C : call'[e] = call[e]
  BY <1>1, <1>2
<1>7. c[2] \notin PinSlots \cup {"set", "out"} /\ d[2] \notin PinSlots \cup {"set", "out"}
  BY <1>2, CallsOf
<1>8. \A e \in C : /\ call'[e].pc # "idle"
                   /\ e[2] = "set" /\ call'[e].pc \in {"asking", "keyed"} => call[e].pc \in {"asking", "keyed"}
                   /\ e[2] \in PinSlots \cup {"out"} /\ call'[e].pc \in Runs => call[e].pc \in Runs
  BY <1>3, <1>7
<1> HIDE DEF c, d, C
<1> QED
  BY <1>1, <1>5, <1>6, <1>8, QuietCalls

LEMMA OutputBuiltQuiet ==
  ASSUME Inv, QuietInv, NEW r \in Requests, OutputBuilt(r)
  PROVE  QuietInv'
<1> DEFINE c == <<r, "out">>
           t == Decrypt(call[c].peer, <<r, "in">>, call[<<r, "command">>].under)
<1>1. /\ call'[c] = [call[c] EXCEPT !.pc = "over", !.result = t]
      /\ \A d \in Calls \ {c} : call'[d] = call[d]
      /\ stage'[r] = "done" /\ \A q \in Requests \ {r} : stage'[q] = stage[q]
      /\ quiet' = quiet
  BY OutputBuiltEffect DEF Inv
<1>2. c \in Calls /\ call[c] \in Records
  BY CallsOf, SubsType DEF Inv
<1> HIDE DEF t
<1>3. call'[c].pc = "over"
  BY <1>1, <1>2 DEF Records
<1>4. \A q \in Requests : stage'[q] \in Extended => stage[q] \in Extended
  BY <1>1 DEF Extended
<1> DEFINE C == {c}
<1>5. C \in SUBSET Calls /\ \A d \in Calls \ C : call'[d] = call[d]
  BY <1>1, <1>2
<1>6. \A d \in C : /\ call'[d].pc # "idle"
                   /\ d[2] = "set" /\ call'[d].pc \in {"asking", "keyed"} => call[d].pc \in {"asking", "keyed"}
                   /\ d[2] \in PinSlots \cup {"out"} /\ call'[d].pc \in Runs => call[d].pc \in Runs
  BY <1>3 DEF Runs
<1> HIDE DEF c, C
<1> QED
  BY <1>1, <1>4, <1>5, <1>6, QuietCalls

LEMMA AnswerQuiet ==
  ASSUME Inv, QuietInv, Answer
  PROVE  QuietInv'
<1>1. PICK c \in Calls :
           /\ call[c].pc # "idle"
           /\ \A d \in Calls \ {c} : call'[d] = call[d]
           /\ UNCHANGED <<platformKey, hashOf, stage, subs, token, param, secret, quiet, alone>>
           /\ \/ call[c].pc = "asking" /\ call'[c].pc = "keyed" /\ call'[c].result = "none"
              \/ call[c].pc = "sent" /\ c[2] \in PinSlots \cup {"command"} /\ call'[c].pc = "answered"
              \/ call[c].pc = "sent" /\ c[2] = "set" /\ call'[c].pc = "over"
           /\ authKey' = authKey \/ (c[2] \in PinSlots /\ call[c].pc = "sent")
           /\ authKey' \in Calls \cup {authKey} /\ pinSet' \in BOOLEAN /\ retries' \in 0..MaxRetries
           /\ queue' \in Seq(Calls) /\ call' \in [Calls -> Records]
  BY AnswerPhase
<1>2. \A q \in Requests : stage'[q] \in Extended => stage[q] \in Extended
  BY <1>1
<1>3. /\ call'[c].pc # "idle"
      /\ c[2] = "set" /\ call'[c].pc \in {"asking", "keyed"} => call[c].pc \in {"asking", "keyed"}
      /\ c[2] \in PinSlots \cup {"out"} /\ call'[c].pc \in Runs => call[c].pc \in Runs
  BY <1>1 DEF Runs
<1> DEFINE C == {c}
<1>4. C \in SUBSET Calls /\ \A d \in Calls \ C : call'[d] = call[d]
  BY <1>1
<1>5. \A d \in C : /\ call'[d].pc # "idle"
                   /\ d[2] = "set" /\ call'[d].pc \in {"asking", "keyed"} => call[d].pc \in {"asking", "keyed"}
                   /\ d[2] \in PinSlots \cup {"out"} /\ call'[d].pc \in Runs => call[d].pc \in Runs
  BY <1>3
<1> HIDE DEF C
<1> QED
  BY <1>1, <1>2, <1>4, <1>5, QuietCalls

LEMMA TypePinQuiet ==
  ASSUME Inv, QuietInv, NEW p \in {"right", "wrong"}, TypePin(p)
  PROVE  QuietInv'
<1>1. PICK C \in SUBSET Calls :
        /\ \A c \in C : /\ call[c].pc = "idle"
                        /\ c[2] \in PinSlots \cup {"set"}
                        /\ c[2] = "set" => stage'[c[1]] = "setting"
                        /\ call'[c] = [call[c] EXCEPT !.pc = "asking", !.pin = p]
        /\ \A c \in Calls \ C : call'[c] = call[c]
        /\ IsFiniteSet(C) /\ Begins(C, {})
  BY TypePinEffect
<1>2. \A r \in Requests : stage'[r] = stage[r] \/ (stage[r] = "set" /\ stage'[r] = "setting")
  BY TypePinEffect
<1>3. \A c \in C : call[c].pc = "idle" /\ call'[c].pc # "idle"
  <2> SUFFICES ASSUME NEW c \in C
               PROVE  call'[c].pc # "idle"
    BY <1>1
  <2>1. call[c] \in Records /\ call'[c] = [call[c] EXCEPT !.pc = "asking", !.pin = p]
    BY <1>1, SubsType DEF Inv
  <2> QED
    BY <2>1 DEF Records
<1>4. \A c \in C : c[2] = "out" => C = {c}
  BY <1>1, CallsOf
<1>5. \A c \in Calls \ C : call[c].pc # "idle" => call'[c].pc # "idle"
  BY <1>1
<1>6. ASSUME NEW c \in Calls \ C, UnderWay(c)'
      PROVE  UnderWay(c) /\ c \notin {}
  <2>1. call'[c] = call[c]
    BY <1>1
  <2>2. c[2] = "in" /\ stage'[c[1]] \in Extended => stage[c[1]] \in Extended
    BY <1>2, CallsOf DEF Extended
  <2> QED
    BY <1>6, <2>1, <2>2, UnderWayKept
<1>7. Begins(C, {}) /\ IsFiniteSet(C)
  BY <1>1
<1> QED
  BY <1>3, <1>4, <1>5, <1>6, <1>7, QuietBegins

LEMMA CommandReturnsQuiet ==
  ASSUME Inv, QuietInv, NEW r \in Requests, CommandReturns(r)
  PROVE  QuietInv'
<1> DEFINE c == <<r, "command">>
           out == <<r, "out">>
<1>1. /\ call[c].pc = "answered" /\ call' \in [Calls -> Records]
      /\ call'[c] = [call[c] EXCEPT !.pc = "over"]
      /\ \A d \in Calls \ {c, out} : call'[d] = call[d]
      /\ \A q \in Requests \ {r} : stage'[q] = stage[q]
  BY CommandReturnsEffect DEF Inv
<1>2. \/ /\ stage'[r] = "output"
         /\ call'[out] = [call[out] EXCEPT !.pc = "asking", !.pin = "none"]
         /\ queue' = Append(queue, out) /\ Begins({out}, {}) /\ UNCHANGED subs
      \/ /\ stage'[r] = "done" /\ subs' = {}
         /\ call'[out] = call[out] /\ UNCHANGED <<queue, quiet>>
  BY CommandReturnsEffect DEF Inv
<1>3. /\ c \in Calls /\ out \in Calls /\ c # out /\ c[2] = "command" /\ out[2] = "out"
      /\ call[c] \in Records /\ call[out] \in Records
  BY CallsOf, SubsType DEF Inv
<1>4. stage[r] = "command" /\ call[out].pc = "idle"
  BY <1>1 DEF Inv, StageInv, StageAt
<1>5. call'[c].pc = "over"
  BY <1>1, <1>3 DEF Records
<1>6. \A q \in Requests : stage'[q] \in Extended => stage[q] \in Extended
  BY <1>1, <1>4 DEF Extended
<1>7. ASSUME NEW d \in Calls \ {out}, UnderWay(d)'
      PROVE  UnderWay(d)
  <2>1. d = c \/ call'[d] = call[d]
    BY <1>1
  <2>2. d # c
    BY <1>7, <1>3, UnderWayNext
  <2>3. d[2] = "in" /\ stage'[d[1]] \in Extended => stage[d[1]] \in Extended
    BY <1>6, CallsOf
  <2> QED
    BY <1>7, <2>1, <2>2, <2>3, UnderWayKept
<1>8. \A d \in Calls \ {out} : call[d].pc # "idle" => call'[d].pc # "idle"
  BY <1>1, <1>5
<1>9. CASE call'[out] = [call[out] EXCEPT !.pc = "asking", !.pin = "none"] /\ Begins({out}, {})
  <2>1. call'[out].pc = "asking"
    BY <1>3, <1>9 DEF Records
  <2>2. {out} \in SUBSET Calls /\ IsFiniteSet({out})
    BY <1>3, FS_Singleton
  <2> DEFINE C == {out}
  <2>3. \A d \in C : call[d].pc = "idle" /\ call'[d].pc # "idle"
    BY <1>4, <2>1
  <2>4. \A d \in C : d[2] = "out" => C = {d}
    OBVIOUS
  <2>5. \A d \in Calls \ C : call[d].pc # "idle" => call'[d].pc # "idle"
    BY <1>8
  <2>6. \A d \in Calls \ C : UnderWay(d)' => UnderWay(d) /\ d \notin {}
    BY <1>7
  <2>7. Begins(C, {}) /\ C \in SUBSET Calls /\ IsFiniteSet(C)
    BY <1>9, <2>2
  <2> HIDE DEF C
  <2> QED
    BY <2>3, <2>4, <2>5, <2>6, <2>7, QuietBegins
<1>10. CASE call'[out] = call[out] /\ quiet' = quiet
  <2>1. \A d \in Calls : call[d].pc # "idle" => call'[d].pc # "idle"
    BY <1>8, <1>10
  <2>2. UnderWay(out)' => UnderWay(out)
    BY <1>3, <1>10, UnderWayOf, UnderWayNext
  <2>3. \A d \in Calls : UnderWay(d)' => UnderWay(d)
    BY <1>7, <2>2
  <2> HIDE DEF c, out
  <2> QED
    BY <1>10, <2>1, <2>3, QuietKept
<1> QED
  BY <1>2, <1>9, <1>10

LEMMA TokenReturnsQuiet ==
  ASSUME Inv, QuietInv, NEW r \in Requests, NEW s \in PinSlots, TokenReturns(r, s)
  PROVE  QuietInv'
<1> DEFINE c == <<r, s>>
           in == <<r, "in">>
           command == <<r, "command">>
           t == Decrypt(call[c].peer, c, call[c].under)
<1> TypeOK
  BY DEF Inv
<1>1. /\ call[c].pc = "answered"
      /\ call'[c].pc = "over" /\ call'[c].pin = call[c].pin /\ call'[c].result = t
      /\ \A d \in Calls \ {c, in, command} : call'[d] = call[d]
      /\ \A q \in Requests \ {r} : stage'[q] = stage[q]
  BY TokenReturnsEffect, ZenonT(30)
<1>2. \/ /\ UNCHANGED <<stage, quiet>>
         /\ call'[in] = call[in] /\ call'[command] = call[command]
      \/ /\ stage[r] = "pin" /\ stage'[r] = "exts"
         /\ call'[in] = [call[in] EXCEPT !.pc = "asking", !.pin = "none"]
         /\ call'[command] = call[command] /\ Begins({in}, {c})
      \/ /\ stage[r] = "pin" /\ stage'[r] = "command"
         /\ call'[in] = call[in]
         /\ call'[command] = [call[command] EXCEPT !.pc = "sent"]
         /\ UNCHANGED quiet
  BY TokenReturnsEffect, ZenonT(30)
<1> USE DEF Inv
<1>3. /\ c \in Calls /\ in \in Calls /\ command \in Calls /\ c # in /\ c # command /\ in # command
      /\ c[2] \in PinSlots /\ in[2] = "in" /\ command[2] = "command" /\ in[1] = r
      /\ call[in] \in Records /\ call[command] \in Records
  BY CallsOf, SubsType
<1>4. stage[r] = "pin" => call[in].pc = "idle"
  BY DEF StageInv, StageAt, Early
<1> HIDE DEF Inv, t
<1>5. /\ call[command].pc # "idle" => call'[command].pc # "idle"
      /\ call[in].pc # "idle" => call'[in].pc # "idle"
  BY <1>2, <1>3 DEF Records
<1>6. \A d \in Calls : call[d].pc # "idle" => call'[d].pc # "idle"
  BY <1>1, <1>5
<1>7. ASSUME NEW d \in Calls \ {in}, UnderWay(d)'
      PROVE  UnderWay(d) /\ d # c
  <2>1. d # command
    BY <1>3, <1>7, UnderWayNext
  <2>2. d # c
    BY <1>1, <1>3, <1>7, UnderWayNext DEF Runs
  <2>3. call'[d] = call[d]
    BY <1>1, <2>1, <2>2
  <2>4. d[2] = "in" => d[1] # r
    BY <1>3, CallsOf
  <2>5. d[2] = "in" => stage'[d[1]] = stage[d[1]]
    BY <1>1, <2>4, CallsOf
  <2> QED
    BY <1>7, <2>2, <2>3, <2>5, UnderWayKept
<1>8. CASE UNCHANGED <<stage, quiet>>
  <2>1. \A d \in Calls : UnderWay(d)' => UnderWay(d)
    BY <1>3, <1>7, <1>8, UnderWayOf, UnderWayNext
  <2> QED
    BY <1>6, <1>8, <2>1, QuietKept
<1>9. CASE /\ stage[r] = "pin" /\ Begins({in}, {c})
           /\ call'[in] = [call[in] EXCEPT !.pc = "asking", !.pin = "none"]
  <2>1. call'[in].pc = "asking"
    BY <1>3, <1>9 DEF Records
  <2> DEFINE C == {in}
             D == {c}
  <2>2. \A d \in C : call[d].pc = "idle" /\ call'[d].pc # "idle"
    BY <1>4, <1>9, <2>1
  <2>3. \A d \in C : d[2] = "out" => C = {d}
    OBVIOUS
  <2>4. \A d \in Calls \ C : call[d].pc # "idle" => call'[d].pc # "idle"
    BY <1>6
  <2>5. \A d \in Calls \ C : UnderWay(d)' => UnderWay(d) /\ d \notin D
    BY <1>7
  <2>6. Begins(C, D) /\ C \in SUBSET Calls /\ IsFiniteSet(C)
    BY <1>3, <1>9, FS_Singleton
  <2> HIDE DEF C, D
  <2> QED
    BY <2>2, <2>3, <2>4, <2>5, <2>6, QuietBegins
\* Its own operation was under way, so no other quiet one was.
<1>10. CASE stage[r] = "pin" /\ UNCHANGED quiet
  <2> SUFFICES ASSUME NEW d \in quiet, d[2] \in PinSlots \cup {"in"}
               PROVE  QuietAt(d)'
    BY <1>10 DEF QuietInv
  <2>1. d \in Calls /\ QuietAt(d)
    BY SubsType DEF Inv, QuietInv
  <2>2. call'[d].pc # "idle"
    BY <1>6, <2>1 DEF QuietAt
  <2>3. d # in
    BY <1>4, <1>10, <2>1 DEF QuietAt
  <2>4. UnderWay(c)
    BY <1>1, <1>3, UnderWayOf DEF Runs
  <2>5. ~ UnderWay(d)'
    <3>1. SUFFICES ASSUME UnderWay(d)'
                   PROVE  FALSE
      OBVIOUS
    <3>2. UnderWay(d) /\ d # c
      BY <1>7, <2>1, <2>3, <3>1
    <3>3. Compatible(d, c)
      BY <1>3, <2>1, <2>4, <3>2 DEF QuietAt
    <3>4. c[2] = "out"
      BY <3>3 DEF Compatible
    <3> QED
      BY <1>3, <3>4, CallsOf
  <2> QED
    BY <2>2, <2>5 DEF QuietAt
<1> QED
  BY <1>2, <1>8, <1>9, <1>10

LEMMA QuietNext ==
  ASSUME Inv, QuietInv, Next
  PROVE  QuietInv'
<1>1. ASSUME NEW r \in Requests,
             \/ Begin(r) \/ SendSetPin(r) \/ SendSecretCommand(r) \/ CommandReturns(r)
             \/ OutputBuilt(r)
      PROVE  QuietInv'
  BY <1>1, BeginQuiet, SendSetPinQuiet, SendSecretCommandQuiet, CommandReturnsQuiet, OutputBuiltQuiet
<1>2. ASSUME NEW r \in Requests, NEW s \in PinSlots,
             SendGetPinToken(r, s) \/ TokenReturns(r, s) \/ TokenRefused(r, s)
      PROVE  QuietInv'
  BY <1>2, SendGetPinTokenQuiet, TokenReturnsQuiet, TokenRefusedQuiet
<1>3. ASSUME NEW p \in {"right", "wrong"}, TypePin(p)
      PROVE  QuietInv'
  BY <1>3, TypePinQuiet
<1> QED
  BY <1>1, <1>2, <1>3, AnswerQuiet DEF Next

LEMMA BeginsNew ==
  ASSUME NEW C, NEW D, Begins(C, D)
  PROVE  quiet' \subseteq quiet \cup C
BY DEF Begins

-----------------------------------------------------------------------------
(* The keys of getPinToken *)

(* A right PIN is encrypted under a secret of the two keys of now, and its token
   decrypted under the same. *)
TokenAt(c) ==
    /\ call[c].result \notin {"invalid", "garbage"}
    /\ call[c].pc \in {"keyed", "sent"} => call[c].peer = authKey
    /\ call[c].pc = "sent" => platformKey = c
    /\ call[c].pc = "answered" /\ call[c].result = "granted" =>
          call[c].peer = call[c].under /\ platformKey = c

TokenInv ==
    \A c \in quiet : c[2] \in PinSlots /\ call[c].pin = "right" => TokenAt(c)

(* No step of another operation changes a key while a quiet one needs it. *)
LEMMA TokenOthers ==
  ASSUME Inv, QuietInv, TokenInv, NEW c \in quiet, c[2] \in PinSlots, call[c].pin = "right",
         call'[c] = call[c],
         \/ UNCHANGED <<platformKey, authKey>>
         \/ \E d \in Calls \ {c} : UnderWay(d)
  PROVE  TokenAt(c)'
<1>1. TokenAt(c) /\ QuietAt(c) /\ c \in Calls
  BY SubsType DEF Inv, TokenInv, QuietInv
<1>2. CASE UNCHANGED <<platformKey, authKey>>
  BY <1>1, <1>2 DEF TokenAt
<1>3. CASE \E d \in Calls \ {c} : UnderWay(d)
  <2>1. c[2] # "in"
    BY CallsOf
  <2>2. ~ UnderWay(c)
    BY <1>1, <1>3, <2>1 DEF QuietAt, Compatible
  <2>3. call[c].pc \notin Runs
    BY <1>1, <2>2, UnderWayOf
  <2> QED
    BY <1>1, <2>3 DEF TokenAt, Runs
<1> QED
  BY <1>2, <1>3

(* A step that changes no call of the kind, and no key. *)
LEMMA TokenKept ==
  ASSUME Inv, QuietInv, TokenInv,
         \A c \in quiet' : c[2] \in PinSlots /\ call'[c].pin = "right" => c \in quiet /\ call'[c] = call[c],
         UNCHANGED <<platformKey, authKey>> \/ \E d \in Calls : UnderWay(d) /\ d[2] \notin PinSlots
  PROVE  TokenInv'
<1> SUFFICES ASSUME NEW c \in quiet', c[2] \in PinSlots, call'[c].pin = "right"
             PROVE  TokenAt(c)'
  BY DEF TokenInv
<1>1. c \in quiet /\ call'[c] = call[c]
  OBVIOUS
<1>2. call[c].pin = "right"
  BY <1>1
<1>3. \/ UNCHANGED <<platformKey, authKey>>
      \/ \E d \in Calls \ {c} : UnderWay(d)
  OBVIOUS
<1> QED
  BY <1>1, <1>2, <1>3, TokenOthers

(* A step of one getPinToken. *)
LEMMA TokenSlot ==
  ASSUME Inv, QuietInv, TokenInv, NEW c \in Calls, c[2] \in PinSlots,
         quiet' \subseteq quiet \cup {d \in Calls : d[2] \notin PinSlots},
         \A d \in Calls \ {c} : d[2] \in PinSlots => call'[d] = call[d],
         UNCHANGED <<platformKey, authKey>> \/ UnderWay(c),
         c \in quiet /\ call'[c].pin = "right" => TokenAt(c)'
  PROVE  TokenInv'
<1> SUFFICES ASSUME NEW d \in quiet', d[2] \in PinSlots, call'[d].pin = "right"
             PROVE  TokenAt(d)'
  BY DEF TokenInv
<1>1. d \in quiet /\ d \in Calls
  BY SubsType DEF Inv
<1>2. CASE d # c
  <2>1. call'[d] = call[d] /\ call[d].pin = "right"
    BY <1>1, <1>2
  <2>2. \/ UNCHANGED <<platformKey, authKey>>
        \/ \E e \in Calls \ {d} : UnderWay(e)
    BY <1>2
  <2> QED
    BY <1>1, <2>1, <2>2, TokenOthers
<1> QED
  BY <1>1, <1>2

LEMMA TokenNext ==
  ASSUME Inv, QuietInv, TokenInv, Next
  PROVE  TokenInv'
<1> TypeOK
  BY DEF Inv
<1>1. ASSUME NEW r \in Requests, Begin(r)
      PROVE  TokenInv'
  <2>1. UNCHANGED <<platformKey, authKey, call, quiet>>
    BY <1>1, BeginEffect
  <2> QED
    BY <2>1, TokenKept
<1>2. ASSUME NEW r \in Requests, SendSetPin(r)
      PROVE  TokenInv'
  <2> DEFINE d == <<r, "set">>
  <2>1. /\ call[d].pc = "keyed" /\ quiet' = quiet
        /\ \A c \in Calls \ {d} : call'[c] = call[c]
    BY <1>2, SendSetPinEffect
  <2>2. d \in Calls /\ d[2] = "set" /\ d[2] \notin PinSlots
    BY CallsOf
  <2>3. UnderWay(d)
    BY <2>1, <2>2, UnderWayOf
  <2>4. \A c \in quiet' : c[2] \in PinSlots => c \in quiet /\ call'[c] = call[c]
    BY <2>1, <2>2, SubsType
  <2> HIDE DEF d
  <2> QED
    BY <2>2, <2>3, <2>4, TokenKept
<1>3. ASSUME NEW r \in Requests, SendSecretCommand(r)
      PROVE  TokenInv'
  <2> DEFINE d == <<r, "in">>
             command == <<r, "command">>
  <2>1. /\ call[d].pc = "keyed" /\ quiet' = quiet
        /\ \A c \in Calls \ {d, command} : call'[c] = call[c]
    BY <1>3, SendSecretCommandEffect
  <2>2. d \in Calls /\ d[1] = r /\ d[2] = "in" /\ d[2] \notin PinSlots /\ command[2] \notin PinSlots
    BY CallsOf
  <2>3. UnderWay(d)
    <3>1. stage[r] = "exts"
      BY <2>1 DEF Inv, StageInv, StageAt
    <3> QED
      BY <2>2, <3>1, UnderWayOf DEF Extended
  <2>4. \A c \in quiet' : c[2] \in PinSlots => c \in quiet /\ call'[c] = call[c]
    BY <2>1, <2>2, SubsType
  <2> HIDE DEF d
  <2> QED
    BY <2>2, <2>3, <2>4, TokenKept
<1>4. ASSUME NEW r \in Requests, CommandReturns(r)
      PROVE  TokenInv'
  <2> DEFINE command == <<r, "command">>
             out == <<r, "out">>
  <2>1. /\ \A c \in Calls \ {command, out} : call'[c] = call[c]
        /\ UNCHANGED <<platformKey, authKey>>
    BY <1>4, CommandReturnsEffect
  <2>2. Begins({out}, {}) \/ quiet' = quiet
    BY <1>4, CommandReturnsEffect
  <2>3. quiet' \subseteq quiet \cup {out}
    BY <2>2, BeginsNew
  <2>4. out[2] \notin PinSlots /\ command[2] \notin PinSlots
    BY CallsOf
  <2>5. \A c \in quiet' : c[2] \in PinSlots => c \in quiet /\ call'[c] = call[c]
    BY <2>1, <2>3, <2>4, SubsType
  <2> QED
    BY <2>1, <2>5, TokenKept
<1>5. ASSUME NEW r \in Requests, OutputBuilt(r)
      PROVE  TokenInv'
  <2> DEFINE out == <<r, "out">>
  <2>1. /\ \A c \in Calls \ {out} : call'[c] = call[c]
        /\ UNCHANGED <<platformKey, authKey, quiet>>
    BY <1>5, OutputBuiltEffect
  <2>2. out[2] \notin PinSlots
    BY CallsOf
  <2>3. \A c \in quiet' : c[2] \in PinSlots => c \in quiet /\ call'[c] = call[c]
    BY <2>1, <2>2, SubsType
  <2> QED
    BY <2>1, <2>3, TokenKept
<1>6. ASSUME NEW r \in Requests, NEW s \in PinSlots, SendGetPinToken(r, s)
      PROVE  TokenInv'
  <2> DEFINE c == <<r, s>>
  <2>1. /\ call[c].pc = "keyed" /\ call'[c] = [call[c] EXCEPT !.pc = "sent"]
        /\ \A d \in Calls \ {c} : call'[d] = call[d]
        /\ platformKey' = c /\ UNCHANGED <<authKey, quiet>>
    BY <1>6, SendGetPinTokenEffect
  <2>2. c \in Calls /\ c[2] \in PinSlots /\ call[c] \in Records
    BY CallsOf, SubsType
  <2>3. UnderWay(c)
    BY <2>1, <2>2, UnderWayOf DEF Runs
  <2>4. call'[c].pc = "sent" /\ call'[c].pin = call[c].pin /\ call'[c].peer = call[c].peer
        /\ call'[c].result = call[c].result
    BY <2>1, <2>2 DEF Records
  <2>5. ASSUME c \in quiet, call'[c].pin = "right"
        PROVE  TokenAt(c)'
    BY <2>1, <2>2, <2>4, <2>5 DEF TokenInv, TokenAt
  <2> HIDE DEF c
  <2> QED
    BY <2>1, <2>2, <2>3, <2>5, TokenSlot
<1>7. ASSUME NEW r \in Requests, NEW s \in PinSlots, TokenReturns(r, s)
      PROVE  TokenInv'
  <2> DEFINE c == <<r, s>>
             in == <<r, "in">>
             command == <<r, "command">>
             t == Decrypt(call[c].peer, c, call[c].under)
  <2>1. /\ call[c].pc = "answered" /\ call[c].result = "granted"
        /\ call'[c].pc = "over" /\ call'[c].pin = call[c].pin /\ call'[c].result = t
        /\ \A d \in Calls \ {c, in, command} : call'[d] = call[d]
        /\ UNCHANGED <<platformKey, authKey>>
        /\ t \in {"genuine", "garbage"}
    BY <1>7, TokenReturnsEffect, ZenonT(30)
  <2>2. Begins({in}, {c}) \/ quiet' = quiet
    BY <1>7, TokenReturnsEffect, ZenonT(30)
  <2>3. /\ c \in Calls /\ c[2] \in PinSlots /\ in \in Calls /\ in[2] \notin PinSlots
        /\ command[2] \notin PinSlots
    BY CallsOf
  <2>4. quiet' \subseteq quiet \cup {d \in Calls : d[2] \notin PinSlots}
    BY <2>2, <2>3, BeginsNew
  <2>5. ASSUME c \in quiet, call'[c].pin = "right"
        PROVE  TokenAt(c)'
    <3>1. call[c].peer = call[c].under /\ platformKey = c
      BY <2>1, <2>3, <2>5 DEF TokenInv, TokenAt
    <3>2. t = "genuine"
      BY <3>1 DEF Decrypt
    <3> QED
      BY <2>1, <3>2 DEF TokenAt
  <2>6. \A d \in Calls \ {c} : d[2] \in PinSlots => call'[d] = call[d]
    BY <2>1, <2>3
  <2> HIDE DEF c
  <2> QED
    BY <2>1, <2>3, <2>4, <2>5, <2>6, TokenSlot
<1>8. ASSUME NEW r \in Requests, NEW s \in PinSlots, TokenRefused(r, s)
      PROVE  TokenInv'
  <2> DEFINE c == <<r, s>>
  <2>1. /\ call'[c].pc = "over" /\ call'[c].pin = call[c].pin /\ call'[c].result = call[c].result
        /\ \A d \in Calls \ {c} : call'[d] = call[d]
        /\ UNCHANGED <<platformKey, authKey, quiet>>
    BY <1>8, TokenRefusedEffect
  <2>2. c \in Calls /\ c[2] \in PinSlots
    BY CallsOf
  <2>3. ASSUME c \in quiet, call'[c].pin = "right"
        PROVE  TokenAt(c)'
    BY <2>1, <2>2, <2>3 DEF TokenInv, TokenAt
  <2> HIDE DEF c
  <2> QED
    BY <2>1, <2>2, <2>3, TokenSlot
<1>9. ASSUME NEW p \in {"right", "wrong"}, TypePin(p)
      PROVE  TokenInv'
  <2>1. UNCHANGED <<platformKey, authKey>>
    BY <1>9, TypePinEffect
  <2>2. PICK C \in SUBSET Calls :
          /\ \A c \in C : /\ call[c].pc = "idle"
                          /\ c[2] \in PinSlots \cup {"set"}
                          /\ c[2] = "set" => stage'[c[1]] = "setting"
                          /\ call'[c] = [call[c] EXCEPT !.pc = "asking", !.pin = p]
          /\ \A c \in Calls \ C : call'[c] = call[c]
          /\ IsFiniteSet(C) /\ Begins(C, {})
    BY <1>9, TypePinEffect
  <2>3. quiet' \subseteq quiet \cup C
    BY <2>2, BeginsNew
  <2> SUFFICES ASSUME NEW c \in quiet', c[2] \in PinSlots, call'[c].pin = "right"
               PROVE  TokenAt(c)'
    BY DEF TokenInv
  <2>4. c \in Calls
    BY <2>3, SubsType
  <2>5. CASE c \in C
    <3>1. call[c] = NoCall /\ call[c] \in Records
      BY <2>2, <2>4, <2>5, SubsType DEF Inv, CallInv, CallAt
    <3>2. call'[c].pc = "asking" /\ call'[c].result = "none"
      <4>1. call'[c] = [call[c] EXCEPT !.pc = "asking", !.pin = p]
        BY <2>2, <2>5
      <4> QED
        BY <3>1, <4>1 DEF NoCall
    <3> QED
      BY <3>2 DEF TokenAt
  <2>6. CASE c \notin C
    <3>1. c \in quiet /\ call'[c] = call[c]
      BY <2>2, <2>3, <2>4, <2>6
    <3>2. call[c].pin = "right"
      BY <3>1
    <3> QED
      BY <2>1, <3>1, <3>2, TokenOthers
  <2> QED
    BY <2>5, <2>6
<1>10. CASE Answer
  <2>1. PICK c \in Calls :
           /\ queue' \in Seq(Calls) /\ call' \in [Calls -> Records]
           /\ \A d \in Calls \ {c} : call'[d] = call[d]
           /\ UNCHANGED <<platformKey, hashOf, stage, subs, token, param, secret, quiet, alone>>
           /\ \/ /\ call[c].pc = "asking" /\ UNCHANGED <<authKey, pinSet, retries>>
                 /\ call'[c] = [call[c] EXCEPT !.pc = "keyed", !.peer = authKey]
              \/ /\ c[2] = "set" /\ call[c].pc = "sent" /\ UNCHANGED <<authKey, retries>>
                 /\ pinSet' \in BOOLEAN
                 /\ call'[c].pc = "over" /\ call'[c].result = "none" /\ call'[c].pin = call[c].pin
              \/ /\ c[2] \in PinSlots /\ call[c].pc = "sent" /\ pinSet' = pinSet
                 /\ retries' \in 0..MaxRetries
                 /\ \E x \in {"refused", "granted", "invalid"} :
                      /\ call'[c] = [call[c] EXCEPT !.pc = "answered", !.result = x, !.under = authKey]
                      /\ x = "granted" => call[c].peer = authKey
                      /\ x = "invalid" => ~(call[c].pin = "right" /\ call[c].peer = authKey)
                      /\ authKey' = IF x = "invalid" THEN c ELSE authKey
              \/ /\ c[2] = "command" /\ call[c].pc = "sent" /\ UNCHANGED <<authKey, pinSet, retries>>
                 /\ \E x \in {"accepted", "rejected"} :
                      /\ call'[c] = [call[c] EXCEPT !.pc = "answered", !.result = x, !.under = authKey]
                      /\ x = "rejected" =>
                           ~(/\ param[c[1]] = [token |-> "genuine", hash |-> c[1]]
                             /\ c[1] \in secret => call[<<c[1], "in">>].peer = authKey)
    BY <1>10, AnswerEffect
  <2>2. CASE c[2] \notin PinSlots
    <3>1. UNCHANGED <<platformKey, authKey>>
      BY <2>1, <2>2
    <3>2. \A d \in quiet' : d[2] \in PinSlots => d \in quiet /\ call'[d] = call[d]
      BY <2>1, <2>2, SubsType
    <3> QED
      BY <3>1, <3>2, TokenKept
  <2>3. CASE c[2] \in PinSlots
    <3>1. call[c] \in Records /\ c[2] # "set" /\ c[2] # "command"
      BY <2>3, SubsType, CallsOf
    <3>2. UNCHANGED <<platformKey, authKey>> \/ UnderWay(c)
      BY <2>1, <2>3, <3>1, UnderWayOf DEF Runs
    <3>3. ASSUME c \in quiet, call'[c].pin = "right"
          PROVE  TokenAt(c)'
      <4>1. CASE /\ call[c].pc = "asking" /\ authKey' = authKey
                 /\ call'[c] = [call[c] EXCEPT !.pc = "keyed", !.peer = authKey]
        <5>1. /\ call'[c].pc = "keyed" /\ call'[c].peer = authKey
              /\ call'[c].result = call[c].result
          BY <3>1, <4>1 DEF Records
        <5>2. call[c].result = "none"
          BY <4>1 DEF Inv, CallInv, CallAt
        <5> QED
          BY <4>1, <5>1, <5>2 DEF TokenAt
      <4>2. ASSUME NEW x \in {"refused", "granted", "invalid"}, call[c].pc = "sent",
                   call'[c] = [call[c] EXCEPT !.pc = "answered", !.result = x, !.under = authKey],
                   x = "granted" => call[c].peer = authKey,
                   x = "invalid" => ~(call[c].pin = "right" /\ call[c].peer = authKey)
            PROVE  TokenAt(c)'
        <5>1. /\ call'[c].pc = "answered" /\ call'[c].result = x /\ call'[c].under = authKey
              /\ call'[c].peer = call[c].peer /\ call'[c].pin = call[c].pin
          BY <3>1, <4>2 DEF Records
        <5>2. call[c].pin = "right"
          BY <3>3, <5>1
        <5>3. TokenAt(c)
          BY <2>3, <3>3, <5>2 DEF TokenInv
        <5>4. call[c].peer = authKey /\ platformKey = c
          BY <4>2, <5>3 DEF TokenAt
        <5>5. x # "invalid"
          BY <4>2, <5>2, <5>4
        <5> QED
          BY <2>1, <5>1, <5>4, <5>5 DEF TokenAt
      <4> QED
        BY <2>1, <3>1, <4>1, <4>2
    <3>4. quiet' \subseteq quiet \cup {d \in Calls : d[2] \notin PinSlots}
      BY <2>1
    <3> QED
      BY <2>1, <2>3, <3>2, <3>3, <3>4, TokenSlot
  <2> QED
    BY <2>2, <2>3
<1> QED
  BY <1>1, <1>2, <1>3, <1>4, <1>5, <1>6, <1>7, <1>8, <1>9, <1>10 DEF Next

-----------------------------------------------------------------------------
(* The keys of hmac-secret *)

(* The secret that its input sets up is the one its output is decrypted with. *)
SecretAt(r) ==
    /\ stage[r] \in {"exts", "command"} /\ call[<<r, "in">>].pc # "asking" =>
          call[<<r, "in">>].peer = authKey
    /\ stage[r] \in {"command", "output"} => platformKey = <<r, "in">>
    /\ stage[r] \in {"command", "output"} /\ call[<<r, "command">>].pc \in {"answered", "over"} =>
          call[<<r, "command">>].under = authKey
    /\ call[<<r, "out">>].pc = "keyed" => call[<<r, "out">>].peer = authKey
    /\ call[<<r, "out">>].result # "garbage"

SecretInv == \A r \in Requests : <<r, "in">> \in quiet => SecretAt(r)

(* A step of other operations. *)
LEMMA SecretOthers ==
  ASSUME Inv, QuietInv, SecretInv, NEW r \in Requests, <<r, "in">> \in quiet,
         stage'[r] = stage[r],
         \A k \in {"in", "command", "out"} : call'[<<r, k>>] = call[<<r, k>>],
         \/ UNCHANGED <<platformKey, authKey>>
         \/ \E d \in Calls \ {<<r, "in">>, <<r, "out">>} : UnderWay(d)
  PROVE  SecretAt(r)'
<1> DEFINE in == <<r, "in">>
           command == <<r, "command">>
           out == <<r, "out">>
<1>1. SecretAt(r) /\ StageAt(r) /\ QuietAt(in)
  BY CallsOf DEF Inv, StageInv, SecretInv, QuietInv
<1>2. call'[in] = call[in] /\ call'[command] = call[command] /\ call'[out] = call[out]
  OBVIOUS
<1>3. CASE UNCHANGED <<platformKey, authKey>>
  BY <1>1, <1>2, <1>3 DEF SecretAt
<1>4. CASE \E d \in Calls \ {<<r, "in">>, <<r, "out">>} : UnderWay(d)
  <2>1. in \in Calls /\ in[1] = r /\ in[2] = "in"
    BY CallsOf
  <2>2. ~ UnderWay(in)
    BY <1>1, <1>4, <2>1 DEF QuietAt, Compatible
  <2>3. stage[r] \notin Extended
    BY <2>1, <2>2, UnderWayOf
  <2>4. call[out].pc # "keyed"
    BY <1>1, <2>3 DEF StageAt, Extended
  <2> QED
    BY <1>1, <1>2, <2>3, <2>4 DEF SecretAt, Extended
<1> QED
  BY <1>3, <1>4

(* A step of request r, in a state that leaves the others alone. *)
LEMMA SecretStep ==
  ASSUME Inv, QuietInv, SecretInv, NEW r \in Requests,
         \A q \in Requests \ {r} : /\ stage'[q] = stage[q]
                                   /\ <<q, "in">> \in quiet' => <<q, "in">> \in quiet
                                   /\ \A k \in {"in", "command", "out"} : call'[<<q, k>>] = call[<<q, k>>],
         \/ UNCHANGED <<platformKey, authKey>>
         \/ \E d \in Calls : UnderWay(d) /\ d[1] = r,
         <<r, "in">> \in quiet' => SecretAt(r)'
  PROVE  SecretInv'
<1> SUFFICES ASSUME NEW q \in Requests \ {r}, <<q, "in">> \in quiet'
             PROVE  SecretAt(q)'
  BY DEF SecretInv
<1>1. <<q, "in">>[1] # r /\ <<q, "out">>[1] # r
  OBVIOUS
<1>2. \/ UNCHANGED <<platformKey, authKey>>
      \/ \E d \in Calls \ {<<q, "in">>, <<q, "out">>} : UnderWay(d)
  BY <1>1
<1> QED
  BY <1>2, SecretOthers

(* The step of a getPinToken that changes no stage. *)
LEMMA SecretSlot ==
  ASSUME Inv, QuietInv, SecretInv, NEW c \in Calls, c[2] \in PinSlots \cup {"set"},
         \A d \in Calls \ {c} : call'[d] = call[d], UNCHANGED <<stage, quiet>>,
         UNCHANGED <<platformKey, authKey>> \/ UnderWay(c)
  PROVE  SecretInv'
<1> SUFFICES ASSUME NEW q \in Requests, <<q, "in">> \in quiet
             PROVE  SecretAt(q)'
  BY DEF SecretInv
<1>1. \A k \in {"in", "command", "out"} : <<q, k>> \in Calls /\ <<q, k>>[2] # c[2]
  BY CallsOf
<1>2. \A k \in {"in", "command", "out"} : call'[<<q, k>>] = call[<<q, k>>]
  BY <1>1
<1>3. \/ UNCHANGED <<platformKey, authKey>>
      \/ \E d \in Calls \ {<<q, "in">>, <<q, "out">>} : UnderWay(d)
  BY <1>1
<1> QED
  BY <1>2, <1>3, SecretOthers

LEMMA SecretNext ==
  ASSUME Inv, QuietInv, SecretInv, Next
  PROVE  SecretInv'
<1> TypeOK
  BY DEF Inv
<1>1. ASSUME NEW r \in Requests, Begin(r)
      PROVE  SecretInv'
  <2>1. /\ stage[r] = "idle" /\ \A q \in Requests \ {r} : stage'[q] = stage[q]
        /\ UNCHANGED <<platformKey, authKey, call, quiet>>
    BY <1>1, BeginEffect
  <2>2. <<r, "in">> \notin quiet'
    BY <2>1, QuietStarted DEF Early
  <2> QED
    BY <2>1, <2>2, SecretStep
<1>2. ASSUME NEW r \in Requests, SendSetPin(r)
      PROVE  SecretInv'
  <2> DEFINE d == <<r, "set">>
  <2>1. /\ call[d].pc = "keyed" /\ quiet' = quiet
        /\ \A c \in Calls \ {d} : call'[c] = call[c]
        /\ \A q \in Requests \ {r} : stage'[q] = stage[q]
    BY <1>2, SendSetPinEffect
  <2>2. d \in Calls /\ d[2] = "set" /\ d[1] = r
    BY CallsOf
  <2>3. UnderWay(d)
    BY <2>1, <2>2, UnderWayOf
  <2>4. stage[r] = "setting"
    BY <2>1 DEF Inv, StageInv, StageAt
  <2>5. <<r, "in">> \notin quiet'
    BY <2>1, <2>4, QuietStarted DEF Early
  <2>6. \A q \in Requests, k \in {"in", "command", "out"} : call'[<<q, k>>] = call[<<q, k>>]
    BY <2>1, CallsOf
  <2> HIDE DEF d
  <2> QED
    BY <2>1, <2>2, <2>3, <2>5, <2>6, SecretStep
<1>3. ASSUME NEW r \in Requests, SendSecretCommand(r)
      PROVE  SecretInv'
  <2> DEFINE in == <<r, "in">>
             command == <<r, "command">>
             out == <<r, "out">>
  <2>1. /\ call[in].pc = "keyed" /\ call'[in] = [call[in] EXCEPT !.pc = "over"]
        /\ call'[command] = [call[command] EXCEPT !.pc = "sent"]
        /\ \A c \in Calls \ {in, command} : call'[c] = call[c]
        /\ stage'[r] = "command" /\ \A q \in Requests \ {r} : stage'[q] = stage[q]
        /\ platformKey' = in /\ UNCHANGED <<authKey, quiet>>
    BY <1>3, SendSecretCommandEffect
  <2>2. /\ in \in Calls /\ in[1] = r /\ in[2] = "in" /\ call[in] \in Records
        /\ command \in Calls /\ call[command] \in Records
    BY CallsOf, SubsType
  <2>3. StageAt(r) /\ stage[r] = "exts"
    BY <2>1 DEF Inv, StageInv, StageAt
  <2>4. UnderWay(in)
    BY <2>2, <2>3, UnderWayOf DEF Extended
  <2>5. \A q \in Requests \ {r}, k \in {"in", "command", "out"} : call'[<<q, k>>] = call[<<q, k>>]
    BY <2>1, CallsOf
  <2>6. ASSUME in \in quiet
        PROVE  SecretAt(r)'
    <3>1. SecretAt(r)
      BY <2>6 DEF SecretInv
    <3>2. /\ call'[in].pc = "over" /\ call'[in].peer = call[in].peer
          /\ call'[command].pc = "sent"
      BY <2>1, <2>2 DEF Records
    <3>3. call'[out] = call[out]
      BY <2>1, CallsOf
    <3>4. call[out].pc = "idle" /\ call[in].peer = authKey
      BY <2>1, <2>3, <3>1 DEF StageAt, SecretAt
    <3> QED
      BY <2>1, <3>1, <3>2, <3>3, <3>4 DEF SecretAt
  <2> HIDE DEF command
  <2> QED
    BY <2>1, <2>2, <2>4, <2>5, <2>6, SecretStep
<1>4. ASSUME NEW r \in Requests, CommandReturns(r)
      PROVE  SecretInv'
  <2> DEFINE in == <<r, "in">>
             command == <<r, "command">>
             out == <<r, "out">>
  <2>1. /\ call[command].pc = "answered" /\ call'[command] = [call[command] EXCEPT !.pc = "over"]
        /\ \A c \in Calls \ {command, out} : call'[c] = call[c]
        /\ \A q \in Requests \ {r} : stage'[q] = stage[q]
        /\ UNCHANGED <<platformKey, authKey>>
    BY <1>4, CommandReturnsEffect
  <2>2. \/ /\ stage'[r] = "output"
           /\ call'[out] = [call[out] EXCEPT !.pc = "asking", !.pin = "none"]
           /\ queue' = Append(queue, out) /\ Begins({out}, {}) /\ UNCHANGED subs
        \/ /\ stage'[r] = "done" /\ subs' = {}
           /\ call'[out] = call[out] /\ UNCHANGED <<queue, quiet>>
    BY <1>4, CommandReturnsEffect
  <2>3. quiet' \subseteq quiet \cup {out}
    BY <2>2, BeginsNew
  <2>4. /\ in \in Calls /\ command \in Calls /\ out \in Calls
        /\ call[command] \in Records /\ call[out] \in Records
    BY CallsOf, SubsType
  <2>5. \A q \in Requests \ {r}, k \in {"in", "command", "out"} : call'[<<q, k>>] = call[<<q, k>>]
    BY <2>1, CallsOf
  <2>6. StageAt(r) /\ stage[r] = "command" /\ CallAt(out)
    BY <2>1, <2>4 DEF Inv, StageInv, StageAt, CallInv
  <2>7. \A q \in Requests : <<q, "in">> \in quiet' => <<q, "in">> \in quiet
    BY <2>3
  <2>8. ASSUME in \in quiet
        PROVE  SecretAt(r)'
    <3>1. SecretAt(r)
      BY <2>8 DEF SecretInv
    <3>2. call'[command].pc = "over" /\ call'[command].under = call[command].under
      BY <2>1, <2>4 DEF Records
    <3>3. call[out].pc = "idle" /\ call[out] = NoCall
      BY <2>6 DEF StageAt, CallAt
    <3>4. call'[in] = call[in]
      BY <2>1, <2>4
    <3>5. call'[out].pc # "keyed" /\ call'[out].result # "garbage"
      <4>1. /\ NoCall.pc = "idle" /\ NoCall.result = "none"
            /\ [NoCall EXCEPT !.pc = "asking", !.pin = "none"].pc = "asking"
            /\ [NoCall EXCEPT !.pc = "asking", !.pin = "none"].result = "none"
        BY DEF NoCall
      <4>2. call'[out] = call[out] \/ call'[out] = [call[out] EXCEPT !.pc = "asking", !.pin = "none"]
        BY <2>2
      <4> HIDE DEF out
      <4> QED
        BY <3>3, <4>1, <4>2
    <3>6. platformKey = in /\ call[command].under = authKey
      BY <2>1, <2>6, <3>1 DEF SecretAt
    <3>7. stage'[r] \in {"output", "done"}
      BY <2>2
    <3> QED
      BY <2>1, <3>2, <3>5, <3>6, <3>7 DEF SecretAt
  <2> HIDE DEF command, out
  <2> QED
    BY <2>1, <2>5, <2>7, <2>8, SecretStep
<1>5. ASSUME NEW r \in Requests, OutputBuilt(r)
      PROVE  SecretInv'
  <2> DEFINE in == <<r, "in">>
             command == <<r, "command">>
             out == <<r, "out">>
             t == Decrypt(call[out].peer, in, call[command].under)
  <2>1. /\ call[out].pc = "keyed" /\ call'[out] = [call[out] EXCEPT !.pc = "over", !.result = t]
        /\ \A c \in Calls \ {out} : call'[c] = call[c]
        /\ stage'[r] = "done" /\ \A q \in Requests \ {r} : stage'[q] = stage[q]
        /\ UNCHANGED <<platformKey, authKey, quiet>>
    BY <1>5, OutputBuiltEffect
  <2>2. \A q \in Requests \ {r}, k \in {"in", "command", "out"} : call'[<<q, k>>] = call[<<q, k>>]
    BY <2>1, CallsOf
  <2>3. ASSUME in \in quiet
        PROVE  SecretAt(r)'
    <3>1. SecretAt(r)
      BY <2>3 DEF SecretInv
    <3>2. stage[r] = "output" /\ call[command].pc = "over"
      BY <2>1 DEF Inv, StageInv, StageAt
    <3>3. call[out].peer = authKey /\ platformKey = in /\ call[command].under = authKey
      BY <2>1, <3>1, <3>2 DEF SecretAt
    <3>4. t = "genuine"
      BY <3>3 DEF Decrypt
    <3>5. call[out] \in Records
      BY CallsOf, SubsType
    <3>6. call'[out].pc = "over" /\ call'[out].result = "genuine"
      <4> HIDE DEF t
      <4> QED
        BY <2>1, <3>4, <3>5 DEF Records
    <3> QED
      BY <2>1, <3>6 DEF SecretAt
  <2> HIDE DEF command, out, t
  <2> QED
    BY <2>1, <2>2, <2>3, SecretStep
<1>6. ASSUME NEW r \in Requests, NEW s \in PinSlots, SendGetPinToken(r, s)
      PROVE  SecretInv'
  <2> DEFINE c == <<r, s>>
  <2>1. /\ call[c].pc = "keyed" /\ \A d \in Calls \ {c} : call'[d] = call[d]
        /\ UNCHANGED <<stage, quiet>>
    BY <1>6, SendGetPinTokenEffect
  <2>2. c \in Calls /\ c[2] \in PinSlots
    BY CallsOf
  <2>3. UnderWay(c)
    BY <2>1, <2>2, UnderWayOf DEF Runs
  <2> HIDE DEF c
  <2> QED
    BY <2>1, <2>2, <2>3, SecretSlot
<1>7. ASSUME NEW r \in Requests, NEW s \in PinSlots, TokenReturns(r, s)
      PROVE  SecretInv'
  <2> DEFINE c == <<r, s>>
             in == <<r, "in">>
             command == <<r, "command">>
             out == <<r, "out">>
  <2>1. /\ \A d \in Calls \ {c, in, command} : call'[d] = call[d]
        /\ \A q \in Requests \ {r} : stage'[q] = stage[q]
        /\ UNCHANGED <<platformKey, authKey>>
    BY <1>7, TokenReturnsEffect, ZenonT(30)
  <2>2. \/ /\ UNCHANGED <<stage, quiet>>
           /\ call'[in] = call[in] /\ call'[command] = call[command]
        \/ /\ stage[r] = "pin" /\ stage'[r] = "exts"
           /\ call'[in] = [call[in] EXCEPT !.pc = "asking", !.pin = "none"]
           /\ call'[command] = call[command] /\ Begins({in}, {c})
        \/ /\ stage[r] = "pin" /\ stage'[r] = "command"
           /\ call'[in] = call[in]
           /\ call'[command] = [call[command] EXCEPT !.pc = "sent"]
           /\ UNCHANGED quiet
    BY <1>7, TokenReturnsEffect, ZenonT(30)
  <2>3. /\ in \in Calls /\ command \in Calls /\ out \in Calls /\ call[in] \in Records
        /\ c[2] \notin {"in", "command", "out"}
    BY CallsOf, SubsType
  <2>4. quiet' \subseteq quiet \cup {in}
    BY <2>2, BeginsNew
  <2>5. \A q \in Requests \ {r} : <<q, "in">> \in quiet' => <<q, "in">> \in quiet
    BY <2>4
  <2>6. \A q \in Requests \ {r}, k \in {"in", "command", "out"} : call'[<<q, k>>] = call[<<q, k>>]
    BY <2>1, <2>3, CallsOf
  <2>7. call'[out] = call[out]
    BY <2>1, <2>3
  <2>8. ASSUME in \in quiet'
        PROVE  SecretAt(r)'
    <3>1. CASE UNCHANGED <<stage, quiet>> /\ call'[in] = call[in] /\ call'[command] = call[command]
      BY <2>1, <2>7, <2>8, <3>1 DEF SecretInv, SecretAt
    <3>2. CASE stage[r] = "pin" /\ stage'[r] = "exts"
               /\ call'[in] = [call[in] EXCEPT !.pc = "asking", !.pin = "none"]
      <4>1. call[out] = NoCall
        BY <2>3, <3>2 DEF Inv, StageInv, StageAt, Early, CallInv, CallAt
      <4>2. call'[out].pc = "idle" /\ call'[out].result = "none"
        BY <2>7, <4>1 DEF NoCall
      <4>3. call'[in].pc = "asking"
        BY <2>3, <3>2 DEF Records
      <4> QED
        BY <3>2, <4>2, <4>3 DEF SecretAt
    <3>3. CASE stage[r] = "pin" /\ UNCHANGED quiet
      BY <2>8, <3>3, QuietStarted DEF Early
    <3> QED
      BY <2>2, <3>1, <3>2, <3>3
  <2> HIDE DEF c, command, out
  <2> QED
    BY <2>1, <2>5, <2>6, <2>8, SecretStep
<1>8. ASSUME NEW r \in Requests, NEW s \in PinSlots, TokenRefused(r, s)
      PROVE  SecretInv'
  <2> DEFINE c == <<r, s>>
  <2>1. /\ \A d \in Calls \ {c} : call'[d] = call[d]
        /\ UNCHANGED <<platformKey, authKey, stage, quiet>>
    BY <1>8, TokenRefusedEffect
  <2>2. c \in Calls /\ c[2] \in PinSlots
    BY CallsOf
  <2> HIDE DEF c
  <2> QED
    BY <2>1, <2>2, SecretSlot
<1>9. ASSUME NEW p \in {"right", "wrong"}, TypePin(p)
      PROVE  SecretInv'
  <2>1. /\ UNCHANGED <<platformKey, authKey>>
        /\ \A r \in Requests : stage'[r] = stage[r] \/ (stage[r] = "set" /\ stage'[r] = "setting")
    BY <1>9, TypePinEffect
  <2>2. PICK C \in SUBSET Calls :
          /\ \A c \in C : /\ call[c].pc = "idle"
                          /\ c[2] \in PinSlots \cup {"set"}
                          /\ c[2] = "set" => stage'[c[1]] = "setting"
                          /\ call'[c] = [call[c] EXCEPT !.pc = "asking", !.pin = p]
          /\ \A c \in Calls \ C : call'[c] = call[c]
          /\ IsFiniteSet(C) /\ Begins(C, {})
    BY <1>9, TypePinEffect
  <2>3. quiet' \subseteq quiet \cup C
    BY <2>2, BeginsNew
  <2> SUFFICES ASSUME NEW r \in Requests, <<r, "in">> \in quiet'
               PROVE  SecretAt(r)'
    BY DEF SecretInv
  <2>4. \A k \in {"in", "command", "out"} : <<r, k>> \in Calls \ C
    <3>1. \A k \in {"in", "command", "out"} : <<r, k>>[2] = k /\ k \notin PinSlots \cup {"set"}
      BY CallsOf
    <3> QED
      BY <2>2, <3>1, CallsOf
  <2>5. \A k \in {"in", "command", "out"} : call'[<<r, k>>] = call[<<r, k>>]
    BY <2>2, <2>4
  <2>6. <<r, "in">> \in quiet
    BY <2>3, <2>4
  <2>7. stage'[r] = stage[r]
    BY <2>1, <2>6, QuietStarted DEF Early
  <2> QED
    BY <2>1, <2>5, <2>6, <2>7, SecretOthers
<1>10. CASE Answer
  <2>1. PICK c \in Calls :
           /\ queue' \in Seq(Calls) /\ call' \in [Calls -> Records]
           /\ \A d \in Calls \ {c} : call'[d] = call[d]
           /\ UNCHANGED <<platformKey, hashOf, stage, subs, token, param, secret, quiet, alone>>
           /\ \/ /\ call[c].pc = "asking" /\ UNCHANGED <<authKey, pinSet, retries>>
                 /\ call'[c] = [call[c] EXCEPT !.pc = "keyed", !.peer = authKey]
              \/ /\ c[2] = "set" /\ call[c].pc = "sent" /\ UNCHANGED <<authKey, retries>>
                 /\ pinSet' \in BOOLEAN
                 /\ call'[c].pc = "over" /\ call'[c].result = "none" /\ call'[c].pin = call[c].pin
              \/ /\ c[2] \in PinSlots /\ call[c].pc = "sent" /\ pinSet' = pinSet
                 /\ retries' \in 0..MaxRetries
                 /\ \E x \in {"refused", "granted", "invalid"} :
                      /\ call'[c] = [call[c] EXCEPT !.pc = "answered", !.result = x, !.under = authKey]
                      /\ x = "granted" => call[c].peer = authKey
                      /\ x = "invalid" => ~(call[c].pin = "right" /\ call[c].peer = authKey)
                      /\ authKey' = IF x = "invalid" THEN c ELSE authKey
              \/ /\ c[2] = "command" /\ call[c].pc = "sent" /\ UNCHANGED <<authKey, pinSet, retries>>
                 /\ \E x \in {"accepted", "rejected"} :
                      /\ call'[c] = [call[c] EXCEPT !.pc = "answered", !.result = x, !.under = authKey]
                      /\ x = "rejected" =>
                           ~(/\ param[c[1]] = [token |-> "genuine", hash |-> c[1]]
                             /\ c[1] \in secret => call[<<c[1], "in">>].peer = authKey)
    BY <1>10, AnswerEffect
  <2>2. c = <<c[1], c[2]>> /\ c[1] \in Requests /\ call[c] \in Records /\ CallAt(c)
    BY CallsOf, SubsType DEF Inv, CallInv
  <2>3. CASE c[2] \in PinSlots \cup {"set"}
    <3>1. UNCHANGED <<platformKey, authKey>> \/ UnderWay(c)
      BY <2>1, <2>3, CallsOf, UnderWayOf DEF Runs
    <3> QED
      BY <2>1, <2>3, <3>1, SecretSlot
  <2>4. CASE c[2] \in {"in", "command", "out"}
    <3> DEFINE r == c[1]
               in == <<r, "in">>
               command == <<r, "command">>
               out == <<r, "out">>
    <3>1. UNCHANGED <<platformKey, authKey>>
      <4>1. c[2] \notin PinSlots
        BY <2>4, CallsOf
      <4> QED
        BY <2>1, <4>1
    <3>2. \A q \in Requests \ {r}, k \in {"in", "command", "out"} : call'[<<q, k>>] = call[<<q, k>>]
      <4> SUFFICES ASSUME NEW q \in Requests \ {r}, NEW k \in {"in", "command", "out"}
                   PROVE  call'[<<q, k>>] = call[<<q, k>>]
        OBVIOUS
      <4>1. <<q, k>> \in Calls /\ <<q, k>>[1] = q
        BY CallsOf
      <4>2. <<q, k>> # c
        BY <4>1
      <4> QED
        BY <2>1, <4>1, <4>2
    <3>3. StageAt(r)
      BY <2>2 DEF Inv, StageInv
    <3>4. ASSUME in \in quiet
          PROVE  SecretAt(r)'
      <4>1. SecretAt(r)
        BY <2>2, <3>4 DEF SecretInv
      <4>2. in \in Calls /\ command \in Calls /\ out \in Calls /\ in # command /\ in # out /\ command # out
        BY <2>2, CallsOf
      <4>3. stage'[r] = stage[r]
        BY <2>1
      <4>4. CASE c = in
        <5>1. call[in].pc = "asking" /\ call'[in] = [call[in] EXCEPT !.pc = "keyed", !.peer = authKey]
          BY <2>1, <2>2, <4>4, CallsOf
        <5>2. call'[in].pc = "keyed" /\ call'[in].peer = authKey
          BY <2>2, <4>4, <5>1 DEF Records
        <5>3. call'[command] = call[command] /\ call'[out] = call[out]
          BY <2>1, <4>2, <4>4
        <5> HIDE DEF in, command, out, r
        <5> QED
          BY <3>1, <4>1, <4>3, <5>2, <5>3 DEF SecretAt, r, in, command, out
      <4>5. CASE c = command
        <5>1. PICK x \in {"accepted", "rejected"} :
                /\ call[c].pc = "sent"
                /\ call'[c] = [call[c] EXCEPT !.pc = "answered", !.result = x, !.under = authKey]
          <6>1. "asking" \notin PhasesOf("command") /\ c[2] = "command" /\ "command" \notin PinSlots \cup {"set"}
            BY <4>5, Phases, CallsOf
          <6>2. call[c].pc # "asking"
            BY <2>2, <6>1 DEF CallAt
          <6> QED
            BY <2>1, <6>1, <6>2
        <5>2. call'[command].pc = "answered" /\ call'[command].under = authKey
          BY <2>2, <4>5, <5>1 DEF Records
        <5>3. call'[in] = call[in] /\ call'[out] = call[out]
          BY <2>1, <4>2, <4>5
        <5> QED
          BY <3>1, <4>1, <4>3, <5>2, <5>3 DEF SecretAt
      <4>6. CASE c = out
        <5>1. call[out].pc = "asking" /\ call'[out] = [call[out] EXCEPT !.pc = "keyed", !.peer = authKey]
          BY <2>1, <2>2, <4>6, CallsOf
        <5>2. call'[out].pc = "keyed" /\ call'[out].peer = authKey /\ call'[out].result = call[out].result
          BY <2>2, <4>6, <5>1 DEF Records
        <5>3. call'[command] = call[command] /\ call'[in] = call[in]
          BY <2>1, <4>2, <4>6
        <5> QED
          BY <3>1, <4>1, <4>3, <5>2, <5>3 DEF SecretAt
      <4> QED
        BY <2>2, <2>4, <4>4, <4>5, <4>6
    <3>5. in \in quiet' => SecretAt(r)'
      BY <2>1, <3>4
    <3> HIDE DEF command, out
    <3> QED
      BY <2>1, <2>2, <3>1, <3>2, <3>5, SecretStep
  <2> QED
    BY <2>2, <2>3, <2>4, CallsOf
<1> QED
  BY <1>1, <1>2, <1>3, <1>4, <1>5, <1>6, <1>7, <1>8, <1>9, <1>10 DEF Next

-----------------------------------------------------------------------------
(* A request that has the client for itself *)

(* The session holds its client data, and its command carries its own token. *)
AloneAt(r) ==
    /\ stage[r] # "idle"
    /\ Pending(r) => \A q \in Requests \ {r} : ~Pending(q)
    /\ stage[r] = "exts" => hashOf = r
    /\ stage[r] = "command" => param[r] = [token |-> token[r], hash |-> r]
    /\ token[r] = "genuine" /\ (r \in secret => <<r, "in">> \in quiet) =>
          call[<<r, "command">>].result # "rejected"

AloneInv == \A r \in alone : AloneAt(r)

(* What the step of another request leaves alone. *)
LEMMA AloneOthers ==
  ASSUME AloneInv, NEW q \in alone, q \in Requests,
         stage'[q] = stage[q], token'[q] = token[q], param'[q] = param[q], secret' = secret,
         call'[<<q, "command">>].result = call[<<q, "command">>].result,
         <<q, "in">> \in quiet' => <<q, "in">> \in quiet,
         hashOf' = hashOf \/ stage[q] # "exts",
         Pending(q) => \A d \in Requests \ {q} : ~Pending(d)'
  PROVE  AloneAt(q)'
BY DEF AloneInv, AloneAt, Pending

(* The step of a request that is pending: those that are not are indifferent to it,
   and only it can be pending alone. *)
LEMMA AloneStep ==
  ASSUME Inv, AloneInv, NEW r \in Requests, Pending(r), alone' = alone, secret' = secret,
         \A q \in Requests \ {r} : /\ stage'[q] = stage[q]
                                   /\ token'[q] = token[q]
                                   /\ param'[q] = param[q]
                                   /\ call'[<<q, "command">>].result = call[<<q, "command">>].result
                                   /\ <<q, "in">> \in quiet' => <<q, "in">> \in quiet,
         stage'[r] # "idle",
         r \in alone => /\ stage'[r] = "exts" => hashOf' = r
                        /\ stage'[r] = "command" => param'[r] = [token |-> token'[r], hash |-> r]
                        /\ token'[r] = "genuine" /\ (r \in secret => <<r, "in">> \in quiet') =>
                              call'[<<r, "command">>].result # "rejected"
  PROVE  AloneInv'
<1> SUFFICES ASSUME NEW q \in alone
             PROVE  AloneAt(q)'
  BY DEF AloneInv
<1>1. q \in Requests /\ AloneAt(q)
  BY SubsType DEF Inv, AloneInv
<1>2. CASE q = r
  <2>1. \A d \in Requests \ {r} : ~Pending(d)
    BY <1>1, <1>2 DEF AloneAt
  <2>2. \A d \in Requests \ {r} : ~Pending(d)'
    BY <2>1 DEF Pending
  <2> QED
    BY <1>2, <2>2 DEF AloneAt
<1>3. CASE q # r
  <2>1. ~ Pending(q)
    BY <1>1, <1>3 DEF AloneAt
  <2>2. stage[q] # "exts"
    BY <2>1 DEF Pending
  <2> QED
    BY <1>1, <1>3, <2>1, <2>2, AloneOthers
<1> QED
  BY <1>2, <1>3

LEMMA AloneNext ==
  ASSUME Inv, SecretInv, AloneInv, Next
  PROVE  AloneInv'
<1> TypeOK
  BY DEF Inv
<1>1. ASSUME NEW r \in Requests, Begin(r)
      PROVE  AloneInv'
  <2> DEFINE others == {q \in Requests \ {r} : Pending(q)}
  <2>1. /\ stage[r] = "idle" /\ stage'[r] \in {"pin", "set"}
        /\ \A q \in Requests \ {r} : stage'[q] = stage[q]
        /\ UNCHANGED <<hashOf, call, secret, token, param, quiet>>
    BY <1>1, BeginEffect
  <2>2. alone' = IF others = {} THEN alone \cup {r} ELSE alone \ others
    BY <1>1 DEF Begin
  <2> SUFFICES ASSUME NEW q \in alone'
               PROVE  AloneAt(q)'
    BY DEF AloneInv
  <2>3. CASE q = r
    <3>1. r \notin alone
      BY <2>1 DEF AloneInv, AloneAt
    <3>2. others = {}
      BY <2>2, <2>3, <3>1
    <3>3. \A d \in Requests \ {r} : ~Pending(d)'
      BY <2>1, <3>2 DEF Pending
    <3>4. call'[<<r, "command">>] = NoCall /\ NoCall.result = "none"
      <4>1. call[<<r, "command">>] = NoCall
        BY <2>1, CallsOf DEF Inv, StageInv, StageAt, Early, CallInv, CallAt
      <4> QED
        BY <2>1, <4>1 DEF NoCall
    <3> QED
      BY <2>1, <2>3, <3>3, <3>4 DEF AloneAt
  <2>4. CASE q # r
    <3>1. q \in alone /\ q \in Requests
      BY <2>2, <2>4, SubsType
    <3>2. ~ Pending(q)
      <4>1. Pending(q) => others # {} /\ q \in others
        BY <2>4, <3>1
      <4> QED
        BY <2>2, <4>1
    <3> QED
      BY <2>1, <2>4, <3>1, <3>2, AloneOthers
  <2> QED
    BY <2>3, <2>4
<1>2. ASSUME NEW r \in Requests, SendSetPin(r)
      PROVE  AloneInv'
  <2> DEFINE d == <<r, "set">>
             command == <<r, "command">>
  <2>1. /\ call[d].pc = "keyed" /\ \A c \in Calls \ {d} : call'[c] = call[c]
        /\ stage'[r] = "pin" /\ \A q \in Requests \ {r} : stage'[q] = stage[q]
        /\ UNCHANGED <<hashOf, token, param, secret, quiet, alone>>
    BY <1>2, SendSetPinEffect
  <2>2. stage[r] = "setting"
    BY <2>1 DEF Inv, StageInv, StageAt
  <2>3. \A q \in Requests : call'[<<q, "command">>] = call[<<q, "command">>]
    BY <2>1, CallsOf
  <2>4. r \in alone /\ token'[r] = "genuine" /\ (r \in secret => <<r, "in">> \in quiet') =>
              call'[command].result # "rejected"
    BY <2>1, <2>3 DEF AloneInv, AloneAt
  <2>5. Pending(r)
    BY <2>2 DEF Pending
  <2> QED
    BY <2>1, <2>3, <2>4, <2>5, AloneStep
<1>3. ASSUME NEW r \in Requests, SendSecretCommand(r)
      PROVE  AloneInv'
  <2> DEFINE in == <<r, "in">>
             command == <<r, "command">>
  <2>1. /\ call[in].pc = "keyed" /\ call'[command] = [call[command] EXCEPT !.pc = "sent"]
        /\ \A c \in Calls \ {in, command} : call'[c] = call[c]
        /\ stage'[r] = "command" /\ \A q \in Requests \ {r} : stage'[q] = stage[q]
        /\ param' = [param EXCEPT ![r] = [token |-> token[r], hash |-> hashOf]]
        /\ UNCHANGED <<hashOf, token, secret, quiet, alone>>
    BY <1>3, SendSecretCommandEffect
  <2>2. stage[r] = "exts"
    BY <2>1 DEF Inv, StageInv, StageAt
  <2>3. \A q \in Requests \ {r} : call'[<<q, "command">>] = call[<<q, "command">>]
    BY <2>1, CallsOf
  <2>4. call'[command].result = call[command].result
    <3>1. call[command] \in Records
      BY CallsOf, SubsType
    <3> HIDE DEF command
    <3> QED
      BY <2>1, <3>1 DEF Records
  <2>5. param \in [Requests -> Params]
    BY SubsType
  <2>6. /\ param'[r] = [token |-> token[r], hash |-> hashOf]
        /\ \A q \in Requests \ {r} : param'[q] = param[q]
    BY <2>1, <2>5
  <2>7. r \in alone => /\ hashOf = r
                       /\ token'[r] = "genuine" /\ (r \in secret => in \in quiet') =>
                              call'[command].result # "rejected"
    BY <2>1, <2>2, <2>4 DEF AloneInv, AloneAt
  <2>8. Pending(r)
    BY <2>2 DEF Pending
  <2> QED
    BY <2>1, <2>3, <2>6, <2>7, <2>8, AloneStep
<1>4. ASSUME NEW r \in Requests, CommandReturns(r)
      PROVE  AloneInv'
  <2> DEFINE command == <<r, "command">>
             out == <<r, "out">>
  <2>1. /\ call[command].pc = "answered" /\ call'[command] = [call[command] EXCEPT !.pc = "over"]
        /\ \A c \in Calls \ {command, out} : call'[c] = call[c]
        /\ \A q \in Requests \ {r} : stage'[q] = stage[q]
        /\ UNCHANGED <<hashOf, token, param, secret, alone>>
    BY <1>4, CommandReturnsEffect
  <2>2. stage'[r] \in {"output", "done"} /\ (quiet' = quiet \/ Begins({out}, {}))
    BY <1>4, CommandReturnsEffect
  <2>3. \A q \in Requests : <<q, "in">> \in quiet' => <<q, "in">> \in quiet
    <3>1. quiet' \subseteq quiet \cup {out}
      BY <2>2, BeginsNew
    <3> QED
      BY <3>1
  <2>4. stage[r] = "command"
    BY <2>1 DEF Inv, StageInv, StageAt
  <2>5. \A q \in Requests \ {r} : call'[<<q, "command">>] = call[<<q, "command">>]
    BY <2>1, CallsOf
  <2>6. call'[command].result = call[command].result
    <3>1. call[command] \in Records
      BY CallsOf, SubsType
    <3> HIDE DEF command
    <3> QED
      BY <2>1, <3>1 DEF Records
  <2>7. r \in alone /\ token'[r] = "genuine" /\ (r \in secret => <<r, "in">> \in quiet') =>
              call'[command].result # "rejected"
    BY <2>1, <2>3, <2>6 DEF AloneInv, AloneAt
  <2>8. Pending(r)
    BY <2>4 DEF Pending
  <2> QED
    BY <2>1, <2>2, <2>3, <2>5, <2>7, <2>8, AloneStep
<1>5. ASSUME NEW r \in Requests, OutputBuilt(r)
      PROVE  AloneInv'
  <2> DEFINE command == <<r, "command">>
             out == <<r, "out">>
  <2>1. /\ call[out].pc = "keyed" /\ \A c \in Calls \ {out} : call'[c] = call[c]
        /\ stage'[r] = "done" /\ \A q \in Requests \ {r} : stage'[q] = stage[q]
        /\ UNCHANGED <<hashOf, token, param, secret, quiet, alone>>
    BY <1>5, OutputBuiltEffect
  <2>2. stage[r] = "output"
    BY <2>1 DEF Inv, StageInv, StageAt
  <2>3. \A q \in Requests : call'[<<q, "command">>] = call[<<q, "command">>]
    BY <2>1, CallsOf
  <2>4. r \in alone /\ token'[r] = "genuine" /\ (r \in secret => <<r, "in">> \in quiet') =>
              call'[command].result # "rejected"
    BY <2>1, <2>3 DEF AloneInv, AloneAt
  <2>5. Pending(r)
    BY <2>2 DEF Pending
  <2> QED
    BY <2>1, <2>3, <2>4, <2>5, AloneStep
<1>6. ASSUME \A q \in Requests : call'[<<q, "command">>] = call[<<q, "command">>],
             UNCHANGED <<hashOf, stage, token, param, secret, quiet, alone>>
      PROVE  AloneInv'
  <2>1. ASSUME NEW q \in alone
        PROVE  AloneAt(q)'
    <3>1. q \in Requests /\ AloneAt(q)
      BY SubsType DEF AloneInv
    <3> QED
      BY <1>6, <3>1 DEF AloneAt, Pending
  <2> QED
    BY <1>6, <2>1 DEF AloneInv
<1>7. ASSUME NEW r \in Requests, NEW s \in PinSlots, SendGetPinToken(r, s) \/ TokenRefused(r, s)
      PROVE  AloneInv'
  <2>1. /\ \A d \in Calls \ {<<r, s>>} : call'[d] = call[d]
        /\ UNCHANGED <<hashOf, stage, token, param, secret, quiet, alone>>
    BY <1>7, SendGetPinTokenEffect, TokenRefusedEffect
  <2>2. \A q \in Requests : call'[<<q, "command">>] = call[<<q, "command">>]
    BY <2>1, CallsOf
  <2> QED
    BY <1>6, <2>1, <2>2
<1>8. ASSUME NEW r \in Requests, NEW s \in PinSlots, TokenReturns(r, s)
      PROVE  AloneInv'
  <2> DEFINE c == <<r, s>>
             in == <<r, "in">>
             command == <<r, "command">>
             t == Decrypt(call[c].peer, c, call[c].under)
  <2>1. /\ \A d \in Calls \ {c, in, command} : call'[d] = call[d]
        /\ \A q \in Requests \ {r} : stage'[q] = stage[q]
        /\ UNCHANGED <<secret, alone>> /\ t \in {"genuine", "garbage"}
    BY <1>8, TokenReturnsEffect, ZenonT(30)
  <2>2. \/ /\ stage[r] # "pin"
           /\ UNCHANGED <<stage, token, hashOf, param, queue, quiet>>
           /\ call'[in] = call[in] /\ call'[command] = call[command]
        \/ /\ stage[r] = "pin" /\ stage'[r] = "exts" /\ r \in secret
           /\ token' = [token EXCEPT ![r] = t] /\ hashOf' = r
           /\ call'[in] = [call[in] EXCEPT !.pc = "asking", !.pin = "none"]
           /\ call'[command] = call[command]
           /\ queue' = Append(queue, in) /\ Begins({in}, {c}) /\ UNCHANGED param
        \/ /\ stage[r] = "pin" /\ stage'[r] = "command" /\ r \notin secret
           /\ token' = [token EXCEPT ![r] = t] /\ hashOf' = r
           /\ call'[in] = call[in]
           /\ call'[command] = [call[command] EXCEPT !.pc = "sent"]
           /\ param' = [param EXCEPT ![r] = [token |-> t, hash |-> r]]
           /\ queue' = Append(queue, command) /\ UNCHANGED quiet
    BY <1>8, TokenReturnsEffect, ZenonT(30)
  <2>3. \A q \in Requests \ {r} : call'[<<q, "command">>] = call[<<q, "command">>]
    BY <2>1, CallsOf
  <2> HIDE DEF t
  <2>4. CASE /\ UNCHANGED <<stage, token, hashOf, param, quiet>>
             /\ call'[command] = call[command]
    BY <1>6, <2>1, <2>3, <2>4
  <2>5. CASE stage[r] = "pin"
    <3>1. Pending(r)
      BY <2>5 DEF Pending
    <3>2. call[command] = NoCall
      BY <2>5, CallsOf DEF Inv, StageInv, StageAt, Early, CallInv, CallAt
    <3>3. call'[command].result = "none"
      <4>1. NoCall.result = "none" /\ [NoCall EXCEPT !.pc = "sent"].result = "none"
        BY DEF NoCall
      <4>2. call'[command] = call[command] \/ call'[command] = [call[command] EXCEPT !.pc = "sent"]
        BY <2>2
      <4> HIDE DEF command
      <4> QED
        BY <3>2, <4>1, <4>2
    <3>4. quiet' \subseteq quiet \cup {in}
      BY <2>2, BeginsNew
    <3>5. \A q \in Requests \ {r} : <<q, "in">> \in quiet' => <<q, "in">> \in quiet
      BY <3>4
    <3>6. token \in [Requests -> Tokens] /\ param \in [Requests -> Params]
      BY SubsType
    <3>7. CASE /\ stage'[r] = "exts" /\ token' = [token EXCEPT ![r] = t] /\ hashOf' = r
               /\ UNCHANGED param
      <4>1. \A q \in Requests \ {r} : token'[q] = token[q] /\ param'[q] = param[q]
        BY <3>6, <3>7
      <4> QED
        BY <2>1, <2>3, <3>1, <3>3, <3>5, <3>7, <4>1, AloneStep
    <3>8. CASE /\ stage'[r] = "command" /\ token' = [token EXCEPT ![r] = t]
               /\ param' = [param EXCEPT ![r] = [token |-> t, hash |-> r]]
      <4>1. /\ \A q \in Requests \ {r} : token'[q] = token[q] /\ param'[q] = param[q]
            /\ token'[r] = t /\ param'[r] = [token |-> t, hash |-> r]
        BY <3>6, <3>8
      <4> QED
        BY <2>1, <2>3, <3>1, <3>3, <3>5, <3>8, <4>1, AloneStep
    <3>9. CASE UNCHANGED <<stage, token, hashOf, param, quiet>> /\ call'[command] = call[command]
      BY <2>4, <3>9
    <3> QED
      BY <2>2, <3>7, <3>8, <3>9
  <2> QED
    BY <2>2, <2>4, <2>5
<1>9. ASSUME NEW p \in {"right", "wrong"}, TypePin(p)
      PROVE  AloneInv'
  <2>1. /\ UNCHANGED <<hashOf, secret, token, param, alone>>
        /\ \A r \in Requests : stage'[r] = stage[r] \/ (stage[r] = "set" /\ stage'[r] = "setting")
    BY <1>9, TypePinEffect
  <2>2. PICK C \in SUBSET Calls :
          /\ \A c \in C : /\ call[c].pc = "idle"
                          /\ c[2] \in PinSlots \cup {"set"}
                          /\ c[2] = "set" => stage'[c[1]] = "setting"
                          /\ call'[c] = [call[c] EXCEPT !.pc = "asking", !.pin = p]
          /\ \A c \in Calls \ C : call'[c] = call[c]
          /\ IsFiniteSet(C) /\ Begins(C, {})
    BY <1>9, TypePinEffect
  <2>3. quiet' \subseteq quiet \cup C
    BY <2>2, BeginsNew
  <2> SUFFICES ASSUME NEW q \in alone
               PROVE  AloneAt(q)'
    BY <2>1 DEF AloneInv
  <2>4. q \in Requests /\ AloneAt(q)
    BY SubsType DEF AloneInv
  <2>5. <<q, "in">> \notin C /\ <<q, "command">> \in Calls \ C
    <3>1. \A k \in {"in", "command"} : <<q, k>>[2] = k /\ k \notin PinSlots \cup {"set"}
      BY CallsOf
    <3> QED
      BY <2>2, <2>4, <3>1, CallsOf
  <2>6. call'[<<q, "command">>] = call[<<q, "command">>] /\ (<<q, "in">> \in quiet' => <<q, "in">> \in quiet)
    BY <2>2, <2>3, <2>5
  <2>7. \A d \in Requests : Pending(d)' <=> Pending(d)
    BY <2>1 DEF Pending
  <2>8. stage'[q] = stage[q] \/ stage'[q] = "setting"
    BY <2>1, <2>4
  <2> QED
    BY <2>1, <2>4, <2>6, <2>7, <2>8 DEF AloneAt
<1>10. CASE Answer
  <2>1. PICK c \in Calls :
           /\ queue' \in Seq(Calls) /\ call' \in [Calls -> Records]
           /\ \A d \in Calls \ {c} : call'[d] = call[d]
           /\ UNCHANGED <<platformKey, hashOf, stage, subs, token, param, secret, quiet, alone>>
           /\ \/ /\ call[c].pc = "asking" /\ UNCHANGED <<authKey, pinSet, retries>>
                 /\ call'[c] = [call[c] EXCEPT !.pc = "keyed", !.peer = authKey]
              \/ /\ c[2] = "set" /\ call[c].pc = "sent" /\ UNCHANGED <<authKey, retries>>
                 /\ pinSet' \in BOOLEAN
                 /\ call'[c].pc = "over" /\ call'[c].result = "none" /\ call'[c].pin = call[c].pin
              \/ /\ c[2] \in PinSlots /\ call[c].pc = "sent" /\ pinSet' = pinSet
                 /\ retries' \in 0..MaxRetries
                 /\ \E x \in {"refused", "granted", "invalid"} :
                      /\ call'[c] = [call[c] EXCEPT !.pc = "answered", !.result = x, !.under = authKey]
                      /\ x = "granted" => call[c].peer = authKey
                      /\ x = "invalid" => ~(call[c].pin = "right" /\ call[c].peer = authKey)
                      /\ authKey' = IF x = "invalid" THEN c ELSE authKey
              \/ /\ c[2] = "command" /\ call[c].pc = "sent" /\ UNCHANGED <<authKey, pinSet, retries>>
                 /\ \E x \in {"accepted", "rejected"} :
                      /\ call'[c] = [call[c] EXCEPT !.pc = "answered", !.result = x, !.under = authKey]
                      /\ x = "rejected" =>
                           ~(/\ param[c[1]] = [token |-> "genuine", hash |-> c[1]]
                             /\ c[1] \in secret => call[<<c[1], "in">>].peer = authKey)
    BY <1>10, AnswerEffect
  <2>2. c = <<c[1], c[2]>> /\ c[1] \in Requests /\ call[c] \in Records /\ CallAt(c)
    BY CallsOf, SubsType DEF Inv, CallInv
  <2>3. CASE c[2] # "command"
    <3>1. \A q \in Requests : <<q, "command">> \in Calls \ {c}
      BY <2>3, CallsOf
    <3> QED
      BY <1>6, <2>1, <3>1
  <2>4. CASE c[2] = "command"
    <3> DEFINE r == c[1]
               in == <<r, "in">>
    <3>1. c = <<r, "command">>
      BY <2>2, <2>4
    <3>2. PICK x \in {"accepted", "rejected"} :
            /\ call[c].pc = "sent"
            /\ call'[c] = [call[c] EXCEPT !.pc = "answered", !.result = x, !.under = authKey]
            /\ x = "rejected" => ~(/\ param[r] = [token |-> "genuine", hash |-> r]
                                   /\ r \in secret => call[in].peer = authKey)
      <4>1. "asking" \notin PhasesOf("command") /\ "command" \notin PinSlots \cup {"set"}
        BY Phases, CallsOf
      <4>2. call[c].pc # "asking"
        BY <2>2, <2>4, <4>1 DEF CallAt
      <4> QED
        BY <2>1, <2>4, <4>1, <4>2
    <3>3. call'[c].result = x
      BY <2>2, <3>2 DEF Records
    <3>4. StageAt(r) /\ stage[r] = "command"
      BY <2>2, <3>1, <3>2 DEF Inv, StageInv, StageAt
    <3>5. ASSUME r \in alone, token[r] = "genuine", r \in secret => in \in quiet
          PROVE  x # "rejected"
      <4>1. param[r] = [token |-> "genuine", hash |-> r]
        BY <3>4, <3>5 DEF AloneInv, AloneAt
      <4>2. ASSUME r \in secret
            PROVE  call[in].peer = authKey
        <5>1. SecretAt(r)
          BY <2>2, <3>5, <4>2 DEF SecretInv
        <5>2. call[in].pc # "asking"
          BY <3>4 DEF StageAt
        <5> QED
          BY <3>4, <5>1, <5>2 DEF SecretAt
      <4> QED
        BY <3>2, <4>1, <4>2
    <3>6. \A q \in Requests \ {r} : call'[<<q, "command">>] = call[<<q, "command">>]
      <4> SUFFICES ASSUME NEW q \in Requests \ {r}
                   PROVE  <<q, "command">> \in Calls \ {c}
        BY <2>1
      <4>1. <<q, "command">>[1] = q /\ <<q, "command">> \in Calls
        BY CallsOf
      <4> QED
        BY <4>1
    <3>7. r \in alone => stage[r] = "command" /\ param[r] = [token |-> token[r], hash |-> r]
      BY <3>4 DEF AloneInv, AloneAt
    <3>8. Pending(r)
      BY <3>4 DEF Pending
    <3>9. call'[<<r, "command">>].result = x
      BY <3>1, <3>3
    <3>10. r \in Requests
      BY <2>2
    <3>11. /\ UNCHANGED <<hashOf, stage, token, param, secret, quiet, alone>>
      BY <2>1
    <3>12. r \in alone => /\ stage'[r] = "exts" => hashOf' = r
                          /\ stage'[r] = "command" => param'[r] = [token |-> token'[r], hash |-> r]
                          /\ token'[r] = "genuine" /\ (r \in secret => <<r, "in">> \in quiet') =>
                                call'[<<r, "command">>].result # "rejected"
      BY <3>4, <3>5, <3>7, <3>9, <3>11
    <3> HIDE DEF r, in
    <3> QED
      BY <3>4, <3>6, <3>8, <3>10, <3>11, <3>12, AloneStep
  <2> QED
    BY <2>3, <2>4
<1> QED
  BY <1>1, <1>2, <1>3, <1>4, <1>5, <1>7, <1>8, <1>9, <1>10 DEF Next

-----------------------------------------------------------------------------
(* The theorems *)

(* Every variable keeps its type; the subscriptions of the pin subject are those of
   pending requests, because settling one request ends all of them. *)
THEOREM TypeCorrect == Spec => []TypeOK
<1>1. Init => Inv
  BY InvInit
<1>2. Inv /\ [Next]_vars => Inv'
  BY InvNext
<1>3. Inv => TypeOK
  BY DEF Inv
<1> QED
  BY <1>1, <1>2, <1>3, PTL DEF Spec

(* QuietInv tells that no other operation is under way, and therefore that none
   draws a key, while one that is quiet needs the keys of now. *)
KeysInv == Inv /\ QuietInv /\ TokenInv /\ SecretInv /\ AloneInv

LEMMA KeysInvariant == Spec => []KeysInv
<1>1. Init => KeysInv
  <2> SUFFICES ASSUME Init
               PROVE  KeysInv
    OBVIOUS
  <2>1. Inv
    BY InvInit
  <2>2. quiet = {} /\ alone = {}
    BY DEF Init
  <2> QED
    BY <2>1, <2>2 DEF KeysInv, QuietInv, TokenInv, SecretInv, AloneInv
<1>2. KeysInv /\ [Next]_vars => KeysInv'
  <2> SUFFICES ASSUME KeysInv, [Next]_vars
               PROVE  KeysInv'
    OBVIOUS
  <2>1. CASE Next
    <3>1. Inv'
      BY <2>1, InvNext DEF KeysInv
    <3> QED
      BY <2>1, <3>1, QuietNext, TokenNext, SecretNext, AloneNext DEF KeysInv
  <2>2. CASE UNCHANGED vars
    <3>1. Inv'
      BY InvNext DEF KeysInv
    <3>2. UNCHANGED <<platformKey, hashOf, call, stage, subs, token, param, secret, authKey, quiet, alone>>
      BY <2>2 DEF vars, platform, request, authenticator, history
    <3>3. QuietInv' /\ TokenInv'
      BY <3>2 DEF KeysInv, QuietInv, QuietAt, Compatible, UnderWay, TokenInv, TokenAt
    <3>4. SecretInv' /\ AloneInv'
      BY <3>2 DEF KeysInv, SecretInv, SecretAt, AloneInv, AloneAt, Pending
    <3> QED
      BY <3>1, <3>3, <3>4 DEF KeysInv
  <2> QED
    BY <2>1, <2>2
<1> QED
  BY <1>1, <1>2, PTL DEF Spec

(* A right PIN whose getPinToken runs beside no other operation gives the token of
   the authenticator, whatever keys were drawn before: wrong PINs, and the command of
   setPin that nobody awaited. *)
THEOREM TokenGenuineHolds == Spec => []TokenGenuine
<1>1. KeysInv => TokenGenuine
  <2> SUFFICES ASSUME KeysInv, NEW r \in Requests, NEW s \in PinSlots,
                      <<r, s>> \in quiet, call[<<r, s>>].pin = "right"
               PROVE  call[<<r, s>>].result \notin {"invalid", "garbage"}
    BY DEF TokenGenuine
  <2> QED
    BY DEF KeysInv, TokenInv, TokenAt
<1> QED
  BY <1>1, KeysInvariant, PTL

(* The command of a request that has the client for itself is rejected only if its
   token was not genuine or another PIN was typed while the extension was under way. *)
THEOREM CommandAcceptedHolds == Spec => []CommandAccepted
<1>1. KeysInv => CommandAccepted
  BY DEF KeysInv, AloneInv, AloneAt, CommandAccepted
<1> QED
  BY <1>1, KeysInvariant, PTL

(* The secrets of hmac-secret are decrypted with the keys they were encrypted under,
   if no other operation ran between its input and its output. *)
THEOREM OutputGenuineHolds == Spec => []OutputGenuine
<1>1. KeysInv => OutputGenuine
  BY DEF KeysInv, SecretInv, SecretAt, OutputGenuine
<1> QED
  BY <1>1, KeysInvariant, PTL
=============================================================================
