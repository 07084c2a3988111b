------------------------------ MODULE ClientPin ------------------------------
(***************************************************************************)
(* The PIN protocol and the hmac-secret extension of the requests of one   *)
(* client (src/ctap2/client-pin.ts, ctap2.ts, extension/hmac-secret.ts),   *)
(* with the data that the verification of a command depends on: keys,      *)
(* tokens and client data hashes.                                          *)
(*                                                                         *)
(* All operations share one ClientPinV1 object, with one platform key that *)
(* encapsulate() replaces, and one session.clientDataHash.  Each is a      *)
(* chain of device calls with awaits in between, during which another may  *)
(* run: every PIN typed starts one for every subscription of the pin       *)
(* subject, and a subscription outlives its first PIN.                     *)
(*                                                                         *)
(* A key is named by the operation that drew it: a platform key by the     *)
(* operation that called encapsulate(), a key of the authenticator by the  *)
(* wrong PIN it answered with it.  A secret belongs to one key of each;    *)
(* what is encrypted under one secret is garbage under another.            *)
(***************************************************************************)
EXTENDS Integers, Sequences, FiniteSets

CONSTANTS
    Requests,   \* requests of the client
    PinSlots,   \* bound: one getPinToken call of a request per slot
    MaxRetries, \* PIN retries of the authenticator
    None        \* no request, or the key drawn at the start

ASSUME ConstantsAssumption ==
    /\ IsFiniteSet(Requests)
    /\ MaxRetries \in Nat \ {0}
    /\ PinSlots \cap {"set", "in", "command", "out"} = {}

Calls == Requests \X (PinSlots \cup {"set", "in", "command", "out"})

VARIABLES
    platformKey, \* ClientPinV1.key
    hashOf,      \* whose client data session.clientDataHash is
    call,        \* the device operations
    stage,       \* what a request waits for
    subs,        \* requests whose subscription of the pin subject is alive
    secret,      \* requests with the extension hmacGetSecret
    token,       \* pinUvAuthToken of a request
    param,       \* what pinUvAuthParam of a command was computed from
    authKey, pinSet, retries, \* the authenticator
    queue,       \* messages it has not answered, in the order they were sent
    quiet,       \* history: operations nothing has run beside, so far
    alone        \* history: requests no other was pending with

platform == <<platformKey, hashOf>>
request == <<stage, subs, token, param>>
authenticator == <<authKey, pinSet, retries>>
history == <<quiet, alone>>
vars == <<platform, call, request, secret, authenticator, queue, history>>

Keys == Calls \cup {None}
NoCall == [pc |-> "idle", pin |-> "none", peer |-> None, under |-> None, result |-> "none"]
NoParam == [token |-> "none", hash |-> None]

Init ==
    /\ platformKey = None
    /\ hashOf = None
    /\ call = [c \in Calls |-> NoCall]
    /\ stage = [r \in Requests |-> "idle"]
    /\ subs = {}
    /\ secret \in SUBSET Requests
    /\ token = [r \in Requests |-> "none"]
    /\ param = [r \in Requests |-> NoParam]
    /\ authKey = None
    /\ pinSet \in BOOLEAN
    /\ retries = MaxRetries
    /\ queue = <<>>
    /\ quiet = {}
    /\ alone = {}

-----------------------------------------------------------------------------
(* History: an operation is under way from getKeyAgreement to its last await
   (setPin does not await its command), the input of hmac-secret as long as its
   request goes on, because the output still needs what it has set up. *)

UnderWay(c) ==
    \/ c[2] = "set" /\ call[c].pc \in {"asking", "keyed"}
    \/ c[2] \in PinSlots \cup {"out"} /\ call[c].pc \in {"asking", "keyed", "sent", "answered"}
    \/ c[2] = "in" /\ stage[c[1]] \in {"exts", "command", "output"}

(* The operations in C begin as those in D end. *)
Begins(C, D) ==
    LET own == {c \in Calls : c[2] = "in" /\ <<c[1], "out">> \in C}
        others == {c \in Calls \ (own \cup D) : UnderWay(c)}
    IN  quiet' = (quiet \ others) \cup (IF others = {} /\ Cardinality(C) = 1 THEN C ELSE {})

Pending(r) == stage[r] \notin {"idle", "done"}

-----------------------------------------------------------------------------
(* The platform. *)

(* The selected authenticator has been asked for its info: a PIN is prompted for,
   to be set if there is none. *)
Begin(r) ==
    LET others == {q \in Requests \ {r} : Pending(q)}
    IN  /\ stage[r] = "idle"
        /\ stage' = [stage EXCEPT ![r] = IF pinSet THEN "pin" ELSE "set"]
        /\ subs' = subs \cup {r}
        /\ alone' = IF others = {} THEN alone \cup {r} ELSE alone \ others
        /\ UNCHANGED <<platform, call, secret, token, param, authenticator, queue, quiet>>

(* getKeyAgreement of new operations is sent, in this order. *)
Ask(f, cs, pin) == [c \in Calls |->
    IF \E i \in DOMAIN cs : cs[i] = c THEN [f[c] EXCEPT !.pc = "asking", !.pin = pin] ELSE f[c]]

(* pin.next(p): each subscription starts an operation, the first() of a request
   that has to set the PIN ends with that. *)
FreeSlots(r) == {s \in PinSlots : call[<<r, s>>].pc = "idle"}
Started(r) == <<r, IF stage[r] = "set" THEN "set" ELSE CHOOSE s \in FreeSlots(r) : TRUE>>

TypePin(p) ==
    /\ subs # {}
    /\ \A r \in subs : stage[r] # "set" => FreeSlots(r) # {}
    /\ \E order \in [1..Cardinality(subs) -> subs] :
          /\ \A r \in subs : \E i \in DOMAIN order : order[i] = r
          /\ LET cs == [i \in DOMAIN order |-> Started(order[i])]
                 setting == {r \in subs : stage[r] = "set"}
             IN  /\ call' = Ask(call, cs, p)
                 /\ queue' = queue \o cs
                 /\ stage' = [r \in Requests |-> IF r \in setting THEN "setting" ELSE stage[r]]
                 /\ subs' = subs \ setting
                 /\ Begins({cs[i] : i \in DOMAIN cs}, {})
    /\ UNCHANGED <<platform, secret, token, param, authenticator, alone>>

(* encapsulate() for the operation c, whose message it goes into. *)
Encapsulate(c) == /\ platformKey' = c
                  /\ call' = [call EXCEPT ![c].pc = "sent"]

(* What decapsulate(peer) makes of a ciphertext made with the platform key of the
   operation c and the authenticator's key a: it takes the platform key of now. *)
Decrypt(peer, c, a) == IF platformKey = c /\ peer = a THEN "genuine" ELSE "garbage"

(* The operation is over: of what it knew, only its outcome matters. *)
Over(f, c, result) == [f EXCEPT ![c] = [NoCall EXCEPT !.pc = "over", !.pin = f[c].pin, !.result = result]]

(* setPin: the command is sent and not awaited, and getPinToken is prepared. *)
SendSetPin(r) ==
    LET c == <<r, "set">>
    IN  /\ call[c].pc = "keyed"
        /\ Encapsulate(c)
        /\ queue' = Append(queue, c)
        /\ stage' = [stage EXCEPT ![r] = "pin"]
        /\ subs' = subs \cup {r}
        /\ UNCHANGED <<hashOf, token, param, secret, authenticator, history>>

SendGetPinToken(r, s) ==
    LET c == <<r, s>>
    IN  /\ call[c].pc = "keyed"
        /\ Encapsulate(c)
        /\ queue' = Append(queue, c)
        /\ UNCHANGED <<hashOf, request, secret, authenticator, history>>

(* The command is sent with the hash of r's client data as the handler read it
   before the extensions, and pinUvAuthParam computed from the hash of now. *)
\* Mutant: the param is computed before the session gets the request's client data.
ParamTooEarly(r, t, hash) == param' = [param EXCEPT ![r] = [token |-> t, hash |-> hashOf]]
Param(r, t, hash) == param' = [param EXCEPT ![r] = [token |-> t, hash |-> hash]]

(* getPinToken returns.  The first token of a request makes it go on: its client
   data becomes the session's, then the extension asks for a key, or the command
   goes out at once. *)
TokenReturns(r, s) ==
    LET c == <<r, s>>
        t == Decrypt(call[c].peer, c, call[c].under)
        over == Over(call, c, t)
    IN  /\ call[c].pc = "answered"
        /\ call[c].result = "granted"
        /\ IF stage[r] # "pin"
           THEN /\ call' = over
                /\ UNCHANGED <<stage, token, hashOf, param, queue, quiet>>
           ELSE /\ token' = [token EXCEPT ![r] = t]
                /\ hashOf' = r
                /\ IF r \in secret
                   THEN /\ stage' = [stage EXCEPT ![r] = "exts"]
                        /\ call' = Ask(over, <<<<r, "in">>>>, "none")
                        /\ queue' = Append(queue, <<r, "in">>)
                        /\ Begins({<<r, "in">>}, {c})
                        /\ UNCHANGED param
                   ELSE /\ stage' = [stage EXCEPT ![r] = "command"]
                        /\ call' = [over EXCEPT ![<<r, "command">>].pc = "sent"]
                        /\ queue' = Append(queue, <<r, "command">>)
                        /\ Param(r, t, r)
                        /\ UNCHANGED quiet
        /\ UNCHANGED <<platformKey, subs, secret, authenticator, alone>>

\* PIN invalid or blocked: reported, and the subscription waits for another.
TokenRefused(r, s) ==
    LET c == <<r, s>>
    IN  /\ call[c].pc = "answered"
        /\ call[c].result # "granted"
        /\ call' = Over(call, c, call[c].result)
        /\ UNCHANGED <<platform, request, secret, authenticator, queue, history>>

\* Mutant: the extension encapsulates with a protocol object of its own.
SendSecretCommandApart(r) ==
    LET c == <<r, "in">>
    IN  /\ call[c].pc = "keyed"
        /\ call' = [call EXCEPT ![c].pc = "over", ![<<r, "command">>].pc = "sent"]
        /\ stage' = [stage EXCEPT ![r] = "command"]
        /\ Param(r, token[r], hashOf)
        /\ queue' = Append(queue, <<r, "command">>)
        /\ UNCHANGED <<platform, subs, token, secret, authenticator, history>>

(* HmacSecretInput.build, and the command with it. *)
SendSecretCommand(r) ==
    LET c == <<r, "in">>
    IN  /\ call[c].pc = "keyed"
        /\ platformKey' = c
        /\ call' = [call EXCEPT ![c].pc = "over", ![<<r, "command">>].pc = "sent"]
        /\ stage' = [stage EXCEPT ![r] = "command"]
        /\ Param(r, token[r], hashOf)
        /\ queue' = Append(queue, <<r, "command">>)
        /\ UNCHANGED <<hashOf, subs, token, secret, authenticator, history>>

(* A request is settled: the session is revoked and all subscriptions end. *)
\* Mutant: the subscriptions stay.
SettleKeepsSubs(r) == /\ stage' = [stage EXCEPT ![r] = "done"]
                      /\ UNCHANGED subs
Settle(r) == /\ stage' = [stage EXCEPT ![r] = "done"]
             /\ subs' = {}

(* The command returns; with hmac-secret, HmacSecretOutput.build asks for the
   authenticator's key again. *)
CommandReturns(r) ==
    LET c == <<r, "command">>
        over == [call EXCEPT ![c].pc = "over"]
    IN  /\ call[c].pc = "answered"
        /\ IF call[c].result = "accepted" /\ r \in secret
           THEN /\ stage' = [stage EXCEPT ![r] = "output"]
                /\ call' = Ask(over, <<<<r, "out">>>>, "none")
                /\ queue' = Append(queue, <<r, "out">>)
                /\ Begins({<<r, "out">>}, {})
                /\ UNCHANGED subs
           ELSE /\ call' = over
                /\ Settle(r)
                /\ UNCHANGED <<queue, quiet>>
        /\ UNCHANGED <<platform, token, param, secret, authenticator, alone>>

OutputBuilt(r) ==
    LET c == <<r, "out">>
    IN  /\ call[c].pc = "keyed"
        /\ call' = [call EXCEPT ![c].pc = "over",
                                ![c].result = Decrypt(call[c].peer, <<r, "in">>, call[<<r, "command">>].under)]
        /\ Settle(r)
        /\ UNCHANGED <<platform, token, param, secret, authenticator, queue, history>>

-----------------------------------------------------------------------------
(* The authenticator answers its messages in order.  It draws a new key when a
   PIN is wrong, which it also takes one to be that it cannot decrypt. *)

Readable(c) == call[c].peer = authKey
Answered(c, result) == call' = [call EXCEPT
    ![c].pc = "answered", ![c].result = result, ![c].under = authKey]

\* Mutant: the key of the authenticator is asked for once and kept.
AnswerKeyOnce(c) ==
    /\ call[c].pc = "asking"
    /\ call' = [call EXCEPT ![c].pc = "keyed"]
    /\ UNCHANGED authenticator

AnswerKey(c) ==
    /\ call[c].pc = "asking"
    /\ call' = [call EXCEPT ![c].pc = "keyed", ![c].peer = authKey]
    /\ UNCHANGED authenticator

AnswerSetPin(c) ==
    /\ c[2] = "set" /\ call[c].pc = "sent"
    /\ call' = Over(call, c, "none")
    /\ pinSet' = (pinSet \/ Readable(c))
    /\ UNCHANGED <<authKey, retries>>

AnswerPin(c) ==
    /\ c[2] \in PinSlots /\ call[c].pc = "sent"
    /\ \/ /\ retries = 0 \/ ~pinSet
          /\ Answered(c, "refused")
          /\ UNCHANGED authenticator
       \/ /\ retries > 0 /\ pinSet
          /\ call[c].pin = "right" /\ Readable(c)
          /\ Answered(c, "granted")
          /\ retries' = MaxRetries
          /\ UNCHANGED <<authKey, pinSet>>
       \/ /\ retries > 0 /\ pinSet
          /\ ~(call[c].pin = "right" /\ Readable(c))
          /\ Answered(c, "invalid")
          /\ retries' = retries - 1
          /\ authKey' = c
          /\ UNCHANGED pinSet

AnswerCommand(c) ==
    LET r == c[1]
        good == /\ param[r] = [token |-> "genuine", hash |-> r]
                /\ r \in secret => Readable(<<r, "in">>)
    IN  /\ c[2] = "command" /\ call[c].pc = "sent"
        /\ Answered(c, IF good THEN "accepted" ELSE "rejected")
        /\ UNCHANGED authenticator

Answer ==
    /\ queue # <<>>
    /\ queue' = Tail(queue)
    /\ LET c == Head(queue)
       IN  AnswerKey(c) \/ AnswerSetPin(c) \/ AnswerPin(c) \/ AnswerCommand(c)
    /\ UNCHANGED <<platform, request, secret, history>>

-----------------------------------------------------------------------------
Next ==
    \/ \E r \in Requests : \/ Begin(r)
                           \/ SendSetPin(r)
                           \/ SendSecretCommand(r)
                           \/ CommandReturns(r)
                           \/ OutputBuilt(r)
    \/ \E r \in Requests, s \in PinSlots : \/ SendGetPinToken(r, s)
                                           \/ TokenReturns(r, s)
                                           \/ TokenRefused(r, s)
    \/ \E p \in {"right", "wrong"} : TypePin(p)
    \/ Answer

Spec == Init /\ [][Next]_vars

-----------------------------------------------------------------------------
TypeOK ==
    /\ platformKey \in Keys
    /\ authKey \in Keys
    /\ hashOf \in Requests \cup {None}
    /\ call \in [Calls -> [pc : {"idle", "asking", "keyed", "sent", "answered", "over"},
                           pin : {"none", "right", "wrong"},
                           peer : Keys, under : Keys,
                           result : {"none", "granted", "invalid", "refused", "genuine",
                                     "garbage", "accepted", "rejected"}]]
    /\ stage \in [Requests -> {"idle", "set", "setting", "pin", "exts", "command", "output", "done"}]
    /\ subs \subseteq {r \in Requests : Pending(r)}
    /\ secret \subseteq Requests
    /\ token \in [Requests -> {"none", "genuine", "garbage"}]
    /\ param \in [Requests -> [token : {"none", "genuine", "garbage"}, hash : Requests \cup {None}]]
    /\ pinSet \in BOOLEAN
    /\ retries \in 0..MaxRetries
    /\ queue \in Seq(Calls)
    /\ quiet \subseteq Calls
    /\ alone \subseteq Requests

(* getPinToken that runs beside no other operation of the PIN protocol: a right PIN
   costs no retry and gives the authenticator's token, also after wrong PINs, for
   which the authenticator has changed its key, and right after setPin, whose command
   nobody awaited. *)
TokenGenuine ==
    \A r \in Requests, s \in PinSlots :
        <<r, s>> \in quiet /\ call[<<r, s>>].pin = "right" =>
            call[<<r, s>>].result \notin {"invalid", "garbage"}

(* The authenticator rejects the command of a request that had the client for
   itself only if the user typed another PIN while the extension was under way:
   the param it carries is of its own token and of its own client data. *)
CommandAccepted ==
    \A r \in alone :
        token[r] = "genuine" /\ (r \in secret => <<r, "in">> \in quiet) =>
            call[<<r, "command">>].result # "rejected"

(* The secrets that hmac-secret returns are the authenticator's, if no other
   operation of the PIN protocol ran between its input and its output. *)
OutputGenuine ==
    \A r \in Requests :
        <<r, "in">> \in quiet => call[<<r, "out">>].result # "garbage"
=============================================================================
