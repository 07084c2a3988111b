--------------------------- MODULE CtapTransaction ---------------------------
(***************************************************************************)
(* A CTAP2 command on its way: cbor() and cancel() of the three device     *)
(* clis (fido2/hid-, ble- and nfc-fido2-device-cli.ts) over whole          *)
(* messages of their transports.  A cli object is opened, carries calls    *)
(* and is closed; the authenticator outlives it, and so may the calls.     *)
(*                                                                         *)
(* A HID read blocks the whole program (node-hid readTimeout), so on usb   *)
(* nothing else of the host runs while a call is receiving: guard          *)
(* HostFree.  On ble and nfc receiving is a poll of a queue.               *)
(***************************************************************************)
EXTENDS Naturals, FiniteSets, Sequences

CONSTANTS
  Kinds,      \* the transports considered
  MaxCalls,   \* cbor() calls, numbered in the order they are made
  MaxClis,    \* device cli objects, numbered in the order they are opened
  MaxQueue    \* bound: frames a cli has yet to read when an extra one is sent

ASSUME ConstantsAssumption ==
  /\ Kinds \subseteq {"usb", "ble", "nfc"}
  /\ MaxCalls \in Nat \ {0}
  /\ MaxClis \in Nat \ {0}
  /\ MaxQueue \in Nat \ {0}

Calls == 1..MaxCalls
Clis == 1..MaxClis

VARIABLES
  kind,      \* the transport of the authenticator
  cli,       \* the cli object opened last, 0 before the first
  closed,    \* clis whose close() was called
  linked,    \* clis that receive what the authenticator sends
  status,    \* Usb.status of a cli: has its channel been allocated?  Ble.ready
  ongoing,   \* clis whose ongoingTransaction is set
  queue,     \* frames a cli received and has not read
  on,        \* the cli a call was made on, 0 before it is made
  pc,        \* where a call stands
  answer,    \* the calls whose response data a call has collected
  device,    \* the call the authenticator is executing, 0 if none
  extras,    \* frames sent beside the answers: odd or even
  emitted,   \* what the keepAlive subject emitted last
  muddled    \* history: clis that may get the answer to another's command

cliVars    == <<cli, closed, linked, status, ongoing>>
callVars   == <<on, pc, answer, emitted, muddled>>
deviceVars == <<device, extras>>
vars == <<kind, cliVars, callVars, deviceVars, queue>>

Waiting == {"init", "send", "recv", "pause"}
Ended   == {"returned", "refused", "failed"}

(* Commands of frames.  A cbor frame tells success from the other status     *)
(* bytes, an error frame the codes onError treats alike; "status" is either  *)
(* of the two keep-alive statuses, which nothing tells apart.                *)
ErrorCodes == {"busy", "unlisted", "fatal"}
Codes == {"ok", "error", "none", "status"} \cup ErrorCodes
Commands == {"cbor", "error", "keepAlive", "cancel", "init", "more"}

(* Channel of a frame: the cli it is for, 0 broadcast, MaxClis + 1 another   *)
(* program's.                                                                *)
Broadcast == 0
Foreign == MaxClis + 1
Frames == [cmd : Commands, code : Codes, call : 0..MaxCalls, chan : 0..Foreign]

Frame(cmd, code, c) ==
  [cmd |-> cmd, code |-> code, call |-> c, chan |-> on'[c]]

(* A keep-alive, a busy error or another program's frame: nothing limits     *)
(* their number, and each is a step of its own.                              *)
ExtraFrame == extras' = 1 - extras
RoomForExtra == \A g \in linked : Len(queue[g]) < MaxQueue

HostFree == kind = "usb" => \A c \in Calls : pc[c] \notin {"init", "send", "recv"}

-----------------------------------------------------------------------------
Init ==
  /\ kind \in Kinds
  /\ cli = 0
  /\ closed = {}
  /\ linked = {}
  /\ status = [g \in Clis |-> "unavailable"]
  /\ ongoing = {}
  /\ queue = [g \in Clis |-> << >>]
  /\ on = [c \in Calls |-> 0]
  /\ pc = [c \in Calls |-> "new"]
  /\ answer = [c \in Calls |-> {}]
  /\ device = 0
  /\ extras = 0
  /\ emitted = "none"
  /\ muddled = {}

(* Mutated form of Deliver: one queue for every cli of the device. *)
DeliverToAll(frame) == queue' = [g \in Clis |-> Append(queue[g], frame)]

(* A report reaches every open HID handle, whatever its channel; a BLE       *)
(* notification the cli subscribed to it.                                    *)
Deliver(frame) ==
  queue' = [g \in Clis |-> IF g \in linked THEN Append(queue[g], frame) ELSE queue[g]]

-----------------------------------------------------------------------------
(* Fido2DeviceCli.open and close *)

(* The device cli is replaced; the one before is not closed, and its handle, *)
(* its subscription and its calls go on.  A new HID handle receives at once, *)
(* a ble cli from its first message on.                                      *)
Open ==
  /\ HostFree
  /\ cli < MaxClis
  /\ cli' = cli + 1
  /\ linked' = IF kind = "usb" THEN linked \cup {cli + 1} ELSE linked
  /\ UNCHANGED <<kind, closed, status, ongoing, callVars, deviceVars, queue>>

(* close() closes a HID handle; Ble.close() and Nfc.close() do nothing. *)
Close ==
  /\ HostFree
  /\ cli # 0
  /\ cli \notin closed
  /\ closed' = closed \cup {cli}
  /\ linked' = IF kind = "usb" THEN linked \ {cli} ELSE linked
  /\ UNCHANGED <<kind, cli, status, ongoing, callVars, deviceVars, queue>>

(* The ble link is lost, or is down some time after Ble.release(), which     *)
(* Fido2DeviceCli.close calls and which starts to disconnect every           *)
(* peripheral.  With the link go the subscriptions, and the command the      *)
(* authenticator was executing.                                              *)
Disconnected ==
  /\ kind = "ble"
  /\ linked # {}
  /\ linked' = {}
  /\ device' = 0
  /\ UNCHANGED <<kind, cli, closed, status, ongoing, callVars, extras, queue>>

-----------------------------------------------------------------------------
(* The authenticator gets a request *)

Ignored == UNCHANGED <<device, queue>>

(* usb and ble: it starts on the command, gives up another one for it,       *)
(* answers that it is busy, or misses it.  A message on the broadcast        *)
(* channel is no command.                                                    *)
Requested(c) ==
  \/ /\ kind = "usb" => status'[on'[c]] = "initialized"
     /\ device' = c
     /\ UNCHANGED queue
  \/ /\ device # 0
     /\ UNCHANGED device
     /\ Deliver(Frame("error", "busy", c))
  \/ Ignored

(* nfc: the card's response to an APDU of cli g, which it executes for c, is *)
(* the result of transmit() and goes to the queue `before'.  A status word   *)
(* without data is not queued; 61xx announces more, 91xx is a keep-alive.    *)
Responds(g, c, before) ==
  LET Queued(cmd, code) ==
        queue' = [queue EXCEPT ![g] =
          Append(before, [cmd |-> cmd, code |-> code, call |-> c, chan |-> g])]
  IN \/ /\ c # 0
        /\ device' = 0
        /\ \E code \in {"ok", "error"} : Queued("cbor", code)
        /\ UNCHANGED extras
     \/ /\ c # 0
        /\ ExtraFrame
        /\ device' = c
        /\ Queued("more", "none") \/ Queued("keepAlive", "status")
     \/ /\ device' = 0
        /\ queue' = [queue EXCEPT ![g] = before]
        /\ UNCHANGED extras

-----------------------------------------------------------------------------
(* cbor() until the request is sent *)

(* A command that is sent, and whose answer may still come: a card answers   *)
(* while the APDU is transmitted, so nothing comes after a failed nfc call.  *)
Unanswered(d) == pc[d] \in Waiting \/ (pc[d] = "failed" /\ kind # "nfc")

(* Clis whose calls may mix with one made now on the open cli: they share    *)
(* its channel, on ble the notifications, on nfc the card.                   *)
Rivals ==
  {g \in 1..cli :
     \/ /\ \E d \in Calls : on[d] = g /\ Unanswered(d)
        /\ g = cli \/ kind = "nfc" \/ (kind = "ble" /\ g \in linked)
     \/ kind = "ble" /\ g \in linked \cap muddled}

Make(c) ==
  /\ HostFree
  /\ pc[c] = "new"
  /\ \A d \in Calls : d < c => pc[d] # "new"
  /\ cli # 0
  /\ cli \notin closed       \* console rejects when the cli is not available
  /\ on' = [on EXCEPT ![c] = cli]
  /\ ongoing' = ongoing \cup {cli}
  /\ muddled' = IF Rivals = {} THEN muddled ELSE muddled \cup Rivals \cup {cli}
  /\ UNCHANGED <<kind, cli, closed, answer, emitted>>

(* The serialized request is longer than maxMsgSize.  The first command of   *)
(* a cli, authenticatorGetInfo, never is.                                    *)
TooLarge(c) ==
  /\ Make(c)
  /\ \E d \in Calls : on[d] = cli
  /\ pc' = [pc EXCEPT ![c] = "failed"]
  /\ UNCHANGED <<linked, status, device, extras, queue>>

(* send() puts the message on its way or throws. *)
Sent(c) ==
  \/ pc' = [pc EXCEPT ![c] = "recv"] /\ Requested(c)
  \/ pc' = [pc EXCEPT ![c] = "failed"] /\ Ignored

(* The first message of a HID cli: CTAPHID_INIT on the broadcast channel,    *)
(* which the authenticator answers, refuses or misses.                       *)
SendInit(c) ==
  /\ Make(c)
  /\ kind = "usb"
  /\ status[cli] = "unavailable"
  /\ status' = [status EXCEPT ![cli] = "initializing"]
  /\ pc' = [pc EXCEPT ![c] = "init"]
  /\ \/ \E cmd \in {"init", "error"} :
          Deliver([cmd |-> cmd, code |-> IF cmd = "init" THEN "none" ELSE "busy",
                   call |-> c, chan |-> Broadcast])
     \/ UNCHANGED queue
  /\ UNCHANGED <<linked, device, extras>>

SendUsb(c) ==
  /\ Make(c)
  /\ kind = "usb"
  /\ status[cli] # "unavailable"
  /\ UNCHANGED <<linked, status, extras>>
  /\ Sent(c)

(* The first message of a ble cli subscribes to the status characteristic,   *)
(* or throws; without the link a write throws.                               *)
SendBle(c) ==
  /\ Make(c)
  /\ kind = "ble"
  /\ UNCHANGED extras
  /\ \/ /\ status[cli] = "unavailable"
        /\ status' = [status EXCEPT ![cli] = "initialized"]
        /\ linked' = linked \cup {cli}
     \/ UNCHANGED <<linked, status>>
  /\ IF cli \in linked' THEN Sent(c)
     ELSE pc' = [pc EXCEPT ![c] = "failed"] /\ Ignored

(* transmit() answers or throws. *)
SendNfc(c) ==
  /\ Make(c)
  /\ kind = "nfc"
  /\ UNCHANGED <<linked, status>>
  /\ \/ /\ pc' = [pc EXCEPT ![c] = "recv"]
        /\ Responds(cli, c, queue[cli])
     \/ /\ pc' = [pc EXCEPT ![c] = "failed"]
        /\ Ignored /\ UNCHANGED extras

-----------------------------------------------------------------------------
(* The receive loop of cbor() *)

Ends(c, how) == pc' = [pc EXCEPT ![c] = how]

(* onCbor / onSuccess: any status but success throws. *)
OnCbor(c, f) ==
  /\ ongoing' = ongoing \ {on[c]}
  /\ answer' = [answer EXCEPT ![c] = @ \cup {f.call}]
  /\ Ends(c, IF f.code = "ok" THEN "returned" ELSE "refused")
  /\ UNCHANGED emitted

(* Mutated form of OnKeepAlive: the flag is cleared for every frame. *)
OnKeepAliveClears(c, code) ==
  /\ emitted' = code
  /\ Ends(c, "pause")
  /\ ongoing' = ongoing \ {on[c]}
  /\ UNCHANGED answer

(* The keepAlive subject emits, and the loop sleeps. *)
OnKeepAlive(c, code) ==
  /\ emitted' = code
  /\ Ends(c, "pause")
  /\ UNCHANGED <<ongoing, answer>>

(* A frame the loop throws for. *)
Throws(c) == Ends(c, "failed") /\ UNCHANGED <<ongoing, answer, emitted>>

(* onError throws for the codes it lists, except busy.  The others fall      *)
(* through into the keep-alive case, which reads the code as a status.       *)
OnError(c, f) == IF f.code = "fatal" THEN Throws(c) ELSE OnKeepAlive(c, f.code)

(* Mutated form of Mine: frames of other channels are not filtered. *)
MineAny(g, f) == TRUE

(* recv() takes the frames of its channel and every error frame. *)
Mine(g, f) ==
  \/ f.cmd = "error"
  \/ f.chan = IF status[g] = "initialized" THEN g ELSE Broadcast

(* Call c reads the next frame of its cli's queue.  A closed HID handle      *)
(* reads nothing.                                                            *)
Reads(c) ==
  /\ kind = "usb" => on[c] \notin closed
  /\ queue[on[c]] # << >>
  /\ UNCHANGED <<kind, cli, closed, linked, on, muddled>>

Incoming(c) == Head(queue[on[c]])

Consumed(c) == queue' = [queue EXCEPT ![on[c]] = Tail(@)]

(* The answer to CTAPHID_INIT gives the cli its channel. *)
ReceiveInit(c) ==
  /\ pc[c] = "init"
  /\ Reads(c)
  /\ LET f == Incoming(c)
     IN IF f.cmd = "init" /\ f.chan = Broadcast /\ f.call = c
        THEN Ends(c, "send") /\ status' = [status EXCEPT ![on[c]] = "initialized"]
        ELSE Ends(c, "failed") /\ UNCHANGED status
  /\ Consumed(c)
  /\ UNCHANGED <<ongoing, answer, emitted, deviceVars>>

(* The command the channel was allocated for. *)
SendAfterInit(c) ==
  /\ pc[c] = "send"
  /\ UNCHANGED <<kind, cliVars, on, answer, emitted, muddled, extras>>
  /\ Sent(c)

ReceiveUsb(c) ==
  /\ kind = "usb"
  /\ pc[c] = "recv"
  /\ Reads(c)
  /\ LET f == Incoming(c)
     IN \/ ~Mine(on[c], f) /\ Throws(c)
        \/ Mine(on[c], f) /\ f.cmd = "cbor" /\ OnCbor(c, f)
        \/ Mine(on[c], f) /\ f.cmd = "error" /\ OnError(c, f)
        \/ Mine(on[c], f) /\ f.cmd = "keepAlive" /\ OnKeepAlive(c, f.code)
        \/ Mine(on[c], f) /\ f.cmd \notin {"cbor", "error", "keepAlive"} /\ Throws(c)
  /\ Consumed(c)
  /\ UNCHANGED <<status, deviceVars>>

ReceiveBle(c) ==
  /\ kind = "ble"
  /\ pc[c] = "recv"
  /\ Reads(c)
  /\ LET f == Incoming(c)
     IN \/ f.cmd = "cbor" /\ OnCbor(c, f)
        \/ f.cmd = "error" /\ OnError(c, f)
        \/ f.cmd = "keepAlive" /\ OnKeepAlive(c, f.code)
        \/ /\ f.cmd = "cancel"
           /\ ongoing' = ongoing \ {on[c]}
           /\ Ends(c, "refused")
           /\ UNCHANGED <<answer, emitted>>
  /\ Consumed(c)
  /\ UNCHANGED <<status, deviceVars>>

(* 61xx: keep the data and ask for the rest; 91xx: recv() returns, what it   *)
(* collected is dropped, and the loop starts over without sleeping.          *)
ReceiveNfc(c) ==
  /\ kind = "nfc"
  /\ pc[c] = "recv"
  /\ Reads(c)
  /\ LET f == Incoming(c)
         ContinueResponse == Responds(on[c], device, Tail(queue[on[c]]))
     IN \/ /\ f.cmd = "cbor"
           /\ OnCbor(c, f)
           /\ Consumed(c)
           /\ UNCHANGED deviceVars
        \/ /\ f.cmd = "more"
           /\ answer' = [answer EXCEPT ![c] = @ \cup {f.call}]
           /\ ContinueResponse
           /\ UNCHANGED <<pc, ongoing, emitted>>
        \/ /\ f.cmd = "keepAlive"
           /\ answer' = [answer EXCEPT ![c] = {}]
           /\ emitted' = f.code
           /\ ContinueResponse
           /\ UNCHANGED <<pc, ongoing>>
  /\ UNCHANGED status

(* Mutated form of ReceiveFails: receiving has no timeout. *)
ReceiveNeverTimesOut(c) ==
  /\ pc[c] \in {"init", "recv"}
  /\ kind = "usb" /\ on[c] \in closed
  /\ Ends(c, "failed")
  /\ UNCHANGED <<kind, cliVars, on, answer, emitted, muddled, deviceVars, queue>>

(* The receive timeout of 30 s without a frame, or a read of a closed HID    *)
(* handle: recv() throws, and ongoingTransaction stays set.                  *)
ReceiveFails(c) ==
  /\ pc[c] \in {"init", "recv"}
  /\ queue[on[c]] = << >> \/ (kind = "usb" /\ on[c] \in closed)
  /\ Ends(c, "failed")
  /\ UNCHANGED <<kind, cliVars, on, answer, emitted, muddled, deviceVars, queue>>

(* The sleep of the loop is over. *)
Resume(c) ==
  /\ HostFree
  /\ pc[c] = "pause"
  /\ Ends(c, "recv")
  /\ UNCHANGED <<kind, cliVars, on, answer, emitted, muddled, deviceVars, queue>>

-----------------------------------------------------------------------------
(* cancel() of the open cli *)

(* The authenticator ends what it executes, on usb for this channel: with a  *)
(* status, on ble perhaps with a CANCEL frame.  Otherwise there is nothing   *)
(* to cancel.  cancel() of an nfc cli does nothing.                          *)
Cancel ==
  /\ HostFree
  /\ cli \in ongoing
  /\ kind # "nfc"
  /\ cli \notin closed
  /\ device # 0
  /\ IF kind = "usb" THEN on[device] = cli ELSE cli \in linked
  /\ device' = 0
  /\ \/ Deliver([cmd |-> "cbor", code |-> "error", call |-> device, chan |-> on[device]])
     \/ /\ kind = "ble"
        /\ Deliver([cmd |-> "cancel", code |-> "none", call |-> device, chan |-> on[device]])
  /\ UNCHANGED <<kind, cliVars, callVars, extras>>

-----------------------------------------------------------------------------
(* The authenticator, usb and ble *)

Executing == kind # "nfc" /\ device # 0

DeviceAnswers ==
  /\ Executing
  /\ device' = 0
  /\ \/ \E code \in {"ok", "error"} :
          Deliver([cmd |-> "cbor", code |-> code, call |-> device, chan |-> on[device]])
     \/ Deliver([cmd |-> "error", code |-> "fatal", call |-> device, chan |-> on[device]])
  /\ UNCHANGED <<kind, cliVars, callVars, extras>>

DeviceKeepsAlive ==
  /\ Executing
  /\ RoomForExtra
  /\ ExtraFrame
  /\ Deliver([cmd |-> "keepAlive", code |-> "status", call |-> device, chan |-> on[device]])
  /\ UNCHANGED <<kind, cliVars, callVars, device>>

(* Another program uses the same HID authenticator: every handle sees it.    *)
ForeignFrame ==
  /\ kind = "usb"
  /\ RoomForExtra
  /\ ExtraFrame
  /\ \/ Deliver([cmd |-> "cbor", code |-> "ok", call |-> 0, chan |-> Foreign])
     \/ \E code \in {"busy", "unlisted"} :
          Deliver([cmd |-> "error", code |-> code, call |-> 0, chan |-> Foreign])
  /\ UNCHANGED <<kind, cliVars, callVars, device>>

-----------------------------------------------------------------------------
HostStep(c) ==
  \/ ReceiveInit(c) \/ SendAfterInit(c)
  \/ ReceiveUsb(c) \/ ReceiveBle(c) \/ ReceiveNfc(c)
  \/ ReceiveFails(c) \/ Resume(c)

Next ==
  \/ Open \/ Close \/ Disconnected \/ Cancel
  \/ DeviceAnswers \/ DeviceKeepsAlive \/ ForeignFrame
  \/ \E c \in Calls :
       \/ TooLarge(c) \/ SendInit(c) \/ SendUsb(c) \/ SendBle(c) \/ SendNfc(c)
       \/ HostStep(c)

Spec == Init /\ [][Next]_vars

(* The event loop runs what is ready: frames that arrived are read, receive  *)
(* timeouts and sleeps expire.  The authenticator may stop at any time.      *)
FairSpec == Spec /\ \A c \in Calls : WF_vars(HostStep(c))

-----------------------------------------------------------------------------
TypeOK ==
  /\ kind \in Kinds
  /\ cli \in 0..MaxClis
  /\ closed \subseteq 1..cli
  /\ linked \subseteq 1..cli
  /\ status \in [Clis -> {"unavailable", "initializing", "initialized"}]
  /\ ongoing \subseteq 1..cli
  /\ queue \in [Clis -> Seq(Frames)]
  /\ \A g \in Clis : g > cli => queue[g] = << >>
  /\ on \in [Calls -> 0..cli]
  /\ pc \in [Calls -> {"new"} \cup Waiting \cup Ended]
  /\ answer \in [Calls -> SUBSET (0..MaxCalls)]
  /\ device \in 0..MaxCalls
  /\ device # 0 => on[device] # 0
  /\ extras \in 0..1
  /\ emitted \in {"none", "status"} \cup ErrorCodes
  /\ muddled \subseteq 1..cli

(* A call that returns data returns the answer to its own command and no     *)
(* other's: not one left over from a call of another cli, not one for        *)
(* another program's channel, and whether or not its cli has been closed.    *)
(* Only of the clis that calls were mixed on, by a call made on the same     *)
(* channel, link or card while an earlier one was unanswered, nothing is     *)
(* said.                                                                     *)
AnswerBelongs ==
  \A c \in Calls :
    pc[c] = "returned" /\ on[c] \notin muddled => answer[c] = {c}

(* While a call waits for its answer the cli has a transaction to cancel:    *)
(* cancel(), which Fido2Client.onCancel calls, asks ongoingTransaction and   *)
(* throws without it.                                                        *)
WaitingCancellable ==
  \A c \in Calls :
    pc[c] \in Waiting /\ on[c] \notin muddled => on[c] \in ongoing

(* From some moment on the authenticator sends no keep-alive, busy error or  *)
(* 61xx or 91xx status, and other programs' frames stop.                     *)
FinitelyManyExtras == \E n \in {0, 1} : <>[](extras = n)

(* cbor() settles, with an answer or without one and whether or not its cli  *)
(* is closed meanwhile, if it gets finitely many keep-alives and busy        *)
(* errors.  With endlessly many it need not: its while (true) waits 30 s     *)
(* anew after each, and nothing bounds them all together.                    *)
CallsEnd ==
  FinitelyManyExtras => \A c \in Calls : pc[c] \in Waiting ~> pc[c] \in Ended

(* What the keepAlive subject gives to onKeepAlive is a status of            *)
(* docs/api/fido2-client.md: 1 (processing) or 2 (user presence needed).     *)
DocumentedStatuses == emitted \in {"none", "status"}
=============================================================================
