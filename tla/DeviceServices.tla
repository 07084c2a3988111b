--------------------------- MODULE DeviceServices ---------------------------
(***************************************************************************)
(* Discovery of authenticators: the usb, nfc and ble services              *)
(* (src/transports/*/service.ts), one of each in the process, and the      *)
(* enumerations of one client, which start them, listen to them and stop   *)
(* them when the user has selected a device or a request is settled.       *)
(*                                                                         *)
(* usb and nfc poll: a tick compares what is there with a map of what is   *)
(* known.  ble is told of advertisements, connects, and examines the       *)
(* peripheral before it puts it on its map.  Environment actions plug and  *)
(* unplug devices, switch the Bluetooth adapter and drop links.            *)
(***************************************************************************)
EXTENDS Integers, FiniteSets

CONSTANTS
    Devices,         \* keys, cards and peripherals
    Kinds,           \* the transports the devices may have: functions on Devices
    MaxEnumerations, \* enumerations of the client, numbered as they begin
    MaxHandlers,     \* 'discover' handlers of one peripheral that await it
    HandlersEnd      \* a handler that loses the peripheral it awaits never goes on

Transports == {"usb", "nfc", "ble"}

ASSUME ConstantsAssumption ==
    /\ Kinds \subseteq [Devices -> Transports]
    /\ MaxEnumerations \in Nat
    /\ MaxHandlers \in Nat \ {0}
    /\ HandlersEnd \in BOOLEAN

Enumerations == 1..MaxEnumerations

VARIABLES
    kind,      \* transport of every device
    present,   \* devices plugged in, on a reader or in reach
    adapter,   \* the Bluetooth adapter is powered on
    begun,     \* number of enumerations so far
    listening, \* enumerations whose subscriber is open
    awaiting,  \* requests that wait for the user to select a device
    told,      \* last event about a device the client got since it began to await
    opened,    \* what open() made of the selected device, per request
    usb, nfc, ble,  \* the services
    bleStart,  \* how far Ble.device() of an enumeration is
    waiters,   \* enumerations whose start() is subscribed to adapterSubject
    scanFailed, \* history: a start of scanning has failed
    smooth     \* history: nothing has disturbed the scan since the client began to await

client == <<begun, listening, awaiting, told, opened>>
world == <<kind, present, adapter>>
starts == <<bleStart, waiters>>
vars == <<client, world, usb, nfc, ble, starts, scanFailed, smooth>>

Of(k) == {d \in Devices : kind[d] = k}
Untold == [d \in Devices |-> "none"]

-----------------------------------------------------------------------------
(* The events of the services.  A service's subject forgets an event nobody
   listens to. *)

Attach(S) == [d \in Devices |->
    IF d \notin S THEN told[d] ELSE IF told[d] \in {"attach", "twice"} THEN "twice" ELSE "attach"]
Detach(events, S) == [d \in Devices |->
    IF d \notin S THEN events[d] ELSE IF events[d] = "none" THEN "orphan" ELSE "detach"]

\* The enumerations that get the events of ble: start() has returned to them.
Subscribed == {e \in listening : bleStart[e] = "done"}

(* A poll of the usb or nfc service puts `in' on the map and takes `out' off. *)
Events(in, out) == told' = IF listening = {} THEN told ELSE Detach(Attach(in), out)
BleEvents(in, out) == told' = IF Subscribed = {} THEN told ELSE Detach(Attach(in), out)

-----------------------------------------------------------------------------
(* start(), stop() and release() of the services. *)

\* Mutant: the state is not looked at.
UsbStartAlways(s) == [s EXCEPT !.on = TRUE, !.polls = @ + 1]
UsbStart(s) == IF s.on THEN s ELSE [s EXCEPT !.on = TRUE, !.polls = @ + 1]
\* Mutant: the map is not cleared.
UsbReleaseKeepsMap(s) == [s EXCEPT !.polls = 0]
UsbRelease(s) == [s EXCEPT !.polls = 0, !.known = {}, !.missed = {}]
\* Mutant: the state is set and the interval goes on.
UsbStopKeepsPoll(s) == IF s.on THEN [s EXCEPT !.on = FALSE, !.known = {}, !.missed = {}] ELSE s
UsbStop(s) == IF s.on THEN [UsbRelease(s) EXCEPT !.on = FALSE] ELSE s

NfcStart(s) == IF s.on THEN s ELSE [s EXCEPT !.on = TRUE, !.polls = @ + 1]
NfcStop(s) == IF s.on THEN [s EXCEPT !.on = FALSE, !.polls = 0, !.known = {}] ELSE s
NfcRelease(s) == [s EXCEPT !.on = FALSE]

\* The map is kept, and so are the links to the peripherals on it.
\* Mutant: scanning stops and the state stays on.
BleStopStaysOn(s) == IF s.on THEN [s EXCEPT !.scanning = FALSE] ELSE s
BleStop(s) == IF s.on THEN [s EXCEPT !.on = FALSE, !.scanning = FALSE] ELSE s
BleRelease(s) == [s EXCEPT !.link =
    [d \in Devices |-> IF d \in s.known THEN "closing" ELSE s.link[d]]]

\* Nothing is wrong with the scan an enumeration begins with now.
Undisturbed == /\ adapter
               /\ ~scanFailed
               /\ \A e \in Enumerations : bleStart[e] \in {"none", "done"}

Init ==
    /\ kind \in Kinds
    /\ present = {}
    /\ adapter \in BOOLEAN
    /\ begun = 0
    /\ listening = {}
    /\ awaiting = {}
    /\ told = Untold
    /\ opened = [e \in Enumerations |-> "none"]
    /\ usb = [on |-> FALSE, polls |-> 0, known |-> {}, missed |-> {}]
    /\ nfc = [on |-> FALSE, polls |-> 0, known |-> {}, newCards |-> TRUE, oldCards |-> TRUE]
    /\ ble = [on |-> FALSE, scanning |-> FALSE, known |-> {},
              link |-> [d \in Devices |-> "off"], handlers |-> [d \in Devices |-> 0]]
    /\ bleStart = [e \in Enumerations |-> "none"]
    /\ waiters = {}
    /\ scanFailed = FALSE
    /\ smooth = FALSE

-----------------------------------------------------------------------------
(* The client. *)

(* An accepted request subscribes to the device the user will select, and its
   enumeration starts the three services.  Ble.start() returns at once if the
   service is on; otherwise it asks for a scan, or waits for the adapter. *)
Enumerate ==
    LET e == begun + 1
        how == CASE ble.on -> "done"
                 [] ~ble.on /\ adapter -> "scan"
                 [] ~ble.on /\ ~adapter -> "power"
    IN  /\ e \in Enumerations
        /\ begun' = e
        /\ listening' = listening \cup {e}
        /\ awaiting' = awaiting \cup {e}
        /\ told' = IF awaiting = {} THEN Untold ELSE told
        /\ smooth' = IF awaiting = {} THEN Undisturbed ELSE smooth
        /\ usb' = UsbStart(usb)
        /\ nfc' = NfcStart(nfc)
        /\ ble' = [ble EXCEPT !.on = TRUE]
        /\ bleStart' = [bleStart EXCEPT ![e] = how]
        /\ waiters' = IF how = "power" THEN waiters \cup {e} ELSE waiters
        /\ UNCHANGED <<world, opened, scanFailed>>

(* The finalizers of the enumerations in E stop the services.  An enumeration
   that has not got its ble observable yet has no finalizer for it. *)
BleStopFor(E, s) == IF \E e \in E : bleStart[e] = "done" THEN BleStop(s) ELSE s

(* device.next(d): for each waiting request, in the order in which they began,
   first its handler opens d, then takeUntil ends its enumeration. *)
\* Mutant: takeUntil is subscribed before the handler.
OpensAfterEnd(e, d) ==
    LET before == {f \in listening : f <= e}
        cards == IF before = {} THEN nfc.known ELSE NfcStop(nfc).known
    IN  CASE kind[d] = "usb" -> d \in present
          [] kind[d] = "nfc" -> d \in present \cap cards
          [] kind[d] = "ble" -> d \in ble.known
Opens(e, d) ==
    LET before == {f \in listening : f < e}
        cards == IF before = {} THEN nfc.known ELSE NfcStop(nfc).known
    IN  CASE kind[d] = "usb" -> d \in present
          [] kind[d] = "nfc" -> d \in present \cap cards
          [] kind[d] = "ble" -> d \in ble.known

Select(d) ==
    /\ awaiting # {}
    /\ told[d] # "none"
    /\ opened' = [e \in Enumerations |->
          IF e \notin awaiting THEN opened[e] ELSE IF Opens(e, d) THEN "opened" ELSE "failed"]
    /\ usb' = IF listening = {} THEN usb ELSE UsbStop(usb)
    /\ nfc' = IF listening = {} THEN nfc ELSE NfcStop(nfc)
    /\ ble' = BleStopFor(listening, ble)
    /\ listening' = {}
    /\ awaiting' = {}
    /\ UNCHANGED <<begun, told, world, starts, scanFailed, smooth>>

(* A request is settled, or the client released: session.revoke() closes the
   device cli, which releases the services, then the unsubscribed enumerations
   stop them. *)
Settle ==
    /\ begun > 0
    /\ usb' = IF listening = {} THEN UsbRelease(usb) ELSE UsbStop(UsbRelease(usb))
    /\ nfc' = IF listening = {} THEN NfcRelease(nfc) ELSE NfcStop(NfcRelease(nfc))
    /\ ble' = BleStopFor(listening, BleRelease(ble))
    /\ listening' = {}
    /\ awaiting' = {}
    /\ UNCHANGED <<begun, told, opened, world, starts, scanFailed, smooth>>

-----------------------------------------------------------------------------
(* usb: a tick of the 1600 ms interval.  A known key that is still there gets a
   new nonce.  One that is gone has the nonce of an earlier tick: of the last
   one, which may or may not be more than an interval ago by a millisecond, or
   of one before that. *)
UsbPoll ==
    LET keys == present \cap Of("usb")
        gone == usb.known \ keys
    IN  /\ usb.polls > 0
        /\ \E out \in SUBSET gone :
              /\ usb.missed \cap gone \subseteq out
              /\ usb' = [usb EXCEPT !.known = (@ \cup keys) \ out, !.missed = gone \ out]
              /\ Events(keys \ usb.known, out)
        /\ UNCHANGED <<begun, listening, awaiting, opened, world, nfc, ble, starts, scanFailed, smooth>>

(* nfc: service.update() of one of the polls that run.  Every card on a reader is
   emitted; a known one gets a new timestamp, a new one is selected by its AID,
   which may throw and with that end the subscription of new cards for good.
   After the last card, cards whose timestamp is older than the interval are
   removed: those that are gone, but also cards that are there, when selecting
   new ones took longer than that or nobody updates timestamps any more. *)
NfcPoll ==
    LET cards == present \cap Of("nfc")
        new == IF nfc.newCards THEN cards \ nfc.known ELSE {}
    IN  /\ nfc.polls > 0
        /\ \E in \in SUBSET new : \E alive \in BOOLEAN :
              LET old == IF new # {} \/ ~nfc.oldCards THEN nfc.known \cup in ELSE nfc.known \ cards
              IN  /\ alive => in = new
                  /\ ~alive => in # new
                  /\ \E out \in SUBSET old :
                        /\ nfc' = [nfc EXCEPT !.known = (@ \cup in) \ out,
                                              !.newCards = @ /\ alive]
                        /\ Events(in, out)
        /\ UNCHANGED <<begun, listening, awaiting, opened, world, usb, ble, starts, scanFailed, smooth>>

(* service.update() throws: pcsc passes the error to the subject of the cards,
   and a subject that has failed emits nothing more. *)
NfcPollThrows ==
    /\ nfc.polls > 0
    /\ nfc' = [nfc EXCEPT !.newCards = FALSE, !.oldCards = FALSE]
    /\ UNCHANGED <<client, world, usb, ble, starts, scanFailed, smooth>>

-----------------------------------------------------------------------------
(* ble: Ble.device() of an enumeration. *)

(* start() has returned.  If the subscriber was closed in the meantime, the
   finalizer runs as soon as it is added. *)
Resolve(e, s) == /\ bleStart' = [bleStart EXCEPT ![e] = "done"]
                 /\ ble' = IF e \in listening THEN s ELSE BleStop(s)

(* The 8 s are over; the subscription to the adapter stays. *)
PowerTimeout(e) ==
    /\ bleStart[e] = "power"
    /\ Resolve(e, ble)
    /\ UNCHANGED <<client, world, usb, nfc, waiters, scanFailed, smooth>>

(* 'stateChange' to poweredOn: every waiter asks for a scan, those whose start()
   has timed out as well. *)
AdapterOn ==
    LET late == {e \in waiters : bleStart[e] = "done"}
    IN  /\ ~adapter
        /\ adapter' = TRUE
        /\ waiters' = {}
        /\ bleStart' = [e \in Enumerations |-> IF e \in waiters \ late THEN "poweredScan" ELSE bleStart[e]]
        /\ ble' = [ble EXCEPT !.scanning = @ \/ late # {}]
        /\ UNCHANGED <<client, kind, present, usb, nfc, scanFailed, smooth>>

\* Nobody listens to other states: the scan is over and is not started again.
AdapterOff ==
    /\ adapter
    /\ adapter' = FALSE
    /\ ble' = [ble EXCEPT !.scanning = FALSE]
    /\ smooth' = FALSE
    /\ UNCHANGED <<client, kind, present, usb, nfc, starts, scanFailed>>

ScanStarts(e) ==
    /\ adapter
    /\ bleStart[e] \in {"scan", "poweredScan"}
    /\ Resolve(e, [ble EXCEPT !.scanning = TRUE])
    /\ UNCHANGED <<client, world, usb, nfc, waiters, scanFailed, smooth>>

(* startScanningAsync rejects.  In start() itself, Ble.device() rejects and the
   subscriber gets the error: it is closed, its finalizers stop usb and nfc, and
   as it has none for ble that service stays on.  After power-on the rejection
   is nobody's, and start() never returns. *)
ScanFails(e) ==
    /\ bleStart[e] \in {"scan", "poweredScan"}
    /\ bleStart' = [bleStart EXCEPT ![e] = "failed"]
    /\ scanFailed' = TRUE
    /\ smooth' = FALSE
    /\ IF bleStart[e] = "scan" /\ e \in listening
       THEN /\ listening' = listening \ {e}
            /\ usb' = UsbStop(usb)
            /\ nfc' = NfcStop(nfc)
       ELSE UNCHANGED <<listening, usb, nfc>>
    /\ UNCHANGED <<begun, awaiting, told, opened, world, ble, waiters>>

-----------------------------------------------------------------------------
(* ble: peripherals.  The link is "connecting" from connectAsync() until the
   handler has read what it wants to know. *)

\* Mutant: a peripheral that is connecting is connected again.
DiscoverAgain(d) ==
    /\ ble.scanning
    /\ d \in present \cap Of("ble")
    /\ d \notin ble.known
    /\ ble.handlers[d] < MaxHandlers
    /\ ble' = [ble EXCEPT !.link[d] = "connecting", !.handlers[d] = @ + 1]
    /\ UNCHANGED <<client, world, usb, nfc, starts, scanFailed, smooth>>

Discover(d) ==
    /\ ble.scanning
    /\ d \in present \cap Of("ble")
    /\ ble.link[d] \notin {"connecting", "connected"}
    /\ d \notin ble.known
    /\ ble.handlers[d] < MaxHandlers
    /\ ble' = [ble EXCEPT !.link[d] = "connecting", !.handlers[d] = @ + 1]
    /\ UNCHANGED <<client, world, usb, nfc, starts, scanFailed, smooth>>

(* A FIDO2 authenticator: put on the map and reported. *)
Examined(d) ==
    /\ ble.handlers[d] > 0
    /\ ble.link[d] # "off"
    /\ ble' = [ble EXCEPT !.link[d] = IF @ = "connecting" THEN "connected" ELSE @,
                          !.handlers[d] = @ - 1, !.known = @ \cup {d}]
    /\ BleEvents({d}, {})
    /\ UNCHANGED <<begun, listening, awaiting, opened, world, usb, nfc, starts, scanFailed, smooth>>

(* Something else: disconnected. *)
Incompatible(d) ==
    /\ ble.handlers[d] > 0
    /\ ble.link[d] # "off"
    /\ d \notin ble.known
    /\ ble' = [ble EXCEPT !.link[d] = "off", !.handlers[d] = @ - 1]
    /\ UNCHANGED <<client, world, usb, nfc, starts, scanFailed, smooth>>

(* What becomes of the handlers that await a peripheral whose link is lost is up to
   noble: until the 'disconnect' listener is there, nothing in the code ends them.
   They await it for ever, or go on when it is connected again. *)
Awaiting(d) == IF HandlersEnd THEN 0 ELSE ble.handlers[d]

\* Mutant: the lost device is removed and nobody is told.
LinkDropsSilently(d) ==
    /\ ble.link[d] # "off"
    /\ ble' = [ble EXCEPT !.link[d] = "off", !.handlers[d] = Awaiting(d), !.known = @ \ {d}]
    /\ UNCHANGED <<client, world, usb, nfc, starts, scanFailed, smooth>>

(* The link is lost, or closed after release(). *)
LinkDrops(d) ==
    /\ ble.link[d] # "off"
    /\ ble' = [ble EXCEPT !.link[d] = "off", !.handlers[d] = Awaiting(d), !.known = @ \ {d}]
    /\ IF d \in ble.known THEN BleEvents({}, {d}) ELSE UNCHANGED told
    /\ UNCHANGED <<begun, listening, awaiting, opened, world, usb, nfc, starts, scanFailed, smooth>>

-----------------------------------------------------------------------------
Arrive(d) == /\ d \notin present
             /\ present' = present \cup {d}
             /\ UNCHANGED <<client, kind, adapter, usb, nfc, ble, starts, scanFailed, smooth>>
Leave(d) == /\ d \in present
            /\ present' = present \ {d}
            /\ UNCHANGED <<client, kind, adapter, usb, nfc, ble, starts, scanFailed, smooth>>

Next ==
    \/ Enumerate
    \/ \E d \in Devices : Select(d)
    \/ Settle
    \/ UsbPoll
    \/ NfcPoll
    \/ NfcPollThrows
    \/ \E e \in Enumerations : PowerTimeout(e) \/ ScanStarts(e) \/ ScanFails(e)
    \/ AdapterOn
    \/ AdapterOff
    \/ \E d \in Devices : Discover(d) \/ Examined(d) \/ Incompatible(d) \/ LinkDrops(d)
    \/ \E d \in Devices : Arrive(d) \/ Leave(d)

Spec == Init /\ [][Next]_vars

(* Intervals tick, a peripheral that is examined again and again is examined to
   the end, and advertisements are received in the end. *)
FairSpec ==
    /\ Spec
    /\ WF_vars(UsbPoll)
    /\ WF_vars(NfcPoll)
    /\ \A d \in Devices : SF_vars(Discover(d)) /\ SF_vars(Examined(d))

-----------------------------------------------------------------------------
UsbStates == [on : BOOLEAN, polls : 0..1, known : SUBSET Devices, missed : SUBSET Devices]
NfcStates == [on : BOOLEAN, polls : 0..MaxEnumerations, known : SUBSET Devices,
              newCards : BOOLEAN, oldCards : BOOLEAN]
BleStates == [on : BOOLEAN, scanning : BOOLEAN, known : SUBSET Devices,
              link : [Devices -> {"off", "connecting", "connected", "closing"}],
              handlers : [Devices -> 0..MaxHandlers]]
Reports == {"none", "attach", "detach", "twice", "orphan"}

TypeOK ==
    /\ kind \in Kinds
    /\ present \subseteq Devices
    /\ adapter \in BOOLEAN
    /\ begun \in 0..MaxEnumerations
    /\ listening \subseteq awaiting
    /\ awaiting \subseteq 1..begun
    /\ told \in [Devices -> Reports]
    /\ opened \in [Enumerations -> {"none", "opened", "failed"}]
    /\ usb \in UsbStates
    /\ nfc \in NfcStates
    /\ ble \in BleStates
    /\ bleStart \in [Enumerations -> {"none", "power", "poweredScan", "scan", "done", "failed"}]
    /\ waiters \subseteq Enumerations
    /\ scanFailed \in BOOLEAN
    /\ smooth \in BOOLEAN

Known == usb.known \cup nfc.known \cup ble.known

(* What the client is told last is what the services know: a device announced
   and not withdrawn is still on a map when the user selects it, whatever
   requests are settled, links dropped and polls run in the meantime. *)
ToldIsKnown ==
    ~scanFailed => \A d \in Devices :
        listening # {} /\ told[d] \in {"attach", "twice"} => d \in Known

(* A device is announced once, until it has been withdrawn: two 'discover'
   handlers never examine one peripheral, and no poll finds a known device new.
   This rests on noble: a handler that goes on with the next link announces the
   peripheral beside the handler of that link. *)
AttachOnce == HandlersEnd /\ ~scanFailed => \A d \in Devices : told[d] # "twice"

(* While somebody listens exactly one usb poll runs, and none when nobody does,
   although release() stops the poll without turning the service off. *)
UsbServed ==
    ~scanFailed => /\ usb.on <=> listening # {}
                   /\ usb.polls = IF usb.on THEN 1 ELSE 0

(* A client that began to wait with the adapter on, no start of an earlier
   enumeration pending and no scan refused before has its scan on as soon as
   Ble.device() has returned to it, unless the adapter is switched off. *)
BleServed ==
    smooth /\ listening # {} /\ Subscribed = listening => ble.on /\ ble.scanning

(* A device the user selects while it is announced and there is opened by the
   request that waits longest: the services are stopped only after that. *)
SelectionOpens ==
    [][\A d \in Devices : \A e \in listening :
          /\ Select(d)
          /\ told[d] = "attach" /\ d \in present /\ ~scanFailed
          /\ \A f \in listening : e <= f
          => opened'[e] = "opened"]_vars

(* A device that comes into reach of a client that listens is reported to it:
   a key at the next tick, whatever earlier enumerations knew; a card if it is
   not on the map from before; a peripheral that the scan sees unlinked. *)
Discoverable(d) ==
    CASE kind[d] = "usb" -> listening # {}
      [] kind[d] = "nfc" -> listening # {} /\ d \notin nfc.known
      [] kind[d] = "ble" -> Subscribed # {} /\ ble.scanning /\ d \notin ble.known /\ ble.link[d] = "off"
Hindered(d) ==
    \/ d \notin present \/ listening = {} \/ scanFailed
    \/ kind[d] = "nfc" /\ ~nfc.newCards
    \/ kind[d] = "ble" /\ ~ble.scanning
Reported ==
    \A d \in Devices :
        d \in present /\ Discoverable(d) ~> told[d] \in {"attach", "twice", "detach"} \/ Hindered(d)

(* "Turn on nfc service. Find all FIDO2 cards." (src/transports/nfc/service.ts:294):
   a card on a reader is reported to a client that listens. *)
CardsFound ==
    \A d \in Devices :
        d \in present /\ kind[d] = "nfc" /\ listening # {} ~> told[d] # "none" \/ Hindered(d)
=============================================================================
