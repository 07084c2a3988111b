# FIDO2Client in TLA+

FIDO2Client is a Node.js library with which an application registers and asserts
WebAuthn credentials on roaming authenticators over USB HID, Bluetooth LE and NFC.
This directory holds TLA+ models of its control flow, the TLC configurations that
check them on small instances, and TLAPS proofs of their most important
invariants. All line numbers refer to the repository; `PROJECT.json` maps every
definition to the lines it models.

## 1. The system

### Components

| component | source | state it keeps | operations |
|---|---|---|---|
| Request life cycle | `src/client/client.ts`, `client/session.ts` | six RxJS subjects and one `Subscription` per **client object** (shared by all requests), one session (timer, client data hash, device cli) | `makeCredential`, `getAssertion`, `release`; reactions to consent, device, PIN, cancel, error |
| Handlers, default modal | `client.ts:115-299`, `modal/default.ts` | none; an Electron window | turn events of the client into handler calls or IPC messages, answers into `subject.next` |
| Device cli | `fido2/*-device-cli.ts` | `available`, `ongoingTransaction`, `maxMsgSize`, the transport object | `open`, `close`, `cbor`, `cancel`, `console` |
| Transports | `transports/{usb,ble,nfc}/*.ts` | HID channel id and status, notification queue, card response queue | `send`, `recv`, `close` |
| Discovery services | `transports/*/service.ts` | on/off state, map of known devices, one of each service in the **process** | `start`, `stop`, `release`, poll / discover / disconnect callbacks |
| CTAP2 commands | `ctap2/ctap2.ts`, `ctap2/cmd/*` | none | one method per command |
| Client PIN | `ctap2/client-pin.ts` | platform key pair and shared secret of one protocol object | `initialize`, `encapsulate`, `encrypt`, `decrypt`, `authenticate` |
| Extensions | `extension/hmac-secret.ts` | the shared secret of one request | build input, decrypt output |
| Encodings, WebAuthn wrappers, errors, log, crypto, native add-ons | `webauthn/`, `errors/`, `log/`, `crypto/`, `third_party/` | none that lasts | data conversion, platform calls |

### How they interact

A call validates its options, arms a timer in the session, subscribes to the
client's `request`, `device`, `cancel`, `error` and `keepAlive` subjects, and emits
`fido2-event-request`. The handler of the application, or the modal window, answers
through `request.next`. Accepted, the request enumerates devices; a selected device
is opened (`open()` replaces the cli of the one before and closes nothing), its info is
read, and a decision table over
`uv`, `clientPin`, the version and the relying party's `userVerification` chooses
built-in verification, a PIN, setting a new PIN, or none. The credential command is
then sent through the cli: `cbor()` cuts the message into fragments, sends them, and
loops over received messages until an answer or an error. The first settled path
revokes the session (clear timer, close cli), unsubscribes `this.subs` and settles
the promise.

Everything runs on one JavaScript thread: a handler runs to completion, then its
microtasks, then the next event. `node-hid`'s `readTimeout` blocks the thread.

### What is hard

* Subjects, subscriptions, timer, PIN state and cli belong to the client object and
  not to a request: what a request leaves behind meets the next one, and requests
  that overlap share everything.
* Handlers are `async` functions nobody awaits: a throw in one settles nothing.
* Events come in any order: cancel before a cli is open, a second PIN while a first
  is being checked, a device selected again, an answer after `close()`.
* `cbor()` must survive keep-alives, busy errors, silence, frames of other programs
  and of earlier clis, and its `ongoingTransaction` flag decides what cancel does.
* The services are started by every enumeration and stopped by every end of one, and
  `release()` of usb and nfc undoes only half of `start()`; `Ble.device()` awaits the
  adapter for up to 8 s while the client goes on.
* One ECDH key pair serves all PIN operations, and `encapsulate()` replaces it while
  others wait for an answer made for the old one.
* Framing has two counters (masked in the sender, not in the receiver), padding, and
  on BLE notifications that may be lost.

The properties below come from these points; `PROJECT.json` lists them as hazards
with their lines and the properties that would notice them going wrong.

## 2. The modules

| module | what it is | EXTENDS / INSTANCE |
|---|---|---|
| `Ceremony` | abstract specification: what one call promises caller and user | - |
| `Fido2Client` | life cycle of requests on one client object | `C == INSTANCE Ceremony WITH phase <- ..., result <- outcome` |
| `MCFido2Client` | sets of authenticators for TLC | `Fido2Client` |
| `Fido2ClientProofs` | TLAPS proofs about `Fido2Client`: types, verification | `Fido2Client`, `TLAPS` |
| `RequestLifeProofs` | what a settled request leaves; the refinement of `Ceremony` | `Fido2ClientProofs` |
| `PinEntryProofs` | PIN prompts and PIN calls in console mode | `RequestLifeProofs` |
| `PendingHeardProofs` | settled requests that go on, on usb | `RequestLifeProofs` |
| `CtapTransaction` | `cbor()`, `cancel()`, `open()`, `close()` over whole messages, against an authenticator | - |
| `CtapTransactionProofs` | TLAPS proofs about `CtapTransaction` | `CtapTransaction`, `SequenceTheorems`, `TLAPS` |
| `Framing` | one message cut into fragments and joined again | - |
| `MCFraming` | payload sizes for TLC | `Framing` |
| `FramingProofs` | TLAPS proofs about `Framing` | `Framing`, `TLAPS` |
| `DeviceServices` | usb, nfc and ble service, and the enumerations of a client | - |
| `MCDeviceServices` | devices and their transports for TLC | `DeviceServices` |
| `DeviceServicesProofs` | TLAPS proofs about `DeviceServices` | `DeviceServices`, `TLAPS` |
| `ClientPin` | keys, tokens and hashes of the PIN protocol and of hmac-secret | - |
| `MCClientPin` | symmetry of the requests for TLC | `ClientPin` |
| `ClientPinProofs` | TLAPS proofs about `ClientPin` | `ClientPin`, `SequenceTheorems`, `TLAPS` |

The concrete layers meet at narrow interfaces. `Fido2Client` sees a device
call as something that starts, sets `ongoingTransaction`, and ends with an answer or
a failure (`StartCalls`, `EndCall`). `CtapTransaction` shows what one such call does
and when the flag is cleared. `CtapTransaction` sees whole messages; `Framing` shows
that `recv()` returns whole messages or throws. `DeviceServices` opens up the step
`DeviceAttached` of `Fido2Client`, `ClientPin` the steps from the PIN to the
credential command.

### Ceremony and Fido2Client

The state of a request is `pc` (where its continuation stands), `outcome` (the
caller's promise), `wants`, `plan`, `method` (how the user was verified), and
membership of `accepted`, `sent`, `lost`, `blocked`. The shared state is `subs`
(`this.subs`), `kaSubs` (keep-alive subscriptions, which the code does not put
there), `armed` and `timeoutRef` (`session.timeout`), `available` and `ongoing` (the
cli), `callOn` (whether the calls of a request run on the open cli, one replaced by
another, or a closed one), counters of PIN calls in flight, and in console mode the
unanswered handler calls.

| action | code |
|---|---|
| `Call`, `CallRefused` | `makeCredential`/`getAssertion` up to the consent event (`client.ts:642-727`, `877-911`) |
| `Accept`, `Deny` | subscription of `request` (`:717-770`, `:895-948`) |
| `DeviceAttached`, `SelectDevice` | enumeration; `open()` and `getInfo` (`:420-432`, `:544-553`) |
| `InfoAnswered`, `RetriesRead`, `HandlerThrows` | the rest of the device handler (`:429-541`) |
| `PinAvailable`, `HandlerGivesNothing`, `TokenGranted`, `PinInvalid`, `PinInvalidReported`, `PinBlocked`, `TokenFails` | PIN entry (`:397-412`, `ctap2.ts:106-160`) |
| `SetPinReturns`, `UnawaitedReturns` | `setPin`, whose command is not awaited (`:511-523`, `ctap2.ts:135-151`) |
| `Decide` | `internalGetPinUvAuthToken` (`:366-419`) |
| `MakeExtensionsInput`, `ExtensionsBuilt`, `ExtensionsOutput` | extensions (`:305-365`) |
| `SendCredentialCommand`, `CredentialReturns`, `CredentialParsed`, `CommandFails` | the command, its result and its catch (`:752-831`, `:948-1040`) |
| `CancelEvent`, `ErrorEvent`, `TimerFires`, `Release` | `onCancel`, `onError`, the timer, `release()` |

Actions whose `pc` is in `Microtask` run before any event (`NoMicrotask`): that is
JavaScript's run-to-completion. The console-mode switch has no `break` where a
handler is missing and falls through to the next case; `Ask` models this.

### CtapTransaction

A transport is chosen in `Init`. Calls are made on the cli opened last, unless it is
closed. `open()` closes nothing: the clis before it keep their handles, their
subscriptions and their calls, so that several may use one authenticator. A call is `init`
(HID channel allocation), `send`, `recv`, `pause` (sleep after keep-alive or busy) or
ended. Every cli has a queue of received frames; `linked` says which clis receive: a HID
handle from its opening until it is closed, a ble cli from its first message until the
link is gone (`Disconnected`, at any time). The authenticator executes at most one call,
may answer, refuse, keep alive, report busy, or stay silent; other programs' frames reach
every HID handle. `extras` is the parity of the keep-alives, busy errors and frames of
other programs, whose number nothing limits. `ongoing` holds the clis whose
`ongoingTransaction` is set. `HostFree` models the blocking HID read: on USB nothing
of the host runs while a call receives.

`muddled` is a history variable: the clis on which a call was made while an earlier one,
of this cli or on ble and nfc of another one, was unanswered, which on usb and ble a call
that failed may stay (`Rivals`). The code gives
them no means to tell the answers apart, and `AnswerBelongs` and `WaitingCancellable` say
nothing of them. On usb the channel tells the answers of two clis apart, and neither an
open cli before this one nor a closed one makes a cli muddled.

### Framing

A byte is its position in the message, so that "the right bytes in the right places"
is `intact`, and a fragment is where its payload starts and how long it is. The sender
is `send()`, and at the same time the authenticator, whose responses have the same
format.

### DeviceServices

A device is a key, a card or a peripheral (`kind`), there or not (`present`), and known
to its service or not. A service is a record: `usb` and `nfc` have `on` (the state),
`polls` (running intervals) and `known` (the map); `ble` has `on`, `scanning`, `known`,
and per peripheral its `link` and the `handlers` of 'discover' that await it. `told` is
the last event the client got about a device since it began to wait.

Before a 'discover' handler registers its 'disconnect' listener (`ble/service.ts:165`)
nothing in the code ends it when the link is lost; whether it goes on with the next link
depends on noble. The constant `HandlersEnd` says that it does not. The run `services`
assumes it, and so does `AttachOnce`, by name; the theorems about the other properties
do not. Without it TLC finds a peripheral that is discovered, lost, discovered again and
announced by both handlers.

| action | code |
|---|---|
| `Enumerate` | `enumerate()`, and `start()` of the three services (`client.ts:547`, `fido2-device-cli.ts:94-99`, `ble/service.ts:195-237`) |
| `Select` | `device.next`: each waiting request opens the device (`client.ts:422-427`), then `takeUntil` ends its enumeration, whose finalizers stop the services |
| `Settle` | `session.revoke()`: `close()` and with it `release()` of the services (`fido2-device-cli.ts:84-88`), then `unsubscribe()` |
| `UsbPoll` | the 1600 ms interval (`usb/service.ts:42-97`) |
| `NfcPoll`, `NfcPollThrows` | `service.update()` and the subscriptions of new, old and removed cards (`nfc/service.ts:147-288`, `pcsc/index.ts:120-128`) |
| `PowerTimeout`, `AdapterOn`, `ScanStarts`, `ScanFails` | the ways `Ble.device()` goes on (`ble/service.ts:48-52`, `211-235`) |
| `Discover`, `Examined`, `Incompatible`, `LinkDrops` | the 'discover' and 'disconnect' handlers (`ble/service.ts:53-186`) |
| `Arrive`, `Leave`, `AdapterOff` | the user and the adapter |

### ClientPin

Keys are symbolic: a platform key is named by the operation that called `encapsulate()`
last, a key of the authenticator by the wrong PIN after which it was drawn. What was
encrypted under one pair of keys is garbage under another. An operation is
`<<request, slot>>`: the PIN slots are calls of `getPinToken`, `set` is `setPin`, `in` and
`out` are the two sides of hmac-secret, `command` the credential command. `platformKey`
and `hashOf` (`session.clientDataHash`) are shared by all.

| action | code |
|---|---|
| `Begin`, `TypePin` | subscriptions of the `pin` subject (`client.ts:400-411`, `511-523`): one PIN starts an operation per subscription |
| `SendSetPin`, `SendGetPinToken` | `encapsulate` and the command (`ctap2.ts:135-181`, `client-pin.ts:111-117`) |
| `TokenReturns`, `TokenRefused` | `decapsulate`, `decrypt`, and what the request does with the token (`client.ts:401-409`, `742-771`) |
| `SendSecretCommand`, `OutputBuilt` | `HmacSecretInput.build`, `HmacSecretOutput.build` (`hmac-secret.ts:35-52`, `69-87`) |
| `CommandReturns` | `client.ts:772-831` |
| `Answer` | the authenticator, which answers its messages in order |

## 3. Checks

Passing runs (TLC, exhaustive on the instance):

| run | instance | what it shows |
|---|---|---|
| `console` | 2 successive requests, all handlers registered, BLE, all 36 option records, `release()` at any time, `FairSpec` | `VerifiedWhenRequired`: no command without the verification the relying party wants. `ReleasedAfterSettle`, `NoSubscriptionAfterSettle`: nothing of a settled request is left on the client. `PinPromptHeard`: a PIN prompt has a reader. `BlockedStopsGuessing`: no getPinToken after a block. `CeremonySpec`: the refinement. `EventuallySettled`: a promise settles, or is stranded in one of the ways the model names. |
| `modal_usb` | 2 successive requests, default modal, USB; the window may send a PIN, a device, cancel or error at any time | the same safety, and `PendingHearsErrors`: an approved pending request never loses its error listener to an earlier one. |
| `transactions` | 2 calls, 2 clis that may be open side by side, any number of keep-alives, busy errors and other programs' frames, each of the three transports; `FairSpec` | `AnswerBelongs`: a call returns the answer to its own command. `WaitingCancellable`: `ongoingTransaction` is set while a call waits. `CallsEnd`: if the keep-alives and busy errors come to an end, every call ends. |
| `framing` | sizes 0..20, payloads of 1 to 3 bytes, modulus 4, 2 foreign packets | `Intact`: what is returned is the message. `ShortMessagesArrive`: `recv()` fails only for a lost, late or foreign fragment or a wrapped sequence number. `RecvEnds`. |
| `services` | 2 devices of one transport, or a key and a peripheral; 2 enumerations that may overlap; adapter, links, devices and scans come and go; `FairSpec` | `ToldIsKnown`: what was announced can be opened. `AttachOnce`: no device is announced twice. `UsbServed`, `BleServed`: one poll, and a scan, while somebody listens. `SelectionOpens`: the services are stopped only after the selected device was opened. `Reported`: what arrives is reported. |
| `client_pin` | 2 requests that may overlap, 2 PINs each, 2 retries, with or without hmac-secret | `TokenGenuine`: a right PIN costs no retry and gives the token, also after wrong ones and after the `setPin` nobody awaited. `CommandAccepted`: `pinUvAuthParam` is of the request's own token and client data. `OutputGenuine`: the secrets are the authenticator's. Each under the condition, followed by the model, that no other operation of the protocol ran in between. |

Each passing property has a mutated definition in its module (a dropped guard, a
missing reset, a swapped order) under which the same run fails.

Violation runs: the repository says something the code does not do.

| run | says | does |
|---|---|---|
| `timeout_rejects` | `tests/event.spec.ts:226-229`: a request with a timeout is rejected when it is over | the timeout event is dropped by `modal.subscribe` (`client.ts:267-282`); nothing rejects |
| `settled_leaves_device` | `client.ts:597` "Revoke client session, disconnect all fido2 device." | `Ble.close` does nothing; a settled request's continuation can command the next one's device |
| `one_answer_one_request` | `docs/api/fido2-client.md:34`: resolve `true` to accept **this** request | one answer accepts every pending request |
| `cancel_not_lost` | `client.ts:583` raises the cancel when there is no transaction | the flag stays set after a failed call, and the cancel goes to an idle authenticator |
| `cards_found` | `transports/nfc/service.ts:294`: "Turn on nfc service. Find all FIDO2 cards." | `release()` leaves the poll and the map: a card on a reader since an earlier request is not reported to the next |
| `keep_alive_status` | `docs/api/fido2-client.md:76-81`: status 1 or 2 | a busy error falls through and emits its code 6 (`hid-fido2-device-cli.ts:90-103`) |

Two more divergences are plain from the code and have no run. The keep-alive
subscription (`client.ts:727`, `:905`) is not in `this.subs`, so "Unsubscribe all
subscription." (`:602`, `:791`) leaves it: `kaSubs` of `Fido2Client` keeps it until
`release()`, and every later keep-alive is emitted once more. And `onSetPin`
(`docs/api/fido2-client.md:50`) is never run: where a PIN has to be set,
`client.ts:521` emits 'fido2-event-enter-pin'.

### Bounds, and why they are enough

* Two requests: everything a request can leave behind (timer, subscription, cli, call
  in flight, retry counter) is met by the one after it. A third meets only the union
  of the same leftovers. Overlapping requests are allowed only in the run that
  refutes `one_answer_one_request`; `VerificationHolds` is proved for any number of
  overlapping requests.
* `MaxPinCalls` = 1 and `MaxPrompts` = 1 bound PIN calls and unanswered handlers of one
  request in flight at once; `MaxTries` = 2 lets a PIN be wrong once and then block.
* `Authenticators` is every record of the options that the code reads in `console`;
  elsewhere it is reduced to the kinds the question needs.
* `transactions`: an answer can be mistaken only for that of another call on the
  same cli, of another cli, or of another program; two calls and two clis give every such
  pair. `MaxQueue` = 1: an extra frame is sent only while no linked cli has an unread one,
  so that it may come before or after each answer; their number is unlimited. The
  safety properties were checked with three calls once as well (10.9 million states).
* `framing`: with modulus 4 the sequence number wraps at 5 continuation fragments, within
  the 20 bytes; first and later fragments differ in size, as in the code; sizes hit
  every remainder, among them 0, exact fill and one more.
* `services`: the services know enumerations only as "somebody listens", and a device only
  by its own state, so two enumerations (one that leaves something behind, or is still
  starting, and one that meets it) and two devices (one that disturbs, one that is
  disturbed) give every pair. `MaxHandlers` = 2 is one more than the code allows under
  `HandlersEnd`; without it the safety properties other than `AttachOnce` were checked
  once as well (790,000 states). The
  safety properties are proved for any number of each.
* `client_pin`: a key is replaced by another operation of the same request (a second PIN)
  or of another request; `PinSlots` and `Requests` have two members for these. Two
  retries let a PIN be wrong and right again, or wrong until blocked.

### Fairness

`Fido2Client!FairSpec`: microtasks run, calls of a device end with an answer or a
failure (what `CallsEnd` shows, under its assumption), a device is found while
somebody enumerates, handlers settle the promises they return, and (strong fairness)
a user who is shown a device again and again selects it in the end. Nothing is
assumed of the timer, of `release()`, of cancel or of the caller.
`CtapTransaction!FairSpec`: the host reads frames that are there, its timeouts and
sleeps expire; the authenticator may stop at any time. `CallsEnd` assumes in addition
`FinitelyManyExtras`, that the authenticator does not send keep-alives, busy errors, 61xx
or 91xx for ever, and that other programs' frames stop. The `while (true)` of `cbor()`
(`hid-fido2-device-cli.ts:67-103`, ble and nfc alike) waits 30 s anew after each of them
and bounds them by nothing: without the assumption TLC finds a call that never ends on
each of the three transports. `EventuallySettled` leans on the same assumption.
`Framing!FairSpec`: the same for `recv()` of one finite message. `DeviceServices!FairSpec`: intervals tick (weak fairness of the two
polls), and a peripheral that is advertised, or examined, again and again is in the end
(strong fairness of `Discover` and `Examined`: the adapter receives with losses). Nothing
is assumed of users, adapter, scans and requests. `ClientPin` has no liveness property:
`CallsEnd` and `EventuallySettled` speak of the same calls.

## 4. Proofs

The eight `...Proofs` modules are checked by TLAPS, for every value of the constants that
satisfies the `ConstantsAssumption` of the component (which TLC evaluates in every run;
that of `ClientPin` says among other things that the set of requests is finite). Every
invariant and action property that a passing run checks is stated by a theorem, and so
is the refinement. Some theorems about `Fido2Client` have a hypothesis on its constants
(`~Overlap`, ...). These are conditions of the run that checks the property, and never
more than those; what goes wrong without one, where something does, is said below.

### Request life cycle

* `Fido2ClientProofs!TypeCorrect == Spec => []TypeOK`: among other things the counters
  of calls in flight and the PIN retries never go below zero. One lemma per action,
  combined over the disjuncts of `Next`.
* `VerificationHolds == Spec => []VerifiedWhenRequired`: a credential command goes out
  only after the verification the relying party wants, for any number of
  **overlapping** requests, any authenticators, either mode. The property is not
  inductive: it says nothing of a request before its command. `VerifiedInv` adds what
  holds on the way there: a request in `ready`, `exts` or `send` (and one that has
  sent) has a method other than `none` if it wants verification; the plan `none` is
  chosen only if it does not; the PIN path leaves only through a granted token.
* `ReleasedHolds` (`~Overlap`): when the last promise has settled, no timer, open device,
  call on it or listener is left, in either mode, with `release()` at any moment.
  `revoke()` clears one timer only, the one `session.timeout` holds; `ReleaseInv` adds
  that no other is armed, which is true of a new call because nobody waited before it.
  Every step either ends the session (`Ends`) or settles nothing and starts nothing in
  a released one (`Calm`). With overlapping calls the first timer is forgotten.
* `NoSubscriptionHolds` (`~Overlap`, `~DefaultModal`): not even a PIN subscription is left.
  `LifeInv` ties each subscription and each answer to the place of the continuation,
  `ConsoleInv` says that a settled request is through. With the default modal the window
  may report an error while a device call runs; its late answer then subscribes the settled
  request to PINs (TLC shows it: `ErrorEvent`, `RetriesRead`, `Decide`). With
  overlapping calls in console mode no counterexample is known; the proof does not say.
* `CeremonyHolds` (`~Overlap`, `~DefaultModal`): the client implements `Ceremony`, `Spec =>
  CeremonySpec`. The initial states map to the initial state, and each action to a step
  of `Ceremony` or a stutter; what the mapping needs is `CommandsPending`: a request that
  goes on to its command is pending, and so is one whose credential is about to reach the
  caller. In console mode it follows from `ConsoleInv`.
* `CeremonyUsbHolds` (`~Overlap`, `Transport = "usb"`): the same with the default modal,
  where a settled request may have prompts and device calls open. `StaleInv` says
  where it may stand: its calls are on a closed device, which on usb gives no answer any
  more, or its getPinUvAuthToken promise is lost, so that no answer leads to a command.
  It rests on `RunsInv` (the calls of a pending request run on the open device, or on
  one `release()` closed), `MicroInv` (one continuation runs at a time, but for two that
  got a new PIN by the same event) and `EarlyInv` (no PIN call before the PIN is asked
  for). On BLE closing a device stops no answer, and a request that was rejected can
  send its command after all; that is the finding of `settled_leaves_device`.
* `PendingHearsHolds` (`~Overlap`, `~MayRelease`, and `~DefaultModal` or usb): an approved
  pending request keeps its error listener. `HearInv` adds that a request that is asked
  for consent has one; that no settled request takes it away is `CommandsPending`
  again, because only a finished or failed command unsubscribes everything. `release()`
  unsubscribes everything by itself.
* `BlockedStopsHolds` (`~Overlap`, `~DefaultModal`, whatever handlers are given): a blocked
  request makes no further getPinToken call (an action property). `PinInv`: of prompts
  and PIN calls of a request at most one is under way, a blocked request has none, and
  who waits for a PIN is subscribed unless the client tore its subscriptions down.
  Where `onRequest` or `onDeviceAttached` is missing (`~AnswersConsent`) `UnservedInv`
  says that nobody gets as far as a PIN.
* `PinPromptHolds` (the same, and `AnswersConsent`): from `PinInv`, a PIN prompt has a
  reader. A missing handler falls through to the next case of the switch, so that
  without `onDeviceAttached` an attached device opens a PIN prompt nobody reads.

### Transactions

* `CtapTransactionProofs!TypeCorrect`: with the types, that command, code and channel of
  every frame fit each other, and a cli never opened has an empty queue.
* `CancellableHolds == Spec => []WaitingCancellable`: while a call waits, the flag is set. It
  is inductive with `OneUnanswered`: on a cli that is not muddled one call at most has
  not got its answer, so no other one clears the flag.
* `AnswerBelongsHolds == Spec => []AnswerBelongs`, for any number of calls, of clis open
  side by side, and of extra frames, on each transport. On usb and ble `EndingInv`: the
  queue of a cli that is not muddled and still read (`Live`) holds at most one frame that
  ends a transaction, and it is of the call that waits for it (or waited until it failed),
  which the authenticator executes no more. Whether a frame that is appended keeps this
  depends on what the authenticator executes (`DeviceInv`), on who hears of it
  (`LinkInv`), and on ble, where every subscribed cli gets every notification, on no other
  subscribed cli having an unanswered call (`LineInv`). On nfc `CardInv`: the reader has
  one frame at most and the card works for the call that waits, so that GET RESPONSE
  fetches no other call's data; `CollectInv` follows the parts collected so far.

### Framing

* `BytesHold` proves `BytesInv`, from which `IntactHolds == Spec => []Intact`
  and `TypeCorrect` follow, for every message, payload size and modulus. `Intact`
  speaks only of the end; `BytesInv` follows the bytes on the way: each fragment under
  way starts where the one before it ends (`Joined`), the next one read starts where
  the result stands (`ReadFollows`), the next one cut starts where the last one ends
  (`CutFollows`). After a loss "where" becomes "not before", and a result with a gap
  stays behind what is to come (`GapStays`), so it never fills up and `recv()` never
  returns it. The proof does not use the comparison of sequence numbers: where
  fragments are only lost, and neither duplicated nor reordered, the length of the
  message alone protects it, and the comparison only makes `recv()` fail sooner.
* `ShortMessagesHold == Spec => []ShortMessagesArrive`: `ArriveInv` adds that the fragments
  of an undisturbed line carry the numbers `recv()` counts (`Numbered`, from
  `CutSum`, which bounds the number of fragments before the modulus wraps), and that
  `recv()` goes on only while something is missing (`NotFull`, `LastUnderWay`).

### Services

* `ToldIsKnownHolds`, `AttachOnceHolds`, `UsbServedHolds`, `BleServedHolds`,
  `SelectionOpensHolds` and `TypeCorrect`, for any devices, transports and number of
  overlapping enumerations,
  follow from one inductive invariant `IInv`. `UsbInv`: the usb service is on just when
  somebody listens, and then has one interval. `BleInv`: under `HandlersEnd` a peripheral
  has a handler only while its link is "connecting", and then one, and is not on the map;
  this is what makes a second announcement impossible although `discover` checks before it
  awaits. No other property needs `HandlersEnd`.
  `StartInv`: a ble service that is on with nobody listening has a start still pending,
  which will stop it. `ToldInv` adds to `ToldIsKnown` that a withdrawal will be heard;
  `SmoothInv` that an undisturbed start is the only one pending. All but the types are
  claimed only until a start of scanning has failed (`scanFailed`), after which the ble
  state is on with nothing behind it.

### Client PIN

For any finite set of requests that may overlap, any PIN slots and retries. `StageInv` ties
the operations of a request to its stage: none starts before its turn, and only the PIN
operations may outlast it.

* `TokenGenuineHolds`: `QuietInv` says that beside an operation that was quiet so far no
  other is under way that could draw a key; `TokenInv` that the keys a right PIN is
  encrypted under are then still those of both sides, when it is sent and when the
  token is decrypted, whatever wrong PINs came before.
* `OutputGenuineHolds`: `SecretInv`, the same for hmac-secret, whose secret must last from
  the input over the credential command to the output.
* `CommandAcceptedHolds`: `AloneInv`: the session holds the client data of a request that has
  the client for itself, and its command carries its own token.
* `TypeCorrect`.

### Only model-checked

The liveness properties (`EventuallySettled`, `CallsEnd`, `RecvEnds`, `Reported`): they
need fairness and so ENABLED, which TLAPS does not treat here. The refinement of
`Ceremony` with the default modal on ble and nfc is not claimed: it is false there, for the
reason given above.

## 5. Abstractions and what is left out

* Data: credentials and CBOR fields are not modelled; a credential is the fact that a
  command was answered. Client data and keys are identities in `ClientPin` and absent
  elsewhere. A PIN is right or wrong by choice of its user (`ClientPin`) or of the
  authenticator (`Fido2Client`).
* `getAssertion` with several credentials issues `getNextAssertion` calls at once;
  `Fido2Client` has one call for the batch. `CtapTransaction` covers calls that
  overlap, on one cli or on several that share the ble link or the card, but claims
  `AnswerBelongs` and `WaitingCancellable` only for clis that are not `muddled`. What
  happens to the others is no promise of the code. An NFC call that goes on after
  `close()`, which is empty, is covered as long as no other one uses the card meanwhile.
* In `Fido2Client` a USB device call may interleave with events although a HID read
  blocks: the model has more behaviours than the code, and its properties hold in all.
* `callOn` follows the calls of a request as a group: those in flight move together
  to `former` or `closed` when the cli is replaced or closed.
* The modal's renderer is an unconstrained sender of events; which of them a given
  window page sends is not modelled.
* `ping`, `wink`, `msg` are called nowhere and left out.
* `DeviceServices`: one client object. The `transports` option, which filters events, is
  left out. Time is left out: whether a card's timestamp or a key's nonce is too old is a
  choice among the outcomes the intervals allow. A connection that fails is a
  lost link (`LinkDrops`). A peripheral that connects and then refuses to be read stays
  connected and is not discovered again; the fairness of `Examined` excludes it.
* `ClientPin`: an answer goes to the call that asked (`AnswerBelongs`), the authenticator
  answers in order, `getInfo` is folded into the steps around it. `changePin` is called
  nowhere.
* Not modelled: CBOR and WebAuthn encodings, errors, log,
  crypto, native add-ons (pure conversion or external).

## 6. Plan

1. `Ceremony`, `Fido2Client` with proofs of `TypeOK` and `VerifiedWhenRequired` (done).
2. `CtapTransaction`, and `Framing` with proofs of all its safety properties (done).
3. `DeviceServices` with proofs of its safety properties (done).
4. `ClientPin` (done).
5. `ModalWindow`: the window of the default modal (`modal/default.ts:111-146`), which an
   event may open twice while it loads.
6. Theorems: every safety property that a passing run checks, and the refinement of
   `Ceremony` in console mode and on usb (done). Next: the refinement with overlapping
   requests, for as much of `Ceremony` as holds there (`Overlap` is refuted for one answer
   per request only); the window of item 5 with its theorem.
