# Lyv: a verification project

Lyv is an iOS app in Swift. A signed-in user sees *beacons* (a title, a
description, a picture and a place) as nodes of an augmented-reality scene,
creates beacons, edits them and removes them. Accounts live in Firebase Auth,
users and beacons in a Firebase Realtime Database that all devices share. There
is no server code of its own: every rule of the app is enforced by the app, in
completions that run whenever the network lets them.

This directory holds TLA+ models of that behaviour, the TLC configurations that
check them on small instances, and proofs, checked by TLAPS, of what holds for
instances of any size. `PROJECT.json` says for every definition which lines of
`src/` it stands for.

Run `tlc -config X.cfg M` and `tlapm M.tla` in this directory; the table of
runs below gives the pairs.

## 1. Inventory

The paths are relative to `src/Lyv/Lyv/` unless they start with `Pods/`.

| Component | State it keeps | Operations | Status |
|---|---|---|---|
| **Account session**: `AppDelegate`, `Models/User`, `Services/UserService`, `LandingController`, `LoginController`, `SignUpController`, `ProfileController` (logout) | `Auth.currentUser`, `AccessToken.current` (both in the keychain), `User._current`, the archived user in `UserDefaults`, `users/<uid>` in the database | launch, email login, sign-up, Facebook login, logout, `show`, `create`, `updateUserValues`, `getBeacons` | modelled: `Session` |
| **Shared beacons**: `Services/BeaconService`, `Models/Beacon`, `HomeController`, `ProfileController`, `UpdateController` | `beacons/<key>` in the database, the copies in Home, Profile and Update | fetch, create, update, remove, navigation | modelled: `Beacons`, `PatientUser`; drawing and distances are not |
| **Realtime database client**: `FRepo`, `FPersistentConnection`, `FWriteTree`, `FSyncTree` under `Pods/FirebaseDatabase` | write tree and its cache of visible writes, `outstandingPuts`, `putsToAck`, `listens`, `unackedListensCount` | `setValue`, `observeSingleEvent`, restore, responses | modelled as far as the app uses it: `RealtimeDatabase`, `WriteTree`, `RemoteWrites` |
| **Firebase connection**: `FPersistentConnection`, `FConnection`, `FIRRetryHelper`, `FAuthTokenProvider`, and the current user of `FirebaseAuth` | `connectionState`, `realtime`, `interruptReasons`, the scheduled retry, the token fetch under way, `authToken`, `forceAuthTokenRefresh` | open, interrupt and resume, retry, fetch a token, refused and revoked tokens, loss, the server's kill | modelled without delays: `PersistentConnection` |
| **Home's AR scene**: `HomeController`, `Pods/ARCL/.../SceneLocationView` | the view's list of location nodes, the children of the scene's root, which the render thread creates | add and remove nodes, tap, leave and return | modelled: `HomeScene`; pictures and lines of the nodes are not |
| **Scene location estimates**: `Pods/ARCL/.../SceneLocationManager`, `LocationNode` | pairs (GPS fix, scene position), a timer, node positions | add an estimate, drop old ones, best estimate, place nodes, run, pause | modelled on one axis: `SceneLocation` |
| **Beacon geometry**: `Models/Beacon.setSizeFrom`, `Helpers/Helper.resizeImage` | none | arithmetic on sizes | not modelled: straight-line floating-point arithmetic without state |
| **Beacon creation screen**: `BeaconController` | | | the file holds only NUL bytes at this commit; its effect (`BeaconService.create`) is in `Beacons` |
| **Details screen**: `DetailsController` | the beacon shown | back | its segues are in `Beacons`; it changes nothing else |
| **Former login screen**: `OldLoginController` | | | unreachable: no storyboard names it |
| **Views and utilities** | layout | alerts, keyboard | not modelled: no state another part reads |
| **Facebook and Firebase Auth SDKs** | tokens in the keychain | log in, sign in, sign out, fetch and renew access tokens | what the login flows see of them is in `Session`, what the connection sees in `PersistentConnection` |
| **Kingfisher and the other pods** | | | vendored; the app reads no result of theirs |
| **Tests** | | | empty templates |

### How the parts interact

* Controllers call services; services call Firebase with a closure; the closure
  runs later on the main queue and captures the controller, or a `User` object.
  A controller that has left its window still gets its completion.
* `User.current` is a static variable read by Profile and Update and by the
  completion of `getBeacons`. It is set by the three login flows, by launch and
  by the completion of `updateUserValues`. Logging out does not clear it.
* Firebase Auth posts every change of the current user's access token to the
  database client, on the client's own queue; the client also asks Firebase Auth for
  one each time it opens a connection.
* Home hands a *copy* of its list to Profile (`prepare(for:sender:)`), Profile
  hands one beacon to Update. Nothing is refreshed when the database changes:
  all reads are `observeSingleEvent`.
* All reads and writes of a device go through one connection. Writes are visible
  locally at once, are queued while offline and are sent again after a lost
  connection. Observers of the same location share one listen.

### What is hard, and what makes each part correct

* *Session.* Three copies of "who is using the app" and no comparison between
  them; login chains of up to five asynchronous steps, two of which may be under
  way at once, and each of which may fail after the one before took effect; kills between
  any two steps; the Facebook token survives a logout.
  Correct means: `User.current` never hits its `fatalError`; memory and archive
  agree; the screens act for the account that is signed in; a beacon list never
  reaches another account; creating a record never overwrites one.
* *Shared beacons.* Every screen works on a stale copy; the uid on an edited
  beacon and its key come from different times; a list is read under writes that
  are still queued. Correct means: a beacon never changes its owner, an edit
  starts from the current text, a removed beacon stays removed, a list that was
  asked for arrives, a beacon has the place where it was made.
* *Database client.* Lost connections between a put, its effect and its reply;
  puts that are applied twice; completions that are held back while a listen is
  unanswered; a refused token closes a connection that others are using. Correct
  means: the two books on pending writes agree, a reported success is real, the
  order of a client's writes survives, a read never hides a pending
  write of the client, and every put is answered in the end.
* *Connection.* Five things close it or keep it closed (loss, refused or revoked
  tokens, interruptions, the server's kill, a failed fetch) and each must schedule
  exactly one retry; token fetches of different attempts and users overlap; tokens are
  posted while one is being fetched. Correct means: it comes back unless interrupted,
  nothing is sent on a closed connection, none is opened twice, the server knows it by
  the account that is signed in, and a refused token is refreshed before the next one is offered.
* *Scene.* The root node is created and filled on the render thread while the main
  thread adds and removes nodes; views are added each time Home appears and old ones
  are never removed; a tap is matched by title. Correct means: the scene shows the
  nodes the view has, and a tap opens the beacon that was hit.
* *Estimates.* Where the user is follows from an old fix and the camera's movement
  since; the timer drops fixes by distance while the render thread adds one. Correct
  means: an estimate stays as accurate as it was, and nodes stand where their beacons
  are, or in their direction.

`PROJECT.json` lists each hazard with its line and the properties that cover it.

## 2. The modules

### `Session` — one device's account life cycle

| Variable | In the code |
|---|---|
| `accounts`, `users` | Firebase Auth's accounts; `users/<uid>` (server) |
| `auth`, `fbToken`, `saved` | `Auth.auth().currentUser`, `AccessToken.current`, `UserDefaults "currentUser"`: survive a kill |
| `heap`, `current` | `User` objects and `User._current` (a class: identity matters, the completion of `updateUserValues` captures the object) |
| `screen` | the controller on screen, `"off"` when the app does not run |
| `calls` | each outstanding asynchronous call: the step it waits for, the button that began it, the account, the controller and object it captured |
| `puts` | `setValue` calls on `users/<uid>` not yet acknowledged, in order |

Actions are taps (`TapLogin`, `TapSignUp`, `TapFacebook`, `TapUpdate`, `Logout`),
navigation (`Present`, `Dismiss`, `OpenProfile`, `Navigate`), completions
(`FacebookReturns`, `AccountFound`, `AuthReturns`, `ShowReturns`, `RereadReturns`,
`BeaconsReturn`, the failing ones, `PutAcked`, `PutRejected`) and the
environment (`Launch`, `Kill`, `TokenRevoked`). `Slots` bounds the calls under way.

Firebase Auth logs in with two requests: the first checks or makes the account
(`AccountFound`), the second reads its information (`AuthReturns`, which is when
`Auth.currentUser` changes). `AuthFails` is the first one refused, or carried out with
its answer lost; `InfoFails` is the second one failing, after the account was made. A
Facebook or email login reports that failure, but `createUser` drops the error
(`FIRAuth.m:959`) and makes its missing user the current one: nobody is signed in.

A beacon list is abstracted to the *set of accounts* its keys belong to: that is
all the properties ask. `assertionFailure` is a no-op, as in a release build.

`CarefulSession` adds the history variable `careful`: it stays true as long as the
user waits for every completion before changing the account, the app is not killed
on a login screen while signed in, and Firebase does not sign the user out by
itself. `Agreement`, `BeaconsStayPrivate` and `CreateNeverOverwrites` are
claims about that use only; without it each of them fails (a completion of
`updateUserValues` that runs after the next login puts the previous account back,
`UserService.swift:43`), and nothing in the repository promises them there.

`RecordsFollow` needs no careful user: an account is `Stranded` when it has neither a
record nor a login that will write one, and then email login only ever fails for it.
The property names the steps that do this: a kill, and the requests *for this account*
that may fail: one of the login's own two (`AuthFails`, `InfoFails`), the write of the
record, and the read that comes before it. What it rules out is that a login is harmed by
another one under way, by a dismissed controller, or by the failure of a request for
another account.

### `Beacons` and `PatientUser` — the shared list on several devices

`db` is `beacons/` at the server, `creator` a history variable. Each device has
its user (`who`), its screen, the three copies (`home`, `profile`, `form`), the
queue of writes (`pend`) and the shared listen (`listening`, `answer`,
`waiting`: who waits for it). `Arrive` calls all waiting observers with the
answer under the writes still queued, which is what the write tree of the
database client does; `RealtimeDatabase` models that client in detail.

`Reply` contains the late effect of `updateUserValues` on `User.current`, for a
refused write too. `Restart` loses the queue, of which the server may have
applied any prefix. `CreateBeacon` models `BeaconService.create`; its caller,
`BeaconController`, cannot be read at this commit, so it is assumed to have a
location and the user's input. A new key is drawn from 28 random characters,
modelled as a key never drawn before.

* `CarefulSpec`: the account is not changed while the write of an edited user's record
  is unanswered (`Settled`); reads and writes of beacons may be. In `Spec` the completion
  of that write changes `who` back between Profile and Update, and `OneOwner` fails: the
  condition is exactly that late completion.
* `PatientUser` restricts the use further: one device at a time for an account,
  Home is left for Profile only when its list arrived, Profile is left after an
  edit, no refusals. The restriction is the content: without any one of the
  conditions the form edits an older text, or a removed beacon comes back
  (`UpdateController.swift:98` edits the beacon Profile kept).

### `RealtimeDatabase` and `RemoteWrites` — the Firebase client

One action per entry point: `Set`, `Observe`, `ChangeToken` (the app),
`Connect`, `Disconnect`, `Kill` (the environment), `ServeAuth`, `ServePut`,
`ServeListen` (the server, external), `ReceiveAuth`, `ReceiveData`,
`ReceiveListen`, `ReceivePut` (the response callbacks of
`FPersistentConnection`). `writes`, `outstanding`, `toAck`, `listens` and
`unacked` are `FWriteTree`, `outstandingPuts`, `putsToAck`, `listens` and
`unackedListensCount`. A write is its client, number and location, and stands for
its value too.

Which token a connection has is left to `PersistentConnection`. Here `Connect`
may or may not send one first (`authenticating`); the listens and puts are restored
after the answer, or at once. A listen is sent as soon as there is a connection, a put
only once it is authenticated; a refused token closes the connection. `ChangeToken` is a
token posted while there is a connection; while there is none it changes nothing that is
modelled here.

`RemoteWrites` is the abstract specification: a write takes effect only between
its call and its completion, possibly more than once, and a completion without
error means it took effect. `KeepsPromise == RemoteWrites!Spec` with the history
variables `status` and `applied` is checked and proved.

### `WriteTree` — the cache of visible writes

`FWriteTree` answers reads from a compound write it keeps beside the list of pending
writes and changes piecemeal: a new write is laid over it, the removal of a write that
hides an older one rebuilds it from the list, the removal of a hidden one leaves it
alone (`removeWriteId`). The module adds that cache, `visible`, to `RealtimeDatabase`;
`CacheIsExact` says it always shows what looking through the list would; this is checked and
proved. Rebuilding (`Layers`) and the completions of several writes (`Removals`) are
recursive functions over the numbers of the writes. Its
specification is `RealtimeDatabase`'s with one more variable, so the run checks the
properties of both.

### `PersistentConnection` — opening, authenticating, reconnecting

| Variable | In the code |
|---|---|
| `state`, `realtime` | `connectionState`; the `FConnection` |
| `reasons` | `interruptReasons` |
| `scheduled` | `retryHelper.scheduledRetry`, with the `forceRefresh` its block captured |
| `attempt`, `fetches` | `currentFetchTokenAttempt`; calls of `getTokenForcingRefresh` without an answer |
| `authToken`, `forceRefresh` | `authToken`, `forceAuthTokenRefresh` |
| `user`, `cached`, `events` | Firebase Auth's current user and its access token; what it dispatched to the client's queue |
| `epoch`, `session` | server: which tokens it accepts, and the one the connection has |
| `up`, `down` | requests and messages about tokens |
| `stray`, `overtaken` | history: the user changed since the latest attempt asked for a token; `authToken` came with the answer to such an attempt (until the next posted token is taken) |
| `refused`, `forgotten` | history: tokens the client was told are not accepted; since the last of these refusals a forced refresh was not made |

The client's blocks run one at a time on its queue and are one action each: `Open`,
`GoOffline`, `GoOnline`, `Nudge` (foreground or reachable again), `Retry`, `OnToken`,
`OnReady`, `ConnectFails`, `Lose`, `OnKill`, `RefreshAuthToken`, `ReceiveAuth`,
`OnAuthRevoked`. Firebase Auth has its own queue: `SignIn`, `SignOut`, `Renew`,
`AnswerCached`, `AnswerRefreshed`, `FetchFails`. `Expire`, `Serve` and `Revoke` are the
server. A token is its account and the epoch it was issued in; the server accepts the
present epoch's.

`IsDatabaseLink` ties the two models of one class together: seen as `RealtimeDatabase`
with a client that reads and writes nothing, every behaviour of `PersistentConnection` is
one of `RealtimeDatabase!Spec`. The refinement mapping drops which token was sent and keeps
the state, what is on the wire and when a connection is closed. `RealtimeDatabase` has a
bound on faults that the handlers here do not know; `ManyFaults` is that bound, 100 in the
run, which has fewer.

### `HomeScene` — the nodes of the AR scene

| Variable | In the code |
|---|---|
| `above` | the screens pushed on Home in the navigation controller |
| `waiting`, `due` | completions of `BeaconService.beacons` that wait for the server, and that wait for the main queue |
| `list`, `nodes` | `HomeController.beacons`, `SceneLocationView.locationNodes` |
| `todo`, `adding`, `clearing` | how far the handler on the main thread is |
| `root`, `snap`, `children` | `sceneNode` and its `didSet`, the nodes `didSet` has read and not yet added, the children of `sceneNode` |
| `fresh`, `raced` | history: no list came on top of existing nodes; nodes were removed during `didSet` |

Two threads: the main thread (`Complete`, `SwitchPressed`, then `AppendNode`,
`Attach` and `Clear` until the handler ends; `Tap`, `Leave`, `Back`, `ExitToHome`
between handlers) and the render thread (`MakeRoot`, `Snapshot`, `Fill`,
`AttachRoot`, the steps of `renderer(_:didRenderScene:atTime:)`). They interleave
between the accesses to shared variables. The arrays are not protected in the code;
the model lets a read see the old or the new array, and does not model that a torn
access may end the app. `Tap` filters the list by title and pushes one screen for each
beacon found, in the list's order (`Titled`).

`NoGhosts` and `TapOpensTapped` except `raced`, `OneNodeEach` and `TapOpensTapped`
require `fresh`: without these conditions they fail, for the reasons their comments
give. Every return to Home makes `fresh` false, so in ordinary use beacons have
several nodes until the frame switch is pressed. Nothing in the repository promises
otherwise.

### `SceneLocation` — estimates and placement

One axis, northwards, in whole numbers. `place` is where the device is and `origin`
where the scene begins; the app sees only `ScenePosition` (their difference) and
fixes. An estimate is a record of location, accuracy, timestamp and scene position,
`estimates` a set, since the best one is found by sorting. `Tick` is
`updateLocationData`: `InRange`, then `Placed` for each node. `AddNode` is
`addLocationNodeWithConfirmedLocation`. The render thread adds one estimate in three
steps (`fetch`, `initial`, `seen`): `FetchInitialLocation` computes the current location
from the best estimate and the camera's position (`SceneLocationManager.swift:65`),
`PositionInitialLocation` reads that position again (line 88) and the array, and
`StoreInitialLocation` writes the array back (line 90), all without a lock: its addition
may be lost, or what the main thread appended or dropped since undone. The camera can
move between the two reads; the history field `slip` of the estimate says how far.
`confirmLocationOfDistantLocationNodes` does nothing, as each node of the app has a
location.

The history variable `misled` is set by `MoveUnnoticed` (walking while Home is
covered) and `InvalidFix` (a negative accuracy): either makes an estimate wrong, and
the code notices neither. `EstimatesAreTrue` and `NodesArePlacedRight` require that
it is not set, and say what they promise of an estimate within its accuracy and `slip`.
Nothing is promised of which estimates are kept: the race can lose the best one.

## 3. What the runs check

| Run | Module, configuration | Properties | Bounds |
|---|---|---|---|
| `session` | `MCCarefulSession`, `MCCarefulSession.cfg` | `TypeOK`, `CurrentUserExists`, `SavedIsCurrent`, `Agreement`, `BeaconsStayPrivate`, `CreateNeverOverwrites`, `RecordsFollow` | 2 accounts, 2 calls, 3 objects |
| `session_live` | `MCSession`, `MCSession.cfg` | `CallsComplete` | 1 account, 2 calls, 3 objects |
| `beacons` | `MCBeacons`, `MCBeacons.cfg` | `TypeOK`, `OneOwner` | 2 devices, 2 accounts, 1 key, 2 queued writes |
| `beacons_loading` | `MCBeacons`, `MCBeaconsLive.cfg` | `ListsLoad` | 1 device, 2 accounts, 3 answers to the location prompt |
| `beacons_denied` | `MCBeacons`, `MCBeaconsLocated.cfg` | `BeaconsAreLocated` (violated) | 1 device |
| `patient_devices` | `MCPatientUser`, `MCPatientUser.cfg` | `FormIsCurrent`, `ProfileIsComplete` | 2 devices, 3 accounts, 1 key, 2 texts, 4 queued writes |
| `database` | `MCWriteTree`, `MCWriteTree.cfg` | `TypeOK`, `PendingMatches`, `ListensAreCounted`, `LastWriteStays`, `CacheIsExact`, `KeepsPromise`, `ReadYourWrites`, `PutsAreAnswered` | 1 client, 1 location, 3 writes, 2 reads, 2 faults |
| `database_held` | `MCRealtimeDatabase`, `MCRealtimeDatabase.cfg` | `CompletionsRun` (violated) | 1 client, 1 write and 1 read, 1 fault |
| `connection` | `MCPersistentConnection`, `MCPersistentConnection.cfg` | `TypeOK`, `ReconnectIsScheduled`, `SendsAreSafe`, `TokenIsExpected`, `AuthIsCurrent`, `RefusedIsRefreshed`, `IsDatabaseLink`, `Reconnects` | 2 accounts, tokens expire once, 1 lost connection or token sent, 3 upsets |
| `connection_refused` | `MCPersistentConnection`, `MCConnectionRefused.cfg` | `RefreshedOnReconnect` (violated) | 1 account, tokens expire once, 1 upset |
| `home_scene` | `MCHomeScene`, `MCHomeScene.cfg` | `TypeOK`, `NodesShown`, `NoGhosts`, `OneNodeEach`, `TapOpensTapped`, `NodesAppear` | 2 keys, 2 titles, 2 nodes in memory, 2 fetches |
| `scene_location` | `MCSceneLocation`, `MCSceneLocation.cfg` | `TypeOK`, `EstimatesAreTrue`, `NodesArePlacedRight`, `NodesGetPlaced` | 3 places, limit 1, 1 beacon, 2 accuracies, 2 fixes, until misled |

**Why these bounds.** *Session*: a wrong account needs one account too many and a
wrong order needs two completions, so two of each; an object is needed for the
current user, one captured by a completion and one being made. *Beacons*: two
devices make a stale copy, two accounts a wrong owner; the queue of two holds an
edit, which is two writes. `patient_devices` needs a third account so that two
devices can swap users and one stays unused, two texts for a list or a form that shows an
old one, and a queue of four for two edits. A list that lacks one beacon of several
needs a second key, too much for the run: that it does not occur is proved (`ProfileShowsAll`). *Database*: a put that is
applied, loses its reply and is sent again needs one fault; three writes, two reads and two
faults allow a write to be held back across a reconnection while newer ones are
completed. One client at one location is enough for what concerns a single client's order;
that two clients do not disturb each other is proved for any number of them
(`WritesMatch`, `PromiseKept`, `CountIsRight`). *PersistentConnection*: two accounts
make the wrong token, one expiry makes a refused and a stale one, and three upsets
(logins, logouts, interruptions, failures) let a second fetch, an answer for a previous
user and a cancelled retry meet. Accounts, slots,
objects, devices, keys, texts and clients are only compared for equality, so the
symmetry sets are sound; runs that check liveness use none. *HomeScene*: the races
need one node that a thread is adding and one that is there already, or that was
forgotten and is still in the scene; two beacons with equal or different titles make
the wrong tap; two fetches bring a second list on top of the first. *SceneLocation*: the
places reach beyond the limit on one side and on its border, accuracies 0 and 1 make a best
estimate that is not the newest, and two fixes an old and a new one, which the race can
lose. The state constraint `Trusted` cuts the run where the app is misled, since
the safety properties promise nothing from there on; `NodesGetPlaced` is checked of a
device that is never misled (the fair action, `Tick`, does not mislead, so the cut hides no fair behaviour of it). All these bound sizes only: the proofs below are for all sizes.

Deadlock is checked in `Session`, `Beacons` and `SceneLocation`. In `RealtimeDatabase`,
`WriteTree` and `PersistentConnection` the bounds on writes, reads, faults and upsets let a
run end, so their configurations switch it off, as does that of `HomeScene`, where memory
for nodes is bounded.

**Fairness.** *Session*: `FairSpec` is "the device stays online": a call is
answered, successfully or not, and the oldest write gets a reply; no read is refused,
as the app gives no cancel block and its completion would never run. The code has no
timeouts of its own, so nothing else completes a call. *Beacons*: `Answer` and
`Arrive` are weakly fair, there is no restart and no read is refused: a refused read
ends without any completion, and nothing asks again. *RealtimeDatabase*: `Connect`
(the client reconnects as long as it is interrupted by nobody, after a delay),
`Serve` and `Receive` are weakly fair; `MaxFaults` says that the network fails
finitely often. `WriteTree` has the same. *PersistentConnection*: a scheduled block runs,
Firebase Auth answers each fetch, the handshake and the server's answers arrive, and the
client's queue takes what was dispatched to it; that a connection is opened (`Connect` there)
is here the result `Reconnects`. *HomeScene*: a
handler that was begun ends and frames are rendered while Home is on screen.
*SceneLocation*: the timer fires while Home is on screen. No user action is ever fair.

### What the runs found

* `beacons_denied`: `updateBeacon` (`UpdateController.swift:84`) asks whether
  location services are enabled on the device, not whether the app may use them,
  and writes the beacon at coordinate (0, 0) if there was no fix, where the alert
  at line 179 says location access is needed.
* `database_held`: `onDisconnect` (`FPersistentConnection.m:327`) resets
  `unackedListensCount` but keeps the completions in `putsToAck`. They are no
  longer outstanding, so they are not sent again, and run only if a later listen
  is answered. The header (`FIRDatabaseReference.h:95`) promises a block that is
  triggered after the write has been committed. `PutsAreAnswered` is what does
  hold: no put stays in the queue.
* `ReadYourWrites` names what this does to reads: a write whose completion is held back
  stays in the write tree (`FWriteTree.m:187`), so after a *newer* write of the client was
  completed and removed, a read may show the older value. The property says that this is
  the only way: the older value shown is always that of a write in `putsToAck`.
* `connection_refused`: "we will refresh the token later on reconnect"
  (`FPersistentConnection.m:529`) is kept by the block of one retry, which captured the
  wish and cleared the flag (line 394). A foreground event replaces that block by one
  without the wish, and the next connection offers the refused token. Going offline, which
  cancels the retry, and a failed fetch, which does not renew the wish, do the same.
  `RefusedIsRefreshed` is what holds: `forgotten` is reset by each refusal, so each time a
  refused token is offered again something prevented its refresh anew.
* `AuthIsCurrent` exempts a connection that was opened with an answer for a previous user:
  the answer to a fetch that was asked before the user changed overwrites (line 434) the token
  posted for the new one meanwhile. `overtaken` ends with the next posted token that is taken;
  from then on the claim holds again.
* `Reconnects` speaks of clients that are not interrupted. The server's kill is an
  interruption that nothing in the client ends, on purpose (line 348): the app is offline
  until it is started again.

## 4. What is proved

All theorems are about every value of the constants; the assumptions are only that
`Nil` differs from the values (`NilIsNobody`, `NilIsNoRecord`, `NilIsNoValue`,
`NilIsNoWrite`, `NilIsNoUser`, `NilIsNoToken`, `NilIsNoNode`, `NilIsNothing`), that
coordinates are integers and the limit positive (`CoordinatesAreIntegers`), and that the
bounds are natural numbers (`BoundsAreNatural`, `EpochsAreNatural`, `FaultsAreNatural`,
`KeysAreCounted`).
TLC evaluates them in the runs of the modules that declare them.

| Module | Theorem | Says |
|---|---|---|
| `Session_proofs` | `TypeCorrect` | `Spec => []TypeOK` |
| | `NoFatalError` | `Spec => []CurrentUserExists` |
| | `MemoryMatchesArchive` | `Spec => []SavedIsCurrent` |
| `CarefulSession_proofs` | `ActsForSignedIn` | `HistorySpec => []Agreement` |
| | `BeaconsPrivate` | `HistorySpec => []BeaconsStayPrivate` |
| | `NothingOverwritten` | `HistorySpec => []CreateNeverOverwrites` |
| | `NoLoginStrands` | `HistorySpec => RecordsFollow` |
| `Beacons_proofs` | `TypeCorrect` | `CarefulSpec => []TypeOK` |
| | `OwnerKept` | `CarefulSpec => []OneOwner` |
| | `FormShowsBeacon` | `PatientSpec => []FormIsCurrent` |
| | `ProfileShowsAll` | `PatientSpec => []ProfileIsComplete` |
| `RealtimeDatabase_proofs` | `WritesMatch` | `Spec => []PendingMatches` |
| | `PromiseKept` | `Spec => KeepsPromise` (it implements `RemoteWrites`) |
| `RealtimeDatabase_listens` | `CountIsRight` | `Spec => []ListensAreCounted` |
| | `TypeCorrect` | `Spec => []TypeOK` |
| | `LastStays` | `Spec => []LastWriteStays` |
| | `ReadsOwnWrites` | `Spec => ReadYourWrites` |
| | `CacheStaysExact` | `TreeSpec => []CacheIsExact` |
| `PersistentConnection_proofs` | `TypeCorrect` | `Spec => []TypeOK` |
| | `RetryIsScheduled` | `Spec => []ReconnectIsScheduled` |
| | `NothingSentInVain` | `Spec => []SendsAreSafe` |
| | `NoConnectionIsLost` | `Spec => []TokenIsExpected` |
| | `ServerKnowsUser` | `Spec => []AuthIsCurrent` |
| | `RefusedStaysRefused` | `Spec => []RefusedIsRefreshed` |
| | `LinkIsDatabases` | `Spec /\ [](faults < ManyFaults) => IsDatabaseLink` (it implements `RealtimeDatabase`) |
| `HomeScene_proofs` | `TypeCorrect` | `Spec => []TypeOK` |
| | `AllShown` | `Spec => []NodesShown` |
| | `NoneForgotten` | `Spec => []NoGhosts` |
| | `EachOnce` | `Spec => []OneNodeEach` |
| | `TapsOpenTheirBeacon` | `Spec => []TapOpensTapped` |
| `SceneLocation_proofs` | `TypeCorrect` | `Spec => []TypeOK` |
| | `EstimatesHold` | `Spec => []EstimatesAreTrue` |
| | `NodesRight` | `Spec => NodesArePlacedRight` |

* **Session.** None of the properties is inductive. `IInv` adds that objects
  something points to are in memory (`HeapOK`), that a call past its first step has
  an account and an update has an object (`CallsOK`), and that each pending write
  belongs to a call of its own that waits for it (`PutsOK`) — without the last one
  a reply could adopt an object that nobody captured.
* **Careful session.** `CInv` is `IInv` and, as long as the user is careful, `Settled`:
  who may be waiting for what on which screen. A login screen waits for one call, of the
  account that signed in (`LoginOK`); a main screen only for reads and writes of the
  signed-in account (`MainOK`); a closed app for nothing (`OffOK`); records, objects and
  the archive list their own account's beacons (`PrivateOK`), and a pending write is the
  signed-in account's (`WritesOK`). Each action either ends the careful use or keeps these.
  `NoLoginStrands` holds without care and is shown step by step: a login's first steps
  belong to one of the three buttons (`ViaOK`), so an account that has no record is in
  the hands of a login that will queue its record (`WillCreate`) or has that write queued.
  A call that changes may only lose this for its own account (`StillStranded`), and does so
  only if its request fails (`FailRecords`, `RejectRecords`).
* **Beacons.** `OneOwner` speaks of lists that exist; `IInv` adds what the next
  lists are made from: queued writes (`QueueOK`), answers on their way, the user an
  observer will filter for, and that a form is open exactly on Update (`FormOK`).
  `CarefulSpec` is used in one place, `SwitchUser`: no record of the previous user is
  queued. The beacons that are queued, and an answer on its way, are owned by whoever
  created them, so they do not mind.
* **Patient users.** `PInv` is `IInv` and, for each device, `PatientOK`: it writes only
  beacons of its user (`OwnWrites`), an answer on its way agrees with the database about
  them (`AnswerIsCurrent`), and what Home and Profile show is the database under the
  device's own queue (`HomeIsExact`, `ProfileIsExact`), of which the form is an element
  (`FormIsProfiles`). `Apart`, one device at a time for an account, is what makes this
  inductive: a step of another device changes other users' beacons only
  (`OtherPatients`), and a patient step is a careful one (`PatientIsCareful`), so that
  `IInv` and `OneOwner` are at hand.
* **RealtimeDatabase.** The heart is *where a put may be*: `PutsOnce` says that
  requests and responses of a connection hold a put at most once between them, and
  only while it is outstanding; hence a reply meets an outstanding put, and never a
  second time. That needs `Phase`: the restoring token comes first on its
  connection and nothing is put before its answer, so restoring cannot duplicate
  what is on the wire. `SuccessIsReal` relates replies and completions held back to
  the server's history, `Visible` is `PendingMatches` and that a client shows only
  its own writes, `StatusOK` ties the app's view to the write tree. Each action has
  a lemma that it keeps `IInv` and is a step of `RemoteWrites` or a stutter;
  `AppendMessage`, `TailMessage` and `JoinMessages` say what sequences of messages
  contain.

* **Listens.** `ListensAreCounted` compares a counter with what is on the wire. The proof
  counts listens in requests and responses as the cardinality of sets of positions and
  shows how appending, taking the head and joining change it. With it the counter is never
  negative, which completes
  `TypeOK`.
* **Order of the writes.** `InTurn` says that puts are applied and answered in the order of
  their numbers: they ascend on the wire, an authenticated connection has every outstanding
  one, and all that is settled is older. `Fresh` follows for what a client reads: neither
  the server nor the data on its way is older than a success the client knows
  (`Acked`) or is about to hear of (`Told`), where a value of another client is never
  "older" (`Covers`). `LastStays` is `Fresh` and `StoreKnown`; `ReadsOwnWrites` compares what
  `Shown` lays over the data with the writes of the client: what is laid over is outstanding,
  and then newer than all that is completed, or held back.
* **Write tree.** `VInv` adds to `IInv` that a client's writes have different numbers and
  that the cache is `Exact`. The recursive functions need two steps that the provers have no
  theorem for: that the function exists and that it has a property for every number. Both
  are inductions in the form of `Induct` (a set of numbers with 0 and all successors has
  every number), which needs no operator as parameter. `LayersShow` then says that the first
  layers show the first writes, `RemoveExact` that taking any write away leaves an exact
  cache, in the three cases of `removeWriteId`, and `RemovalsShow` the same for several.
* **PersistentConnection.** `Link` is the connection alone: its types, that a retry is
  scheduled exactly when one is due, that nothing is left of a closed connection, and that
  a client asking for a token is not interrupted. `OnDisconnect`, `InterruptForReason` and
  `ResumeForReason` have a lemma each, which every handler that calls them uses.
  `Flights` says that fetches, asked or answered, have different numbers, none above
  `attempt`; `Expected` follows: only `Retry` makes a fetch the latest, and it leaves the
  client waiting for it. `ServerKnowsUser` is a chain of three: the last token that was
  posted is the user's, and so are the answers to the present attempt unless the user
  changed since it asked (`UserKnown`); a connection has that
  token once the posts are taken (`LinkKnown`); and unless a refusal is on its way the
  server was told of the token the connection has (`ServerKnows`). `RefusedStaysRefused`
  needs that only tokens of past epochs are refused (`Issued`), that refused tokens which
  were posted are taken before a connection is opened (`Passed`), and that while the cached
  token is a refused one, a forced fetch is scheduled or asked before any other of the
  latest attempt (`Renewed`); the last begins again with each refusal. `LinkIsDatabases` maps
  each handler to one action of
  `RealtimeDatabase` or none (`LinkStutters`, `LinkConnects`, `LinkOpens`, `LinkCloses`,
  `LinkChanges`, `LinkServes`, `LinkAccepted`, `LinkRefused`); that `OnToken` never closes a
  connection that is in use is `Expected` again.
* **HomeScene.** `Covered` says where a node of the view may be: in the scene, in
  the hands of one of the two threads, or waiting for a `didSet` that has not read the
  list yet. `Known` is the converse. Both follow from the order of two accesses in
  each thread: the main thread appends before it reads `sceneNode`, the render thread
  sets `sceneNode` before it reads the list. `EachOnce` rests on what a fresh list
  still has to become (`Rest`): the view's nodes and the rest of the list together have each
  beacon once, since the server returns each key once.
  `TapsOpenTheirBeacon` uses it: with each beacon in the list once and titles that differ,
  the positions with a title are one, and only one function orders them.
* **SceneLocation.** An estimate is a claim about `origin`: location minus scene
  position. Walking changes neither, so it stays as accurate as the fix was. The invariant
  (`AllTrue`) says it of all that can come to be in the array: what is there, what the
  render thread read of it (`seen`) and what it has in hand (`initial`), whose claim is off
  by the slip once its position was read again. Before the first frame, which sets
  `origin`, there is none of these (`NothingBefore`). `NodesRight` then is arithmetic:
  `PlacedRight` for one placement, `BestAccuracy` to pass from the best estimate to
  all of them.

Every safety property of a passing run is proved. Only model-checked are the liveness
properties, `CallsComplete`, `ListsLoad`, `PutsAreAnswered`, `Reconnects`, `NodesAppear` and
`NodesGetPlaced`: the prover has no rules for `ENABLED`, without which fairness says nothing.
The three violated properties are shown by their counterexamples.

## 5. What is not modelled, and why

* Layout, images, wording, alerts, the keyboard.
* In the database client: transactions, merges, `onDisconnect` operations, queries,
  priorities and disk persistence, which the app does not use; with them go nested
  writes, so that no location of `WriteTree` contains another; back-off delays, which only
  order what `Retry` may do at any time; pushes of the server after the first data of a
  listen, which a single-event observer never sees; the web socket and its keep-alive.
  The server is external: it takes requests in order, drops the rest of a closed
  connection and answers each once.
* The Facebook and Firebase Auth SDKs, but for what the login flows observe.
* `UserService.users`, called by nobody; `OldLoginController`, shown by nobody.
* The composition of `Session` and `Beacons`: `Session` has the account and no
  lists, `Beacons` the lists and an account that changes atomically.

* The vendored pods below the parts named above. Nearly all of the repository's half
  million lines are vendored libraries (BoringSSL, gRPC, Firestore, Protobuf, image
  loading and others) that the app links and does not call; the models cover the app's own
  code and the parts of Firebase and ARCL that decide its behaviour, which is a small share
  of those lines.

## 6. Plan

1. *Done*: `Session`, `CarefulSession`, `Beacons`, `PatientUser`, `RemoteWrites`,
   `RealtimeDatabase`, `WriteTree`, `PersistentConnection`, `HomeScene`, `SceneLocation`,
   with proofs of all their safety properties and of the two refinements.
2. `Beacons` as a client of `RemoteWrites`: that its queue is a refinement of the
   promise, so that the two models are linked by more than this text.
3. The composition of `Session` and `Beacons`: the current user that a late completion
   changes, in the device that stamps it on a beacon.
