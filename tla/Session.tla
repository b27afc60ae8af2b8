------------------------------ MODULE Session ------------------------------
(***************************************************************************)
(* The account life cycle of one device: which account Firebase Auth has   *)
(* signed in, which user the app believes is current, what is kept across   *)
(* a kill, and the callbacks that arrive late.                             *)
(*                                                                         *)
(* Three copies of "who is using the app" exist and nothing in the code    *)
(* compares them: Auth.currentUser (auth), User._current (current) and the *)
(* archived user in UserDefaults (saved).                                  *)
(*                                                                         *)
(* A user's list of beacon keys is abstracted to the set of accounts those *)
(* keys belong to.  Release build: assertionFailure does nothing.          *)
(***************************************************************************)
EXTENDS Naturals, Sequences

CONSTANTS
    Uids,      \* the accounts (Firebase uids)
    Slots,     \* bound: asynchronous calls outstanding at once
    Objects,   \* identities of User objects in memory (User is a class)
    Nil        \* Swift's nil

ASSUME NilIsNobody == Nil \notin Uids /\ Nil \notin Objects

\* A User object, and the dictionary stored at users/<uid>.
User  == [uid : Uids, beacons : SUBSET Uids]
Entry == [beacons : SUBSET Uids]

ASSUME NilIsNoRecord == Nil \notin User \cup Entry

LoginScreens == {"landing", "login", "signup"}
MainScreens  == {"home", "profile", "update"}
Screens      == LoginScreens \cup MainScreens

\* "auth" waits for the server to check or make the account, "info" for what it
\* knows of it.
Steps == {"idle", "facebook", "auth", "info", "show", "create", "reread",
          "update", "beacons"}
Vias  == {"none", "email", "facebook", "signup"}

VARIABLES
    accounts,  \* accounts Firebase Auth knows (server)
    users,     \* users/<uid> in the database (server): Nil or an entry
    auth,      \* Auth.auth().currentUser, kept in the keychain
    fbToken,   \* AccessToken.current of the Facebook SDK, kept in the keychain
    saved,     \* UserDefaults "currentUser": Nil or an archived user
    heap,      \* the User objects in memory
    current,   \* User._current: Nil or an object
    screen,    \* the controller on screen; "off" when the app is not running
    calls,     \* the asynchronous calls whose completion is still to come
    puts       \* setValue calls on users/<uid> not yet acknowledged, in order

kept   == <<auth, fbToken, saved>>
server == <<accounts, users>>
vars   == <<accounts, users, auth, fbToken, saved, heap, current, screen,
            calls, puts>>

\* A pending completion: the step it waits for, the button that began it, the
\* account, the controller it captured ("gone" once that controller has left
\* the window) and the User object it captured.
Call == [step : Steps, via : Vias, uid : Uids \cup {Nil},
         from : Screens \cup {"gone"}, obj : Objects \cup {Nil}]

Idle == [step |-> "idle", via |-> "none", uid |-> Nil, from |-> "gone",
         obj |-> Nil]

\* setValue on users/<uid> by the call in a slot.
Put == [slot : Slots, uid : Uids, entry : Entry]

TypeOK ==
    /\ accounts \in SUBSET Uids
    /\ users \in [Uids -> Entry \cup {Nil}]
    /\ auth \in Uids \cup {Nil}
    /\ fbToken \in Uids \cup {Nil}
    /\ saved \in User \cup {Nil}
    /\ heap \in [Objects -> User \cup {Nil}]
    /\ current \in Objects \cup {Nil}
    /\ screen \in Screens \cup {"off"}
    /\ calls \in [Slots -> Call]
    /\ puts \in Seq(Put)

Init ==
    /\ accounts = {}
    /\ users = [u \in Uids |-> Nil]
    /\ auth = Nil /\ fbToken = Nil /\ saved = Nil
    /\ heap = [o \in Objects |-> Nil]
    /\ current = Nil
    /\ screen = "off"
    /\ calls = [s \in Slots |-> Idle]
    /\ puts = <<>>

----------------------------------------------------------------------------
(* Helpers *)

Quiet == \A s \in Slots : calls[s] = Idle

Busy(step) == \E s \in Slots : calls[s].step = step

\* Controllers on the screens `left` have gone from the window for good.
Detach(cs, left) ==
    [s \in Slots |-> IF cs[s].from \in left
                     THEN [cs[s] EXCEPT !.from = "gone"] ELSE cs[s]]

Free(s) == [calls EXCEPT ![s] = Idle]

\* Begin an asynchronous call in a free slot.
Begin(s, step, via, u, obj) ==
    /\ calls[s] = Idle
    /\ calls' = [calls EXCEPT ![s] = [step |-> step, via |-> via, uid |-> u,
                                      from |-> screen, obj |-> obj]]

Unreferenced(o) == o # current /\ \A s \in Slots : calls[s].obj # o

\* Reference counting: an object nothing points to is freed.
Retained(h, cur, cs) ==
    [o \in Objects |-> IF o = cur \/ \E s \in Slots : cs[s].obj = o
                       THEN h[o] ELSE Nil]

\* v is what a read of users/<u> on this device returns: its own latest write
\* that is still pending, and otherwise the server's value.
Reads(u, v) ==
    LET mine == {j \in DOMAIN puts : puts[j].uid = u}
    IN  \/ mine = {} /\ v = users[u]
        \/ \E j \in mine : /\ \A k \in mine : k <= j
                           /\ v = puts[j].entry

\* Mutant of EnterMain: setCurrent with its default writeToUserDefaults: false.
EnterMainUnsaved(s, entry) ==
    LET user == [uid |-> calls[s].uid, beacons |-> entry.beacons]
    IN  /\ \E o \in Objects : /\ Unreferenced(o)
                              /\ heap' = Retained([heap EXCEPT ![o] = user], o, calls)
                              /\ current' = o
        /\ saved' = saved
        /\ IF calls[s].from = screen
           THEN screen' = "home" /\ calls' = Detach(Free(s), Screens)
           ELSE screen' = screen /\ calls' = Free(s)

\* The common tail of every login flow: a new User object becomes current and
\* is archived; the root becomes Main if the controller is still on screen.
EnterMain(s, entry) ==
    LET user == [uid |-> calls[s].uid, beacons |-> entry.beacons]
    IN  /\ \E o \in Objects : /\ Unreferenced(o)
                              /\ heap' = Retained([heap EXCEPT ![o] = user], o, calls)
                              /\ current' = o
        /\ saved' = user
        /\ IF calls[s].from = screen
           THEN screen' = "home" /\ calls' = Detach(Free(s), Screens)
           ELSE screen' = screen /\ calls' = Free(s)

\* UserService.create: users/<uid> is overwritten by a record with no beacons.
StartCreate(s) ==
    /\ calls' = [calls EXCEPT ![s].step = "create"]
    /\ puts' = Append(puts, [slot |-> s, uid |-> calls[s].uid,
                            entry |-> [beacons |-> {}]])

----------------------------------------------------------------------------
(* The process *)

\* Mutant of Launch: Main is shown without adopting the archived user.
LaunchWithoutAdopting ==
    /\ screen = "off"
    /\ screen' = IF auth # Nil /\ saved # Nil THEN "home" ELSE "landing"
    /\ UNCHANGED <<kept, server, heap, current, calls, puts>>

\* Mutant of Launch: Auth.currentUser is not consulted.
LaunchWithoutAuth ==
    /\ screen = "off"
    /\ IF saved # Nil
       THEN \E o \in Objects : /\ heap' = [heap EXCEPT ![o] = saved]
                               /\ current' = o /\ screen' = "home"
       ELSE screen' = "landing" /\ UNCHANGED <<heap, current>>
    /\ UNCHANGED <<kept, server, calls, puts>>

\* configureInitialRootViewController: the archived user is adopted whenever
\* anybody is signed in.
Launch ==
    /\ screen = "off"
    /\ IF auth # Nil /\ saved # Nil
       THEN \E o \in Objects : /\ heap' = [heap EXCEPT ![o] = saved]
                               /\ current' = o /\ screen' = "home"
       ELSE screen' = "landing" /\ UNCHANGED <<heap, current>>
    /\ UNCHANGED <<kept, server, calls, puts>>

\* The process ends.  No disk persistence is enabled, so pending writes are
\* lost; each may have reached the server before.
Kill ==
    /\ screen # "off"
    /\ screen' = "off"
    /\ heap' = [o \in Objects |-> Nil] /\ current' = Nil
    /\ calls' = [s \in Slots |-> Idle]
    /\ puts' = <<>>
    /\ users' \in [Uids -> Entry \cup {Nil}]
    /\ \A u \in Uids :
          \/ users'[u] = users[u]
          \/ \E j \in DOMAIN puts : puts[j].uid = u /\ users'[u] = puts[j].entry
    /\ UNCHANGED <<kept, accounts>>

\* Firebase Auth signs out by itself when the server rejects the user's token.
TokenRevoked ==
    /\ screen # "off" /\ auth # Nil
    /\ auth' = Nil
    /\ UNCHANGED <<server, fbToken, saved, heap, current, screen, calls, puts>>

----------------------------------------------------------------------------
(* The login screens *)

\* Landing presents Login and SignUp over itself.
Present(to) ==
    /\ screen = "landing" /\ ~Busy("facebook")
    /\ to \in {"login", "signup"}
    /\ screen' = to
    /\ UNCHANGED <<kept, server, heap, current, calls, puts>>

\* Mutant of Dismiss: completions of reads do nothing once their controller has gone.
DismissDropping ==
    /\ screen \in {"login", "signup"} /\ ~Busy("facebook")
    /\ screen' = "landing"
    /\ calls' = [s \in Slots |-> IF calls[s].from = screen /\ calls[s].step \in {"show", "reread"}
                                THEN Idle ELSE Detach(calls, {screen})[s]]
    /\ UNCHANGED <<kept, server, heap, current, puts>>

\* The unwind segue to Landing: the presented controller is dismissed.
Dismiss ==
    /\ screen \in {"login", "signup"} /\ ~Busy("facebook")
    /\ screen' = "landing"
    /\ calls' = Detach(calls, {screen})
    /\ UNCHANGED <<kept, server, heap, current, puts>>

TapLogin(s, u) ==
    /\ screen = "login" /\ ~Busy("facebook")
    /\ Begin(s, "auth", "email", u, Nil)
    /\ UNCHANGED <<kept, server, heap, current, screen, puts>>

TapSignUp(s, u) ==
    /\ screen = "signup" /\ ~Busy("facebook")
    /\ Begin(s, "auth", "signup", u, Nil)
    /\ UNCHANGED <<kept, server, heap, current, screen, puts>>

\* The Facebook sheet covers the app until it returns.
TapFacebook(s) ==
    /\ screen \in {"landing", "login"} /\ ~Busy("facebook")
    /\ Begin(s, "facebook", "facebook", Nil, Nil)
    /\ UNCHANGED <<kept, server, heap, current, screen, puts>>

\* The Facebook SDK reports an error; also when the user picks an account
\* other than the one of the cached token (FBSDKLoginErrorUserMismatch).
FacebookFails(s) ==
    /\ calls[s].step = "facebook"
    /\ calls' = Free(s)
    /\ UNCHANGED <<kept, server, heap, current, screen, puts>>

\* Mutant of FacebookReturns: the guard on AccessToken.current is dropped.
FacebookReturnsUnguarded(s, cancelled, u) ==
    /\ calls[s].step = "facebook"
    /\ fbToken \in {Nil, u} \/ cancelled
    /\ fbToken' = IF cancelled THEN fbToken ELSE u
    /\ calls' = [calls EXCEPT ![s].step = "auth", ![s].uid = fbToken']
    /\ UNCHANGED <<server, auth, saved, heap, current, screen, puts>>

\* The user grants account u, or cancels: result.isCancelled is never read, so
\* the flow goes on with whatever token is cached.
FacebookReturns(s, cancelled, u) ==
    /\ calls[s].step = "facebook"
    /\ fbToken \in {Nil, u} \/ cancelled
    /\ fbToken' = IF cancelled THEN fbToken ELSE u
    /\ calls' = IF fbToken' = Nil THEN Free(s)
                ELSE [calls EXCEPT ![s].step = "auth", ![s].uid = fbToken']
    /\ UNCHANGED <<server, auth, saved, heap, current, screen, puts>>

\* Email sign-in needs an account, createUser needs that there is none, and
\* Facebook makes one if there is none.
Admitted(c) ==
    /\ c.via = "email" => c.uid \in accounts
    /\ c.via = "signup" => c.uid \notin accounts

\* The first request of a login is refused, or its answer is lost: the server
\* may have made the account.
AuthFails(s) ==
    /\ calls[s].step = "auth"
    /\ \/ UNCHANGED accounts
       \/ Admitted(calls[s]) /\ accounts' = accounts \cup {calls[s].uid}
    /\ calls' = Free(s)
    /\ UNCHANGED <<kept, users, heap, current, screen, puts>>

\* verifyPassword, verifyAssertion or signUpNewUser has answered: the account
\* exists, and the SDK asks for its information before it signs anybody in.
AccountFound(s) ==
    /\ calls[s].step = "auth" /\ Admitted(calls[s])
    /\ accounts' = accounts \cup {calls[s].uid}
    /\ calls' = [calls EXCEPT ![s].step = "info"]
    /\ UNCHANGED <<kept, users, heap, current, screen, puts>>

\* The second request fails.  signIn reports it; createUser drops the error and
\* makes the user it did not get the current one, so nobody is signed in.
InfoFails(s) ==
    /\ calls[s].step = "info"
    /\ auth' = IF calls[s].via = "signup" THEN Nil ELSE auth
    /\ calls' = Free(s)
    /\ UNCHANGED <<server, fbToken, saved, heap, current, screen, puts>>

\* signIn and createUser replace whoever was signed in.
AuthReturns(s) ==
    /\ calls[s].step = "info"
    /\ auth' = calls[s].uid
    /\ IF calls[s].via = "signup"
       THEN StartCreate(s)
       ELSE calls' = [calls EXCEPT ![s].step = "show"] /\ UNCHANGED puts
    /\ UNCHANGED <<server, fbToken, saved, heap, current, screen>>

\* Mutant of ShowReturns: a Facebook login creates the record unconditionally.
ShowReturnsCreating(s) ==
    /\ calls[s].step = "show"
    /\ \E v \in Entry \cup {Nil} :
          /\ Reads(calls[s].uid, v)
          /\ IF calls[s].via = "facebook" THEN StartCreate(s) /\ UNCHANGED <<heap, current, saved, screen>>
             ELSE IF v # Nil THEN EnterMain(s, v) /\ UNCHANGED puts
             ELSE calls' = Free(s) /\ UNCHANGED <<heap, current, saved, screen, puts>>
    /\ UNCHANGED <<server, auth, fbToken>>

\* The completion of UserService.show.  A Facebook login without a record
\* creates one; an email login shows "Login Failed" and leaves auth as it is.
ShowReturns(s) ==
    /\ calls[s].step = "show"
    /\ \E v \in Entry \cup {Nil} :
          /\ Reads(calls[s].uid, v)
          /\ IF v # Nil
             THEN EnterMain(s, v) /\ UNCHANGED puts
             ELSE /\ IF calls[s].via = "facebook"
                     THEN StartCreate(s)
                     ELSE calls' = Free(s) /\ UNCHANGED puts
                  /\ UNCHANGED <<heap, current, saved, screen>>
    /\ UNCHANGED <<server, auth, fbToken>>

\* The read that UserService.create makes once its write is acknowledged.
RereadReturns(s) ==
    /\ calls[s].step = "reread"
    /\ \E v \in Entry \cup {Nil} :
          /\ Reads(calls[s].uid, v)
          /\ IF v # Nil THEN EnterMain(s, v)
             ELSE calls' = Free(s) /\ UNCHANGED <<heap, current, saved, screen>>
    /\ UNCHANGED <<server, auth, fbToken, puts>>

----------------------------------------------------------------------------
(* The main screens *)

\* Home passes its own beacons; if there are none Profile fetches them itself.
OpenProfile ==
    /\ screen = "home"
    /\ screen' = "profile"
    /\ \/ UNCHANGED calls
       \/ \E s \in Slots : /\ Begin(s, "beacons", "none", heap[current].uid, Nil)
    /\ UNCHANGED <<kept, server, heap, current, puts>>

Navigate(to) ==
    /\ \/ screen = "profile" /\ to \in {"home", "update"}
       \/ screen = "update" /\ to = "profile"
    /\ screen' = to
    /\ UNCHANGED <<kept, server, heap, current, calls, puts>>

\* launchButtonPressed on the Update screen: UserService.updateUserValues
\* writes the current user and captures the object.
TapUpdate(s) ==
    /\ screen = "update"
    /\ Begin(s, "update", "none", heap[current].uid, current)
    /\ puts' = Append(puts, [slot |-> s, uid |-> heap[current].uid,
                             entry |-> [beacons |-> heap[current].beacons]])
    /\ screen' = "profile"
    /\ UNCHANGED <<kept, server, heap, current>>

\* Mutant of BeaconsReturn: the filter on the user's uid is dropped.
BeaconsReturnUnfiltered(s) ==
    /\ calls[s].step = "beacons"
    /\ \E keys \in SUBSET Uids :
          heap' = [heap EXCEPT ![current] = [@ EXCEPT !.beacons = keys]]
    /\ calls' = Free(s)
    /\ UNCHANGED <<kept, server, current, screen, puts>>

\* The completion of getBeacons assigns to whoever is current by then.
BeaconsReturn(s) ==
    /\ calls[s].step = "beacons"
    /\ \E keys \in SUBSET {calls[s].uid} :
          heap' = [heap EXCEPT ![current] = [@ EXCEPT !.beacons = keys]]
    /\ calls' = Free(s)
    /\ UNCHANGED <<kept, server, current, screen, puts>>

\* A read the database refuses never completes (there is no cancel block).
ReadCancelled(s) ==
    /\ calls[s].step \in {"show", "reread", "beacons"}
    /\ calls' = Free(s)
    /\ UNCHANGED <<kept, server, heap, current, screen, puts>>

\* Signs out of Firebase and shows Landing; User._current, UserDefaults, the
\* Facebook token and the outstanding calls all stay.
Logout ==
    /\ screen = "profile"
    /\ auth' = Nil
    /\ screen' = "landing"
    /\ UNCHANGED <<server, fbToken, saved, heap, current, calls, puts>>

----------------------------------------------------------------------------
(* Replies to the writes on users/<uid>, in the order they were made *)

\* The completion of updateUserValues: the captured object becomes current and
\* is archived, whatever the reply was.
AdoptCaptured(s) ==
    /\ current' = calls[s].obj
    /\ saved' = heap[calls[s].obj]
    /\ calls' = Free(s)
    /\ heap' = Retained(heap, calls[s].obj, calls)

PutAcked ==
    /\ puts # <<>>
    /\ LET p == Head(puts)
       IN  /\ users' = [users EXCEPT ![p.uid] = p.entry]
           /\ IF calls[p.slot].step = "create"
              THEN /\ calls' = [calls EXCEPT ![p.slot].step = "reread"]
                   /\ UNCHANGED <<heap, current, saved>>
              ELSE AdoptCaptured(p.slot)
    /\ puts' = Tail(puts)
    /\ UNCHANGED <<accounts, auth, fbToken, screen>>

\* Mutant of PutRejected: create returns without calling its completion.
PutRejectedSilently ==
    /\ puts # <<>>
    /\ LET p == Head(puts)
       IN  IF calls[p.slot].step = "create"
           THEN UNCHANGED <<calls, heap, current, saved>>
           ELSE AdoptCaptured(p.slot)
    /\ puts' = Tail(puts)
    /\ UNCHANGED <<server, auth, fbToken, screen>>

PutRejected ==
    /\ puts # <<>>
    /\ LET p == Head(puts)
       IN  IF calls[p.slot].step = "create"
           THEN calls' = Free(p.slot) /\ UNCHANGED <<heap, current, saved>>
           ELSE AdoptCaptured(p.slot)
    /\ puts' = Tail(puts)
    /\ UNCHANGED <<server, auth, fbToken, screen>>

----------------------------------------------------------------------------
Tap ==
    \/ \E s \in Slots, u \in Uids : TapLogin(s, u) \/ TapSignUp(s, u)
    \/ \E s \in Slots : TapFacebook(s)

Move == (\E to \in Screens : Present(to) \/ Navigate(to)) \/ Dismiss \/ OpenProfile

CallReply(s) ==
    \/ FacebookFails(s)
    \/ AuthFails(s) \/ AccountFound(s) \/ InfoFails(s) \/ AuthReturns(s)
    \/ ShowReturns(s) \/ RereadReturns(s) \/ BeaconsReturn(s)
    \/ \E cancelled \in BOOLEAN, u \in Uids : FacebookReturns(s, cancelled, u)

PutReply == PutAcked \/ PutRejected

Reply == PutReply \/ \E s \in Slots : CallReply(s)

Served ==
    \/ Launch \/ Kill \/ TokenRevoked
    \/ Tap \/ Move \/ Logout \/ (\E s \in Slots : TapUpdate(s))
    \/ Reply

Next == Served \/ \E s \in Slots : ReadCancelled(s)

Spec == Init /\ [][Next]_vars

\* The device stays online and the database refuses no read: every call, and the
\* oldest write, is answered.
FairSpec ==
    /\ Init /\ [][Served]_vars
    /\ WF_vars(PutReply) /\ \A s \in Slots : WF_vars(CallReply(s))

----------------------------------------------------------------------------
(* Properties *)

\* User.current never reaches its fatalError: a main screen, and a getBeacons
\* completion, always finds a current user (User.swift:84).
CurrentUserExists ==
    screen \in MainScreens \/ Busy("beacons") => current # Nil

\* The user in memory and the archived one are never two different accounts,
\* although setCurrent is called with and without writing and completions of
\* an earlier account may run after another logged in.
SavedIsCurrent ==
    current # Nil => saved # Nil /\ saved.uid = heap[current].uid

\* A login that is going to write the record of u if there is none.
WillCreate(c, u) ==
    /\ c.uid = u
    /\ \/ c.via = "facebook" /\ c.step \in {"info", "show"}
       \/ c.via = "signup" /\ c.step = "info"

\* An account without a record, and without a login that is going to write one,
\* can only log in with Facebook from then on.
Stranded(u) ==
    /\ u \in accounts /\ users[u] = Nil
    /\ \A j \in DOMAIN puts : puts[j].uid # u
    /\ \A s \in Slots : ~WillCreate(calls[s], u)

\* The app is killed, or one of the requests for account u fails: the login's
\* own two, the read of the record or a write of it.
Fails(u) ==
    \/ Kill
    \/ PutRejected /\ Head(puts).uid = u
    \/ \E s \in Slots : /\ calls[s].uid = u
                        /\ AuthFails(s) \/ InfoFails(s) \/ ReadCancelled(s)

\* Whatever logins overlap, are dismissed or log other accounts in, an account is
\* only left without a record by a kill or by a request for that very account
\* that fails (SignUpController.swift:113, LandingController.swift:138).
RecordsFollow == [][\A u \in Uids : ~Stranded(u) /\ Stranded(u)' => Fails(u)]_vars

\* While the device stays online and no read is refused, the completion of every
\* call runs, whatever requests and writes fail: no login chain breaks off.
CallsComplete == \A s \in Slots : calls[s] # Idle ~> calls[s] = Idle

============================================================================
