------------------------ MODULE PersistentConnection ------------------------
(***************************************************************************)
(* The life of the Firebase client's connection: when it is opened, with    *)
(* which token, when it is closed and what brings it back.  Every block     *)
(* here runs on the queue of the database, one at a time; the tokens come   *)
(* from Firebase Auth, which has its own queue and the network.             *)
(*                                                                         *)
(* A token is its account and the epoch of the server it was issued in: the *)
(* server accepts those of its present epoch.  Delays are left out: a       *)
(* scheduled block may run at any time.                                     *)
(***************************************************************************)
EXTENDS Naturals, Sequences, FiniteSets

CONSTANTS
    Users,
    MaxEpoch,  \* bound: how often the server stops accepting its old tokens
    MaxFaults, \* bound: established connections lost in a run
    MaxUpsets, \* bound: logins, logouts, failures and interruptions in a run
    ManyFaults, \* MaxFaults of the RealtimeDatabase that this implements
    Nil

ASSUME NilIsNoUser == Nil \notin Users
ASSUME EpochsAreNatural == MaxEpoch \in Nat
ASSUME FaultsAreNatural == ManyFaults \in Nat

Token == [user : Users, epoch : 0..MaxEpoch]

ASSUME NilIsNoToken == Nil \notin Token \cup [force : BOOLEAN]

States  == {"disconnected", "gettingToken", "connecting", "authenticating", "connected"}
Reasons == {"waitingForOpen", "repoInterrupt", "serverKill"}

VARIABLES
    state,        \* connectionState
    realtime,     \* the FConnection: "none", "connecting" or "connected"
    reasons,      \* interruptReasons
    scheduled,    \* retryHelper.scheduledRetry with the forceRefresh it captured
    attempt,      \* currentFetchTokenAttempt
    authToken,    \* authToken
    forceRefresh, \* forceAuthTokenRefresh
    user, cached, \* Firebase Auth: the current user and its access token
    fetches,      \* calls of getTokenForcingRefresh that are not answered
    events,       \* tokens posted and answers, dispatched to the database's queue
    epoch,        \* server: the epoch of the tokens it accepts
    session,      \* server: the token the connection is authenticated with
    up, down,     \* requests and messages on the connection
    faults,       \* how many connections were lost, and tokens sent on one
    upsets,       \* how many upsets there were
    stray,        \* the user changed since the latest attempt asked (history)
    overtaken,    \* authToken came with the answer to such an attempt (history)
    refused,      \* tokens the client was told are not accepted (history)
    forgotten     \* since the last of these a forced refresh was not made (history)

link  == <<state, realtime, reasons, scheduled, attempt, authToken, forceRefresh>>
auth  == <<user, cached, fetches, events>>
wire  == <<up, down, session>>
ghost == <<stray, overtaken, refused, forgotten>>
vars  == <<link, auth, wire, epoch, faults, upsets, ghost>>

Fetch == [attempt : Nat, force : BOOLEAN, user : Users \cup {Nil}, mine : BOOLEAN]

Changed(t)       == [kind |-> "changed", token |-> t]
Fetched(n, t, e) == [kind |-> "fetched", attempt |-> n, token |-> t, error |-> e]
Event ==
    [kind : {"changed"}, token : Token \cup {Nil}]
    \cup [kind : {"fetched"}, attempt : Nat, token : Token \cup {Nil}, error : BOOLEAN]

Authenticate(t, restore) == [kind |-> "auth", token |-> t, restore |-> restore]
Unauth  == [kind |-> "unauth"]
Request == [kind : {"auth"}, token : Token, restore : BOOLEAN] \cup {Unauth}

Reply(ok, m) == [kind |-> "auth", ok |-> ok, token |-> m.token, restore |-> m.restore]
Revoked(t)   == [kind |-> "revoked", token |-> t]
Message ==
    [kind : {"auth"}, ok : BOOLEAN, token : Token, restore : BOOLEAN]
    \cup [kind : {"revoked"}, token : Token]

TypeOK ==
    /\ state \in States
    /\ realtime \in {"none", "connecting", "connected"}
    /\ reasons \subseteq Reasons
    /\ scheduled \in [force : BOOLEAN] \cup {Nil}
    /\ attempt \in Nat
    /\ authToken \in Token \cup {Nil}
    /\ forceRefresh \in BOOLEAN
    /\ user \in Users \cup {Nil}
    /\ cached \in Token \cup {Nil}
    /\ fetches \in Seq(Fetch)
    /\ events \in Seq(Event)
    /\ epoch \in 0..MaxEpoch
    /\ session \in Token \cup {Nil}
    /\ up \in Seq(Request)
    /\ down \in Seq(Message)
    /\ faults \in Nat /\ upsets \in Nat
    /\ stray \in BOOLEAN /\ overtaken \in BOOLEAN
    /\ refused \subseteq Token /\ forgotten \in BOOLEAN

Fresh(u) == [user |-> u, epoch |-> epoch]

Account(t) == IF t = Nil THEN Nil ELSE t.user

Init ==
    /\ state = "disconnected" /\ realtime = "none"
    /\ reasons = {"waitingForOpen"}
    /\ scheduled = Nil /\ attempt = 0 /\ authToken = Nil /\ forceRefresh = FALSE
    /\ epoch = 0
    /\ user \in Users \cup {Nil}
    /\ cached = IF user = Nil THEN Nil ELSE Fresh(user)
    /\ fetches = <<>> /\ events = <<>>
    /\ session = Nil /\ up = <<>> /\ down = <<>>
    /\ faults = 0 /\ upsets = 0
    /\ stray = FALSE /\ overtaken = FALSE /\ refused = {} /\ forgotten = FALSE

----------------------------------------------------------------------------
(* Parts of the handlers *)

Upset == upsets < MaxUpsets /\ upsets' = upsets + 1

\* connected: a request can be sent.
CanSend == state \in {"authenticating", "connected"}

\* Mutant of TryScheduleReconnect: the wish to force a refresh is dropped.
TryScheduleUnforced(rs, force) ==
    IF rs = {}
    THEN scheduled' = [force |-> FALSE] /\ forceRefresh' = FALSE
    ELSE scheduled' = scheduled /\ forceRefresh' = force

\* tryScheduleReconnect with the interrupt reasons rs: the retry captures
\* forceAuthTokenRefresh, which is cleared, and replaces a scheduled one.
TryScheduleReconnect(rs, force) ==
    IF rs = {}
    THEN scheduled' = [force |-> force] /\ forceRefresh' = FALSE
    ELSE scheduled' = scheduled /\ forceRefresh' = force

\* Mutant of OnDisconnect: the state is left to the caller.
OnDisconnectKeepingState(rs, force) ==
    /\ state' = (IF realtime = "connecting" THEN state ELSE "disconnected")
    /\ realtime' = "none"
    /\ up' = <<>> /\ down' = <<>> /\ session' = Nil
    /\ faults' = IF CanSend THEN faults + 1 ELSE faults
    /\ TryScheduleReconnect(rs, force)

\* The connection is closed and onDisconnect runs.
OnDisconnect(rs, force) ==
    /\ state' = "disconnected" /\ realtime' = "none"
    /\ up' = <<>> /\ down' = <<>> /\ session' = Nil
    /\ faults' = IF CanSend THEN faults + 1 ELSE faults
    /\ TryScheduleReconnect(rs, force)

\* interruptForReason: a connection is closed, or the retry is cancelled.
InterruptForReason(r) ==
    /\ reasons' = reasons \cup {r}
    /\ IF realtime # "none" THEN OnDisconnect(reasons', forceRefresh)
       ELSE /\ state' = "disconnected" /\ scheduled' = Nil
            /\ UNCHANGED <<realtime, forceRefresh, wire, faults>>
    /\ UNCHANGED <<attempt, authToken>>

\* resumeForReason
ResumeForReason(r) ==
    /\ reasons' = reasons \ {r}
    /\ IF reasons' = {} /\ state = "disconnected"
       THEN TryScheduleReconnect(reasons', forceRefresh)
       ELSE UNCHANGED <<scheduled, forceRefresh>>
    /\ UNCHANGED <<state, realtime, attempt, authToken, wire, faults>>

----------------------------------------------------------------------------
(* Opening *)

Open ==
    /\ "waitingForOpen" \in reasons
    /\ ResumeForReason("waitingForOpen")
    /\ UNCHANGED <<auth, epoch, upsets, ghost>>

\* goOffline and goOnline of the database.
GoOffline ==
    /\ "repoInterrupt" \notin reasons
    /\ Upset
    /\ InterruptForReason("repoInterrupt")
    /\ forgotten' = (forgotten \/ (scheduled # Nil /\ scheduled.force))
    /\ UNCHANGED <<auth, epoch, stray, overtaken, refused>>

GoOnline ==
    /\ "repoInterrupt" \in reasons
    /\ ResumeForReason("repoInterrupt")
    /\ UNCHANGED <<auth, epoch, upsets, ghost>>

\* The app enters the foreground or the network becomes reachable while a retry
\* waits: a new retry takes its place.
Nudge ==
    /\ state = "disconnected" /\ scheduled # Nil
    /\ TryScheduleReconnect(reasons, forceRefresh)
    /\ IF scheduled.force THEN Upset /\ forgotten' = TRUE ELSE UNCHANGED <<upsets, forgotten>>
    /\ UNCHANGED <<state, realtime, reasons, attempt, authToken, auth, wire, epoch, faults,
                   stray, overtaken, refused>>

\* The scheduled block: a token is asked for.
Retry ==
    /\ scheduled # Nil
    /\ scheduled' = Nil
    /\ state' = "gettingToken"
    /\ attempt' = attempt + 1
    /\ fetches' = Append(fetches, [attempt |-> attempt', force |-> scheduled.force,
                                   user |-> user, mine |-> TRUE])
    /\ stray' = FALSE
    /\ UNCHANGED <<realtime, reasons, authToken, forceRefresh, user, cached, events, wire,
                   epoch, faults, upsets, overtaken, refused, forgotten>>

\* Mutant of OnToken: the answer to an earlier attempt is taken.
OnTokenOfAny ==
    /\ events # <<>> /\ Head(events).kind = "fetched"
    /\ IF ~Head(events).error /\ state = "gettingToken"
       THEN /\ authToken' = Head(events).token /\ overtaken' = stray
            /\ state' = "connecting" /\ realtime' = "connecting"
            /\ UNCHANGED <<scheduled, forceRefresh>>
       ELSE IF Head(events).error
       THEN /\ state' = "disconnected"
            /\ TryScheduleReconnect(reasons, forceRefresh)
            /\ UNCHANGED <<authToken, realtime, overtaken>>
       ELSE UNCHANGED <<authToken, state, realtime, scheduled, forceRefresh, overtaken>>
    /\ events' = Tail(events)
    /\ UNCHANGED <<reasons, attempt, user, cached, fetches, wire, epoch, faults, upsets,
                   stray, refused, forgotten>>

\* Mutant of OnToken: nothing is scheduled after an error.
OnTokenGivingUp ==
    /\ events # <<>> /\ Head(events).kind = "fetched"
    /\ LET e == Head(events)
       IN  IF e.attempt = attempt /\ e.error
           THEN /\ state' = "disconnected"
                /\ UNCHANGED <<authToken, realtime, overtaken>>
           ELSE IF e.attempt = attempt /\ state = "gettingToken"
           THEN /\ authToken' = e.token /\ overtaken' = stray
                /\ state' = "connecting" /\ realtime' = "connecting"
           ELSE UNCHANGED <<authToken, state, realtime, overtaken>>
    /\ events' = Tail(events)
    /\ UNCHANGED <<scheduled, forceRefresh, reasons, attempt, user, cached, fetches, wire,
                   epoch, faults, upsets, stray, refused, forgotten>>

\* The answer to a fetch: that of the latest attempt opens a connection, unless
\* the client was interrupted; an error schedules the next attempt.
OnToken ==
    /\ events # <<>> /\ Head(events).kind = "fetched"
    /\ LET e == Head(events)
       IN  \/ /\ e.attempt = attempt /\ e.error
              /\ state' = "disconnected"
              /\ TryScheduleReconnect(reasons, forceRefresh)
              /\ UNCHANGED <<authToken, realtime, overtaken>>
           \/ /\ e.attempt = attempt /\ ~e.error /\ state = "gettingToken"
              /\ authToken' = e.token /\ overtaken' = stray
              /\ state' = "connecting" /\ realtime' = "connecting"
              /\ UNCHANGED <<scheduled, forceRefresh>>
           \/ /\ e.attempt # attempt \/ (~e.error /\ state # "gettingToken")
              /\ UNCHANGED <<authToken, state, realtime, scheduled, forceRefresh, overtaken>>
    /\ events' = Tail(events)
    /\ UNCHANGED <<reasons, attempt, user, cached, fetches, wire, epoch, faults, upsets,
                   stray, refused, forgotten>>

\* Mutant of OnReady: the token is sent without asking whether there is one.
OnReadyAlways ==
    /\ realtime = "connecting"
    /\ realtime' = "connected"
    /\ state' = "authenticating"
    /\ up' = Append(up, Authenticate(authToken, TRUE))
    /\ UNCHANGED <<reasons, scheduled, attempt, authToken, forceRefresh, auth, down, session,
                   epoch, faults, upsets, ghost>>

\* The server's handshake: onReady, and restoreAuth with the token there is.
OnReady ==
    /\ realtime = "connecting"
    /\ realtime' = "connected"
    /\ IF authToken = Nil
       THEN state' = "connected" /\ up' = up
       ELSE state' = "authenticating" /\ up' = Append(up, Authenticate(authToken, TRUE))
    /\ UNCHANGED <<reasons, scheduled, attempt, authToken, forceRefresh, auth, down, session,
                   epoch, faults, upsets, ghost>>

\* No connection within 30 seconds, or it fails.
ConnectFails ==
    /\ realtime = "connecting"
    /\ Upset
    /\ OnDisconnect(reasons, forceRefresh)
    /\ UNCHANGED <<reasons, attempt, authToken, auth, epoch, ghost>>

\* The connection is lost, or the server resets it.
Lose ==
    /\ realtime = "connected"
    /\ faults < MaxFaults
    /\ OnDisconnect(reasons, forceRefresh)
    /\ UNCHANGED <<reasons, attempt, authToken, auth, epoch, upsets, ghost>>

\* The server shuts the client out: onKill.
OnKill ==
    /\ realtime # "none"
    /\ Upset
    /\ InterruptForReason("serverKill")
    /\ UNCHANGED <<auth, epoch, ghost>>

----------------------------------------------------------------------------
(* Tokens on the connection *)

\* Mutant of RefreshAuthToken: a new token is not sent while the server has not
\* answered about the last.
RefreshWhenConnected ==
    /\ events # <<>> /\ Head(events).kind = "changed"
    /\ LET t == Head(events).token
       IN  /\ authToken' = t /\ overtaken' = FALSE
           /\ up' = IF state = "connected"
                    THEN Append(up, IF t = Nil THEN Unauth ELSE Authenticate(t, FALSE))
                    ELSE up
           /\ faults' = IF state = "connected" /\ t # Nil THEN faults + 1 ELSE faults
    /\ events' = Tail(events)
    /\ UNCHANGED <<state, realtime, reasons, scheduled, attempt, forceRefresh, user, cached,
                   fetches, down, session, epoch, upsets, stray, refused, forgotten>>

\* refreshAuthToken: Firebase Auth posted the current token.
RefreshAuthToken ==
    /\ events # <<>> /\ Head(events).kind = "changed"
    /\ LET t == Head(events).token
       IN  /\ authToken' = t /\ overtaken' = FALSE
           /\ up' = IF CanSend THEN Append(up, IF t = Nil THEN Unauth ELSE Authenticate(t, FALSE))
                    ELSE up
           /\ faults' = IF CanSend /\ t # Nil THEN faults + 1 ELSE faults
    /\ events' = Tail(events)
    /\ UNCHANGED <<state, realtime, reasons, scheduled, attempt, forceRefresh, user, cached,
                   fetches, down, session, epoch, upsets, stray, refused, forgotten>>

\* Mutant of ReceiveAuth: any accepted token ends authenticating, and a refused
\* one leaves the connection as it is.
ReceiveAuthKeeping ==
    /\ down # <<>> /\ Head(down).kind = "auth"
    /\ state' = "connected"
    /\ down' = Tail(down)
    /\ UNCHANGED <<realtime, reasons, scheduled, attempt, authToken, forceRefresh, auth, up,
                   session, epoch, faults, upsets, ghost>>

\* The answer to a token: a refused one is dropped with the connection, and the
\* next is to be a new one.
ReceiveAuth ==
    /\ down # <<>> /\ Head(down).kind = "auth"
    /\ IF Head(down).ok
       THEN /\ state' = "connected"
            /\ down' = Tail(down)
            /\ UNCHANGED <<realtime, scheduled, authToken, forceRefresh, up, session, faults,
                           refused, forgotten>>
       ELSE /\ authToken' = Nil
            /\ OnDisconnect(reasons, TRUE)
            /\ refused' = refused \cup {Head(down).token} /\ forgotten' = FALSE
    /\ UNCHANGED <<reasons, attempt, auth, epoch, upsets, stray, overtaken>>

\* onAuthRevoked
OnAuthRevoked ==
    /\ down # <<>> /\ Head(down).kind = "revoked"
    /\ authToken' = Nil
    /\ OnDisconnect(reasons, TRUE)
    /\ refused' = refused \cup {Head(down).token} /\ forgotten' = FALSE
    /\ UNCHANGED <<reasons, attempt, auth, epoch, upsets, stray, overtaken>>

----------------------------------------------------------------------------
(* Firebase Auth *)

\* updateCurrentUser: the new user's token is posted; calls for the old user
\* are still answered.
Become(u) ==
    /\ user' = u
    /\ cached' = IF u = Nil THEN Nil ELSE Fresh(u)
    /\ stray' = TRUE

Dropped(q) == [i \in DOMAIN q |-> [q[i] EXCEPT !.mine = FALSE]]

SignIn(u) ==
    /\ Upset
    /\ Become(u)
    /\ fetches' = Dropped(fetches)
    /\ events' = Append(events, Changed(Fresh(u)))
    /\ UNCHANGED <<link, wire, epoch, faults, overtaken, refused, forgotten>>

SignOut ==
    /\ user # Nil
    /\ Upset
    /\ Become(Nil)
    /\ fetches' = Dropped(fetches)
    /\ events' = Append(events, Changed(Nil))
    /\ UNCHANGED <<link, wire, epoch, faults, overtaken, refused, forgotten>>

\* The access token is renewed before it expires.
Renew ==
    /\ user # Nil /\ cached.epoch # epoch
    /\ cached' = Fresh(user)
    /\ events' = Append(events, Changed(cached'))
    /\ UNCHANGED <<link, user, fetches, wire, epoch, faults, upsets, ghost>>

\* The calls of one user are answered in order.
Answerable(i) ==
    \A j \in 1..(i - 1) : fetches[j].user # fetches[i].user \/ fetches[j].mine # fetches[i].mine

Without(q, i) == SubSeq(q, 1, i - 1) \o SubSeq(q, i + 1, Len(q))

\* A call that need not be forced is answered with the token there is.
AnswerCached(i) ==
    /\ Answerable(i)
    /\ LET f == fetches[i]
       IN  /\ ~f.force \/ f.user = Nil
           /\ \E t \in Token \cup {Nil} :
                 /\ IF f.user = Nil THEN t = Nil
                    ELSE IF f.mine THEN t = cached
                    ELSE t # Nil /\ t.user = f.user /\ t.epoch <= epoch
                 /\ events' = Append(events, Fetched(f.attempt, t, FALSE))
    /\ fetches' = Without(fetches, i)
    /\ UNCHANGED <<link, user, cached, wire, epoch, faults, upsets, ghost>>

\* A call that is forced, or whose token has expired, is answered by the token
\* service; a new token of the current user is posted before the call is answered.
AnswerRefreshed(i) ==
    /\ Answerable(i) /\ fetches[i].user # Nil
    /\ LET f == fetches[i]
           t == Fresh(f.user)
           answer == Fetched(f.attempt, t, FALSE)
       IN  IF f.mine /\ cached # t
           THEN cached' = t /\ events' = events \o <<Changed(t), answer>>
           ELSE cached' = cached /\ events' = Append(events, answer)
    /\ fetches' = Without(fetches, i)
    /\ UNCHANGED <<link, user, wire, epoch, faults, upsets, ghost>>

\* The token service fails; a user it no longer knows is signed out.
FetchFails(i) ==
    /\ Answerable(i) /\ fetches[i].user # Nil
    /\ Upset
    /\ LET f == fetches[i]
           answer == Fetched(f.attempt, Nil, TRUE)
       IN  /\ \/ /\ events' = Append(events, answer)
                 /\ fetches' = Without(fetches, i)
                 /\ UNCHANGED <<user, cached, stray>>
              \/ /\ f.mine
                 /\ user' = Nil /\ cached' = Nil
                 /\ events' = events \o <<Changed(Nil), answer>>
                 /\ fetches' = Dropped(Without(fetches, i))
                 /\ stray' = TRUE
           /\ forgotten' = (forgotten \/ f.force)
    /\ UNCHANGED <<link, wire, epoch, faults, overtaken, refused>>

----------------------------------------------------------------------------
(* The server *)

\* Tokens issued so far are not accepted any longer: they expired, or the
\* account's password was changed.
Expire ==
    /\ epoch < MaxEpoch
    /\ epoch' = epoch + 1
    /\ UNCHANGED <<link, auth, wire, faults, upsets, ghost>>

Serve ==
    /\ up # <<>>
    /\ LET m == Head(up)
       IN  IF m.kind = "unauth" THEN session' = Nil /\ down' = down
           ELSE LET ok == m.token.epoch = epoch
                IN  /\ session' = IF ok THEN m.token ELSE session
                    /\ down' = Append(down, Reply(ok, m))
    /\ up' = Tail(up)
    /\ UNCHANGED <<link, auth, epoch, faults, upsets, ghost>>

Revoke ==
    /\ session # Nil /\ session.epoch # epoch
    /\ session' = Nil
    /\ down' = Append(down, Revoked(session))
    /\ UNCHANGED <<link, auth, up, epoch, faults, upsets, ghost>>

----------------------------------------------------------------------------
Receive == ReceiveAuth \/ OnAuthRevoked

Answer == \E i \in DOMAIN fetches : AnswerCached(i) \/ AnswerRefreshed(i)

Next ==
    \/ Open \/ GoOffline \/ GoOnline \/ Nudge \/ Retry
    \/ OnToken \/ OnReady \/ ConnectFails \/ Lose \/ OnKill
    \/ RefreshAuthToken \/ Receive
    \/ (\E u \in Users : SignIn(u)) \/ SignOut \/ Renew
    \/ Answer \/ (\E i \in DOMAIN fetches : FetchFails(i))
    \/ Expire \/ Serve \/ Revoke

Spec == Init /\ [][Next]_vars

\* Blocks on the queue run, Firebase Auth answers, and the server does.
FairSpec ==
    /\ Spec
    /\ WF_vars(Retry) /\ WF_vars(OnToken) /\ WF_vars(RefreshAuthToken)
    /\ WF_vars(Answer) /\ WF_vars(OnReady) /\ WF_vars(Serve) /\ WF_vars(Receive)

----------------------------------------------------------------------------
(* Properties *)

\* The client never waits for nothing and never tries twice at once: a retry is
\* scheduled exactly while it is disconnected and nothing interrupts it, whatever
\* closed the connection and in which order tokens, errors and interruptions came
\* (the assertions of tryScheduleReconnect, FPersistentConnection.m:392 and 399).
ReconnectIsScheduled ==
    scheduled # Nil <=> state = "disconnected" /\ reasons = {}

\* Nothing is sent on an FConnection that is not connected, which throws an
\* exception (FConnection.m:101), and an interrupted client has no connection.
SendsAreSafe ==
    /\ CanSend <=> realtime = "connected"
    /\ state = "connecting" <=> realtime = "connecting"
    /\ reasons # {} => realtime = "none"

\* When the answer to the latest attempt comes, no connection has been opened
\* since: the client still waits for it or was interrupted (the assertion at
\* FPersistentConnection.m:417).  One that was opened meanwhile would be lost
\* without being closed.
TokenIsExpected ==
    (\/ \E i \in DOMAIN fetches : fetches[i].attempt = attempt
     \/ \E i \in DOMAIN events : events[i].kind = "fetched" /\ events[i].attempt = attempt)
        => state \in {"gettingToken", "disconnected"}

\* When everything has been exchanged the server knows the connection by the
\* account that is signed in, or by none if there is none; but for a connection that
\* was opened with the answer to a fetch asked for a previous user, until the next
\* token is posted (that answer replaces the token posted for the new user).
AuthIsCurrent ==
    state = "connected" /\ up = <<>> /\ down = <<>>
        /\ (\A i \in DOMAIN events : events[i].kind # "changed") /\ ~overtaken
    => Account(session) = user

\* "We will refresh the token later on reconnect" (FPersistentConnection.m:529): no
\* connection is given a token the client was told is not accepted, unless a forced
\* refresh was forgotten since the last time it was told so (the retry that was to make
\* it was replaced or cancelled, or it failed), or it is the answer for a previous user.
\* So each time a refused token is offered again something prevented its refresh anew.
RefusedIsRefreshed ==
    realtime # "none" /\ authToken \in refused => forgotten \/ overtaken

\* "we will refresh the token later on reconnect" (FPersistentConnection.m:529): a
\* connection of the user who asked for it has no token that was refused.  It may have:
\* onAuthRevoked schedules a retry that forces a new token, and enteringForeground
\* replaces it with one that does not.
RefreshedOnReconnect ==
    realtime # "none" /\ ~overtaken => authToken \notin refused

\* As long as nobody interrupts it, the client is connected again in the end.
Reconnects == reasons = {} ~> (state = "connected" \/ reasons # {})

\* The connection as RealtimeDatabase has it, of a client that reads and writes
\* nothing: requests and answers other than those about tokens are left out.
Asked(q) ==
    LET asked[i \in 0..Len(q)] ==
            IF i = 0 THEN <<>>
            ELSE IF q[i].kind = "auth" THEN Append(asked[i - 1], q[i])
            ELSE asked[i - 1]
    IN  asked[Len(q)]

AuthRequests(q) == [i \in DOMAIN q |-> [kind |-> "auth", restore |-> q[i].restore]]
AuthReplies(q)  == [i \in DOMAIN q |-> [kind |-> "auth", ok |-> q[i].ok, restore |-> q[i].restore]]

Only(v)  == [c \in {"client"} |-> v]
Database == INSTANCE RealtimeDatabase WITH
    Clients <- {"client"}, Locs <- {}, MaxWrites <- 0, MaxReads <- 0, MaxFaults <- ManyFaults,
    conn <- Only(IF CanSend THEN state ELSE "down"),
    issued <- Only(0), observed <- Only(0), writes <- Only({}), outstanding <- Only({}),
    toAck <- Only({}), listens <- Only({}), unacked <- Only(0),
    up <- Only(AuthRequests(Asked(up))), down <- Only(AuthReplies(Asked(down))),
    db <- <<>>, status <- <<>>, applied <- {}, got <- Only(Nil)

\* What RealtimeDatabase assumes of its connection is what this one does.
IsDatabaseLink == Database!Spec

============================================================================
