------------------------ MODULE CarefulSession_proofs ------------------------
(***************************************************************************)
(* Proofs about a careful user's session for any number of accounts, calls  *)
(* and User objects: the main screens act for the account that is signed    *)
(* in, nobody's record lists another account's beacons, and creating a      *)
(* record never overwrites one.  They rest on the invariant of              *)
(* Session_proofs and on Settled, which says who may be waiting for what on *)
(* which screen.                                                           *)
(***************************************************************************)
EXTENDS CarefulSession, Session_proofs

\* Only accounts that exist have records.
KnownOK ==
    /\ auth # Nil => auth \in accounts
    /\ \A u \in Uids : users[u] # Nil => u \in accounts

\* Records, objects and the archived user list their own account's beacons.
PrivateOK ==
    /\ \A u \in Uids : users[u] # Nil => users[u].beacons \subseteq {u}
    /\ \A o \in Objects : heap[o] # Nil => heap[o].beacons \subseteq {heap[o].uid}
    /\ saved # Nil => saved.beacons \subseteq {saved.uid}

\* Pending writes are those of the signed-in account, and create none twice.
WritesOK ==
    \A j \in 1 .. Len(puts) :
        /\ puts[j].uid = auth /\ puts[j].entry.beacons \subseteq {auth}
        /\ calls[puts[j].slot].step = "create" => users[puts[j].uid] = Nil

\* No call outlives the process, and Launch adopts the signed-in account.
OffOK ==
    screen = "off" =>
        /\ \A s \in Slots : calls[s].step = "idle"
        /\ auth # Nil /\ saved # Nil => saved.uid = auth

\* An account the server has found exists, and one that was just made for a
\* sign-up has no record yet.
Found(c) ==
    c.step = "info" => c.uid \in accounts /\ (c.via = "signup" => users[c.uid] = Nil)

\* A login screen waits for one call, of the account that signed in.
LoginOK ==
    screen \in LoginScreens =>
        \A s \in Slots :
            /\ calls[s].step \notin {"update", "beacons"}
            /\ calls[s].step \in {"show", "create", "reread"} => calls[s].uid = auth
            /\ Found(calls[s])
            /\ \A t \in Slots : calls[s].step # "idle" /\ calls[t].step # "idle" => s = t

\* A main screen waits for reads and writes of the signed-in account only.
MainOK ==
    screen \in MainScreens =>
        /\ auth # Nil /\ heap[current].uid = auth
        /\ \A s \in Slots :
              /\ calls[s].step \in {"idle", "update", "beacons"}
              /\ calls[s].step # "idle" => calls[s].uid = auth
              /\ calls[s].step = "update" => heap[calls[s].obj].uid = auth

Settled == KnownOK /\ PrivateOK /\ WritesOK /\ OffOK /\ LoginOK /\ MainOK

CInv == IInv /\ (careful => Settled)

----------------------------------------------------------------------------
(* What the parts say of a call *)

\* The types the proofs below need.
LEMMA Types ==
    ASSUME IInv
    PROVE  /\ calls \in [Slots -> Call] /\ puts \in Seq(Put)
           /\ heap \in [Objects -> User \cup {Nil}] /\ saved \in User \cup {Nil}
           /\ users \in [Uids -> Entry \cup {Nil}] /\ auth \in Uids \cup {Nil}
           /\ screen \in Screens \cup {"off"} /\ current \in Objects \cup {Nil}
           /\ Len(puts) \in Nat
BY DEF IInv, TypeOK

\* A controller that leaves does not change what its calls do.
LEMMA DetachSame ==
    ASSUME NEW cs \in [Slots -> Call], NEW left
    PROVE  \A t \in Slots : /\ Detach(cs, left)[t].step = cs[t].step
                            /\ Detach(cs, left)[t].via = cs[t].via
                            /\ Detach(cs, left)[t].uid = cs[t].uid
BY DEF Detach, Call

\* Without a call there is no pending write.
LEMMA NoWrites ==
    ASSUME IInv, \A s \in Slots : calls[s].step \notin {"create", "update"}
    PROVE  Len(puts) = 0
<1>1. \A j \in 1 .. Len(puts) : puts[j].slot \in Slots
  BY PutAt DEF IInv, TypeOK
<1>2. \A j \in 1 .. Len(puts) : FALSE
  BY <1>1 DEF IInv, PutsOK
<1> QED
  BY <1>2, Types

\* A login that is under way is the only call there is.
LEMMA LoginFacts ==
    ASSUME IInv, Settled, NEW s \in Slots,
           calls[s].step \in {"facebook", "auth", "info", "show", "create", "reread"}
    PROVE  /\ screen \in LoginScreens /\ Found(calls[s])
           /\ \A t \in Slots : t # s => calls[t].step = "idle"
           /\ calls[s].step \in {"show", "create", "reread"} => calls[s].uid = auth
           /\ calls[s].step # "facebook" => calls[s].uid \in Uids
           /\ calls[s].step # "create" => Len(puts) = 0
<1>1. screen \in LoginScreens
  BY Types DEF Settled, OffOK, MainOK, Screens
<1>2. \A t \in Slots : t # s => calls[t].step = "idle"
  BY <1>1 DEF Settled, LoginOK
<1>3. calls[s].step # "create" => Len(puts) = 0
  BY <1>2, NoWrites
<1>4. calls[s].step # "facebook" => calls[s].uid \in Uids
  BY Types DEF IInv, CallsOK, Call
<1> QED
  BY <1>1, <1>2, <1>3, <1>4 DEF Settled, LoginOK

\* A read or a write of the main screens is that of the signed-in account.
LEMMA MainFacts ==
    ASSUME IInv, Settled, NEW s \in Slots, calls[s].step \in {"update", "beacons"}
    PROVE  /\ screen \in MainScreens /\ auth \in Uids /\ auth \in accounts
           /\ calls[s].uid = auth
           /\ current \in Objects /\ heap[current] \in User /\ heap[current].uid = auth
<1>1. screen \in MainScreens
  BY Types DEF Settled, OffOK, LoginOK, Screens
<1>2. current \in Objects /\ heap[current] \in User
  BY <1>1, Types DEF IInv, CurrentUserExists, HeapOK
<1> QED
  BY <1>1, <1>2, Types DEF Settled, MainOK, KnownOK

\* A login screen stays one, with at most the call in slot s.
LEMMA LoginKept ==
    ASSUME NEW s \in Slots, screen' \in LoginScreens,
           \A t \in Slots : t # s => calls'[t].step = "idle",
           calls'[s].step \notin {"update", "beacons"},
           calls'[s].step \in {"show", "create", "reread"} => calls'[s].uid = auth',
           Found(calls[s])'
    PROVE  OffOK' /\ LoginOK' /\ MainOK'
BY DEF Found, OffOK, LoginOK, MainOK, LoginScreens, MainScreens

----------------------------------------------------------------------------
(* Every careful step keeps Settled *)

\* The archived user is the signed-in one.
LEMMA LaunchSettled ==
    ASSUME IInv, Settled, Launch
    PROVE  Settled'
<1> USE DEF Launch, kept, server
<1>1. \A s \in Slots : calls[s].step = "idle"
  BY DEF Settled, OffOK
<1>2. CASE auth # Nil /\ saved # Nil
  <2>1. PICK o \in Objects : /\ heap' = [heap EXCEPT ![o] = saved]
                             /\ current' = o /\ screen' = "home"
    BY <1>2
  <2>2. heap'[o] = saved /\ \A x \in Objects : x # o => heap'[x] = heap[x]
    BY <2>1, Types
  <2>3. OffOK' /\ LoginOK' /\ MainOK'
    BY <1>1, <1>2, <2>1, <2>2 DEF Settled, OffOK, LoginOK, MainOK, LoginScreens
  <2>4. PrivateOK'
    BY <2>2 DEF Settled, PrivateOK
  <2> QED
    BY <2>3, <2>4 DEF Settled, KnownOK, WritesOK
<1>3. CASE ~(auth # Nil /\ saved # Nil)
  <2>1. screen' = "landing" /\ UNCHANGED <<kept, server, heap, current, calls, puts>>
    BY <1>3
  <2>2. OffOK' /\ LoginOK' /\ MainOK'
    BY <1>1, <2>1 DEF Found, OffOK, LoginOK, MainOK, MainScreens
  <2> QED
    BY <2>1, <2>2 DEF Settled, KnownOK, PrivateOK, WritesOK
<1> QED
  BY <1>2, <1>3

\* The app is killed while nobody is signed in, or on a main screen.
LEMMA KillSettled ==
    ASSUME IInv, Settled, Kill, screen \in MainScreens \/ auth = Nil
    PROVE  Settled'
<1>1. /\ screen' = "off" /\ puts' = <<>> /\ UNCHANGED <<auth, saved, accounts>>
      /\ \A o \in Objects : heap'[o] = Nil
      /\ \A s \in Slots : calls'[s].step = "idle"
  BY DEF Kill, kept, Idle
<1>2. auth # Nil /\ saved # Nil => saved.uid = auth
  BY DEF Settled, MainOK, IInv, SavedIsCurrent, CurrentUserExists
<1>3. OffOK' /\ LoginOK' /\ MainOK'
  BY <1>1, <1>2 DEF OffOK, LoginOK, MainOK, LoginScreens, MainScreens
<1>4. WritesOK'
  BY <1>1 DEF WritesOK
<1>5. ASSUME NEW u \in Uids, users'[u] # Nil
      PROVE  u \in accounts /\ users'[u].beacons \subseteq {u}
  <2>1. CASE users'[u] = users[u]
    BY <1>5, <2>1 DEF Settled, KnownOK, PrivateOK
  <2>2. CASE \E j \in DOMAIN puts : puts[j].uid = u /\ users'[u] = puts[j].entry
    <3>1. PICK j \in 1 .. Len(puts) : puts[j].uid = u /\ users'[u] = puts[j].entry
      BY <2>2, Types
    <3>2. u = auth
      BY <3>1 DEF Settled, WritesOK
    <3> QED
      BY <3>1, <3>2, NilIsNobody DEF Settled, WritesOK, KnownOK
  <2> QED
    BY <2>1, <2>2 DEF Kill
<1>6. KnownOK' /\ PrivateOK'
  BY <1>1, <1>5 DEF Settled, KnownOK, PrivateOK
<1> QED
  BY <1>3, <1>4, <1>6 DEF Settled

\* A login is begun when nothing is outstanding.
LEMMA TapSettled ==
    ASSUME IInv, Settled, Quiet, Tap
    PROVE  Settled'
<1>1. PICK s \in Slots : TapFacebook(s) \/ \E u \in Uids : TapLogin(s, u) \/ TapSignUp(s, u)
  BY DEF Tap
<1>2. /\ UNCHANGED <<kept, server, heap, current, screen, puts>>
      /\ screen \in LoginScreens
      /\ \E c \in [step : {"auth", "facebook"}, via : Vias, uid : Uids \cup {Nil},
                   from : {screen}, obj : {Nil}] : calls' = [calls EXCEPT ![s] = c]
  BY <1>1 DEF TapLogin, TapSignUp, TapFacebook, Begin, LoginScreens, Vias
<1>3. \A t \in Slots : calls[t].step = "idle"
  BY DEF Quiet, Idle
<1>4. /\ calls'[s].step \in {"auth", "facebook"}
      /\ \A t \in Slots : t # s => calls'[t].step = "idle"
  BY <1>2, <1>3, Types
<1>5. OffOK' /\ LoginOK' /\ MainOK'
  BY <1>2, <1>4, LoginKept DEF Found
<1>6. WritesOK'
  BY <1>2, <1>3, NoWrites DEF WritesOK
<1> QED
  BY <1>2, <1>5, <1>6 DEF Settled, KnownOK, PrivateOK, kept, server

\* So is the logout.
LEMMA LogoutSettled ==
    ASSUME IInv, Settled, Quiet, Logout
    PROVE  Settled'
<1>1. /\ UNCHANGED <<server, fbToken, saved, heap, current, calls, puts>>
      /\ auth' = Nil /\ screen' = "landing"
  BY DEF Logout
<1>2. \A t \in Slots : calls[t].step = "idle"
  BY DEF Quiet, Idle
<1>3. OffOK' /\ LoginOK' /\ MainOK'
  BY <1>1, <1>2 DEF Found, OffOK, LoginOK, MainOK, MainScreens
<1>4. WritesOK'
  BY <1>1, <1>2, NoWrites DEF WritesOK
<1> QED
  BY <1>1, <1>3, <1>4 DEF Settled, KnownOK, PrivateOK, server

\* Moving between login screens, or between main screens.
LEMMA MoveSettled ==
    ASSUME IInv, Settled, Move
    PROVE  Settled'
<1>1. CASE \E to \in Screens : Present(to) \/ Navigate(to)
  <2>1. /\ UNCHANGED <<kept, server, heap, current, calls, puts>>
        /\ \/ screen \in LoginScreens /\ screen' \in LoginScreens
           \/ screen \in MainScreens /\ screen' \in MainScreens
    BY <1>1 DEF Present, Navigate, LoginScreens, MainScreens
  <2>2. OffOK' /\ LoginOK' /\ MainOK'
    BY <2>1 DEF Settled, Found, OffOK, LoginOK, MainOK, LoginScreens, MainScreens, kept, server
  <2> QED
    BY <2>1, <2>2 DEF Settled, KnownOK, PrivateOK, WritesOK, kept, server
<1>2. CASE Dismiss
  <2>1. /\ UNCHANGED <<kept, server, heap, current, puts>>
        /\ screen \in LoginScreens /\ screen' = "landing"
        /\ calls' = Detach(calls, {screen})
    BY <1>2 DEF Dismiss, LoginScreens
  <2>2. \A t \in Slots : /\ calls'[t].step = calls[t].step /\ calls'[t].uid = calls[t].uid
                          /\ calls'[t].via = calls[t].via
    BY <2>1, Types, DetachType, DetachSame DEF Screens
  <2>3. OffOK' /\ LoginOK' /\ MainOK'
    BY <2>1, <2>2 DEF Settled, Found, OffOK, LoginOK, MainOK, LoginScreens, MainScreens, kept, server
  <2>4. WritesOK'
    <3>1. \A j \in 1 .. Len(puts) : puts[j].slot \in Slots
      BY Types, PutAt
    <3> QED
      BY <2>1, <2>2, <3>1 DEF Settled, WritesOK, kept, server
  <2> QED
    BY <2>1, <2>3, <2>4 DEF Settled, KnownOK, PrivateOK, kept, server
<1>3. CASE OpenProfile
  <2>1. /\ UNCHANGED <<kept, server, heap, current, puts>>
        /\ screen \in MainScreens /\ screen' = "profile"
    BY <1>3 DEF OpenProfile, MainScreens
  <2>2. \/ UNCHANGED calls
        \/ \E s \in Slots : /\ calls'[s].step = "beacons" /\ calls'[s].uid = heap[current].uid
                            /\ \A t \in Slots : t # s => calls'[t] = calls[t]
    BY <1>3, Types DEF OpenProfile, Begin
  <2>3. OffOK' /\ LoginOK' /\ MainOK'
    BY <2>1, <2>2 DEF Settled, OffOK, LoginOK, MainOK, LoginScreens, MainScreens, kept
  <2>4. WritesOK'
    <3>1. \A j \in 1 .. Len(puts) : puts[j].slot \in Slots
      BY Types, PutAt
    <3> QED
      BY <2>1, <2>2, <3>1 DEF Settled, WritesOK, kept, server
  <2> QED
    BY <2>1, <2>3, <2>4 DEF Settled, KnownOK, PrivateOK, kept, server
<1> QED
  BY <1>1, <1>2, <1>3 DEF Move

\* The write of an update is that of the current user.
LEMMA UpdateSettled ==
    ASSUME IInv, Settled, NEW s \in Slots, TapUpdate(s)
    PROVE  Settled'
<1>1. /\ UNCHANGED <<kept, server, heap, current>>
      /\ screen \in MainScreens /\ screen' = "profile"
      /\ puts' = Append(puts, [slot |-> s, uid |-> heap[current].uid,
                               entry |-> [beacons |-> heap[current].beacons]])
  BY DEF TapUpdate, MainScreens
<1>2. /\ calls'[s].step = "update" /\ calls'[s].uid = heap[current].uid
      /\ calls'[s].obj = current
      /\ \A t \in Slots : t # s => calls'[t] = calls[t]
  BY Types DEF TapUpdate, Begin
<1>3. current \in Objects /\ heap[current] \in User /\ heap[current] # Nil /\ heap[current].uid = auth
  BY <1>1, Types, NilIsNoRecord DEF IInv, CurrentUserExists, HeapOK, Settled, MainOK
<1>4. OffOK' /\ LoginOK' /\ MainOK'
  BY <1>1, <1>2, <1>3 DEF Settled, OffOK, LoginOK, MainOK, LoginScreens, MainScreens, kept
<1>5. WritesOK'
  <2> DEFINE p == [slot |-> s, uid |-> heap[current].uid,
                   entry |-> [beacons |-> heap[current].beacons]]
  <2>1. p \in Put
    BY <1>3 DEF Put, Entry, User
  <2>2. p.slot = s /\ p.uid = auth /\ p.entry.beacons \subseteq {auth}
    BY <1>3 DEF Settled, PrivateOK
  <2>3. puts' = Append(puts, p)
    BY <1>1
  <2> HIDE DEF p
  <2>4. /\ Len(puts') = Len(puts) + 1 /\ puts'[Len(puts) + 1] = p
        /\ \A j \in 1 .. Len(puts) : puts'[j] = puts[j]
    BY <2>1, <2>3, Types
  <2>5. \A j \in 1 .. Len(puts) : puts[j].slot \in Slots
    BY Types, PutAt
  <2>6. ASSUME NEW j \in 1 .. Len(puts')
        PROVE  /\ puts'[j].uid = auth /\ puts'[j].entry.beacons \subseteq {auth}
               /\ calls'[puts'[j].slot].step = "create" => users[puts'[j].uid] = Nil
    <3>1. j \in 1 .. Len(puts) \/ j = Len(puts) + 1
      BY <2>4, Types
    <3> QED
      BY <1>2, <2>2, <2>4, <2>5, <3>1 DEF Settled, WritesOK
  <2> QED
    BY <1>1, <2>6 DEF WritesOK, kept, server
<1> QED
  BY <1>1, <1>4, <1>5 DEF Settled, KnownOK, PrivateOK, kept, server

\* A call of a login screen ends, or goes on to sign in.
LEMMA EndSettled ==
    ASSUME IInv, Settled, NEW s \in Slots,
           FacebookFails(s) \/ AuthFails(s) \/ InfoFails(s) \/ ReadCancelled(s)
             \/ \E cancelled \in BOOLEAN, u \in Uids : FacebookReturns(s, cancelled, u)
    PROVE  Settled'
<1>1. /\ UNCHANGED <<users, saved, heap, current, screen, puts>>
      /\ calls[s].step \in {"facebook", "auth", "info", "show", "reread", "beacons"}
      /\ auth' = auth \/ (auth' = Nil /\ calls[s].step = "info")
      /\ calls'[s].step \in {"idle", "auth"}
      /\ calls[s].step = "beacons" => calls'[s].step = "idle"
      /\ \A t \in Slots : t # s => calls'[t] = calls[t]
  <2>1. /\ UNCHANGED <<users, saved, heap, current, screen, puts>>
        /\ calls[s].step \in {"facebook", "auth", "info", "show", "reread", "beacons"}
        /\ auth' = auth \/ (auth' = Nil /\ calls[s].step = "info")
        /\ \/ calls' = Free(s)
           \/ /\ calls[s].step = "facebook"
              /\ \E u \in Uids \cup {Nil} : calls' = [calls EXCEPT ![s].step = "auth", ![s].uid = u]
    <3>1. CASE FacebookFails(s) \/ AuthFails(s) \/ InfoFails(s) \/ ReadCancelled(s)
      BY <3>1 DEF FacebookFails, AuthFails, InfoFails, ReadCancelled, kept, server
    <3>2. ASSUME NEW cancelled \in BOOLEAN, NEW u \in Uids, FacebookReturns(s, cancelled, u)
          PROVE  /\ UNCHANGED <<server, auth, saved, heap, current, screen, puts>>
                 /\ calls[s].step = "facebook"
                 /\ calls' = Free(s) \/ \E v \in Uids \cup {Nil} :
                       calls' = [calls EXCEPT ![s].step = "auth", ![s].uid = v]
      <4>1. fbToken' \in Uids \cup {Nil}
        BY <3>2 DEF FacebookReturns, IInv, TypeOK
      <4> QED
        BY <3>2, <4>1 DEF FacebookReturns
    <3> QED
      BY <3>1, <3>2 DEF server
  <2>2. CASE calls' = Free(s)
    BY <2>1, <2>2, Types, FreeType DEF Idle
  <2>3. ASSUME NEW u \in Uids \cup {Nil},
               calls' = [calls EXCEPT ![s] = [@ EXCEPT !.step = "auth", !.uid = u]]
        PROVE  calls'[s].step = "auth" /\ \A t \in Slots : t # s => calls'[t] = calls[t]
    BY <2>3, Types DEF Call
  <2> QED
    BY <2>1, <2>2, <2>3
<1>2. accounts \subseteq accounts'
  BY DEF FacebookFails, AuthFails, InfoFails, ReadCancelled, FacebookReturns, kept, server
<1>3. CASE calls[s].step = "beacons"
  <2>1. OffOK' /\ LoginOK' /\ MainOK'
    BY <1>1, <1>3, MainFacts DEF Settled, OffOK, LoginOK, MainOK, LoginScreens, MainScreens
  <2>2. \A j \in 1 .. Len(puts) : puts[j].slot \in Slots
    BY Types, PutAt
  <2>3. WritesOK'
    BY <1>1, <1>3, <2>2 DEF Settled, WritesOK
  <2> QED
    BY <1>1, <1>2, <1>3, <2>1, <2>3 DEF Settled, KnownOK, PrivateOK
<1>4. CASE calls[s].step # "beacons"
  <2>1. /\ screen \in LoginScreens /\ Len(puts) = 0
        /\ \A t \in Slots : t # s => calls[t].step = "idle"
    BY <1>1, <1>4, LoginFacts
  <2>2. OffOK' /\ LoginOK' /\ MainOK'
    BY <1>1, <2>1, LoginKept DEF Found
  <2>3. WritesOK'
    BY <1>1, <2>1 DEF WritesOK
  <2> QED
    BY <1>1, <1>2, <2>2, <2>3 DEF Settled, KnownOK, PrivateOK
<1> QED
  BY <1>3, <1>4

\* create hands its write over for an account without a record.
LEMMA CreateSettled ==
    ASSUME IInv, Settled, NEW s \in Slots, calls[s].step \in {"info", "show"}, StartCreate(s),
           UNCHANGED <<accounts, users, saved, heap, current, screen>>,
           users[calls[s].uid] = Nil, auth' = calls[s].uid,
           calls[s].uid \in accounts
    PROVE  Settled'
<1> DEFINE p == [slot |-> s, uid |-> calls[s].uid, entry |-> [beacons |-> {}]]
<1>1. /\ screen \in LoginScreens /\ calls[s].uid \in Uids /\ Len(puts) = 0
      /\ \A t \in Slots : t # s => calls[t].step = "idle"
  BY LoginFacts
<1>2. /\ calls'[s].step = "create" /\ calls'[s].uid = calls[s].uid
      /\ \A t \in Slots : t # s => calls'[t] = calls[t]
  <2>1. calls' = [calls EXCEPT ![s] = [@ EXCEPT !.step = "create"]]
    BY DEF StartCreate
  <2> QED
    BY <2>1, Types DEF Call
<1>3. puts = <<>> /\ puts' = Append(puts, p)
  BY <1>1, Types DEF StartCreate
<1>4. p.slot = s /\ p.uid = auth' /\ p.entry.beacons = {}
  OBVIOUS
<1> HIDE DEF p
<1>5. Len(puts') = 1 /\ puts'[1] = p
  BY <1>3
<1>6. WritesOK'
  BY <1>2, <1>4, <1>5 DEF WritesOK
<1>7. OffOK' /\ LoginOK' /\ MainOK'
  BY <1>1, <1>2, LoginKept DEF Found
<1>8. KnownOK' /\ PrivateOK'
  BY <1>1 DEF Settled, KnownOK, PrivateOK
<1> QED
  BY <1>6, <1>7, <1>8 DEF Settled

\* What a read returns is the account's own.
LEMMA ReadsOwn ==
    ASSUME IInv, Settled, NEW u \in Uids, NEW v \in Entry \cup {Nil}, Reads(u, v), Len(puts) = 0
    PROVE  v = users[u] /\ (v # Nil => v.beacons \subseteq {u})
<1>1. DOMAIN puts = {}
  BY Types
<1>2. v = users[u]
  BY <1>1 DEF Reads
<1> QED
  BY <1>2 DEF Settled, PrivateOK

\* The account that signed in enters the main screens.
LEMMA EnterSettled ==
    ASSUME IInv, Settled, NEW s \in Slots, NEW v \in Entry, EnterMain(s, v),
           calls[s].step \in {"show", "reread"}, Reads(calls[s].uid, v),
           UNCHANGED <<accounts, users, auth, fbToken, puts>>
    PROVE  Settled'
<1> DEFINE user == [uid |-> calls[s].uid, beacons |-> v.beacons]
<1>1. /\ screen \in LoginScreens /\ calls[s].uid \in Uids /\ Len(puts) = 0
      /\ calls[s].uid = auth /\ \A t \in Slots : t # s => calls[t].step = "idle"
  BY LoginFacts
<1>2. PICK o \in Objects : /\ heap' = Retained([heap EXCEPT ![o] = user], o, calls)
                           /\ current' = o
  BY DEF EnterMain
<1>3. saved' = user /\ user.uid = auth /\ user.beacons \subseteq {auth}
  BY <1>1, ReadsOwn, NilIsNoRecord DEF EnterMain
<1>4. /\ screen' = screen \/ screen' = "home"
      /\ \A t \in Slots : calls'[t].step = "idle"
  <2>1. Free(s) \in [Slots -> Call] /\ \A t \in Slots : Free(s)[t].step = "idle"
    BY <1>1, Types, FreeType DEF Idle
  <2>2. /\ calls' = Free(s) \/ calls' = Detach(Free(s), Screens)
        /\ screen' = screen \/ screen' = "home"
    BY DEF EnterMain
  <2> QED
    BY <2>1, <2>2, DetachType
<1> HIDE DEF user
<1>5. /\ heap'[o] = user
      /\ \A x \in Objects : x # o => heap'[x] \in {Nil, heap[x]}
  BY <1>2, Types DEF Retained
<1>6. OffOK' /\ LoginOK' /\ MainOK'
  BY <1>1, <1>2, <1>3, <1>4, <1>5, NilIsNobody
     DEF Found, OffOK, LoginOK, MainOK, LoginScreens, MainScreens
<1>7. PrivateOK'
  BY <1>3, <1>5 DEF Settled, PrivateOK
<1>8. WritesOK'
  BY <1>1 DEF WritesOK
<1> QED
  BY <1>6, <1>7, <1>8 DEF Settled, KnownOK

\* A read that found no record ends the login.
LEMMA EndedSettled ==
    ASSUME IInv, Settled, NEW s \in Slots, calls[s].step \in {"show", "reread"}, calls' = Free(s),
           UNCHANGED <<accounts, users, auth, saved, heap, current, screen, puts>>
    PROVE  Settled'
<1>1. /\ screen \in LoginScreens /\ Len(puts) = 0
      /\ \A t \in Slots : t # s => calls[t].step = "idle"
  BY LoginFacts
<1>2. calls'[s].step = "idle" /\ \A t \in Slots : t # s => calls'[t] = calls[t]
  BY Types, FreeType DEF Idle
<1>3. OffOK' /\ LoginOK' /\ MainOK'
  BY <1>1, <1>2, LoginKept DEF Found
<1>4. WritesOK'
  BY <1>1 DEF WritesOK
<1> QED
  BY <1>3, <1>4 DEF Settled, KnownOK, PrivateOK

\* Firebase Auth signs an account in, and its record is read.
LEMMA LoginReplySettled ==
    ASSUME IInv, Settled, NEW s \in Slots,
           AccountFound(s) \/ AuthReturns(s) \/ ShowReturns(s) \/ RereadReturns(s)
    PROVE  Settled'
<1>0. CASE AccountFound(s)
  <2>1. /\ calls[s].step = "auth" /\ calls' = [calls EXCEPT ![s].step = "info"]
        /\ accounts' = accounts \cup {calls[s].uid}
        /\ calls[s].via = "signup" => calls[s].uid \notin accounts
        /\ UNCHANGED <<auth, users, saved, heap, current, screen, puts>>
    BY <1>0 DEF AccountFound, Admitted, kept
  <2>2. /\ screen \in LoginScreens /\ calls[s].uid \in Uids /\ Len(puts) = 0
        /\ \A t \in Slots : t # s => calls[t].step = "idle"
    BY <2>1, LoginFacts
  <2>3. /\ calls'[s].step = "info" /\ calls'[s].uid = calls[s].uid
        /\ calls'[s].via = calls[s].via /\ \A t \in Slots : t # s => calls'[t] = calls[t]
    BY <2>1, StepType
  <2>4. Found(calls[s])'
    BY <2>1, <2>2, <2>3 DEF Found, Settled, KnownOK
  <2>5. OffOK' /\ LoginOK' /\ MainOK'
    BY <2>1, <2>2, <2>3, <2>4, LoginKept
  <2>6. WritesOK'
    BY <2>1, <2>2 DEF WritesOK
  <2> QED
    BY <2>1, <2>5, <2>6 DEF Settled, KnownOK, PrivateOK
<1>1. CASE AuthReturns(s)
  <2>1. /\ calls[s].step = "info" /\ auth' = calls[s].uid
        /\ UNCHANGED <<accounts, users, saved, heap, current, screen>>
    BY <1>1 DEF AuthReturns, server
  <2>2. /\ screen \in LoginScreens /\ calls[s].uid \in Uids /\ Len(puts) = 0
        /\ \A t \in Slots : t # s => calls[t].step = "idle"
        /\ calls[s].uid \in accounts
        /\ calls[s].via = "signup" => users[calls[s].uid] = Nil
    BY <2>1, LoginFacts DEF Found
  <2>3. CASE calls[s].via = "signup"
    <3>1. StartCreate(s)
      BY <1>1, <2>3 DEF AuthReturns
    <3> QED
      BY <2>1, <2>2, <2>3, <3>1, CreateSettled
  <2>4. CASE calls[s].via # "signup"
    <3>1. calls' = [calls EXCEPT ![s] = [@ EXCEPT !.step = "show"]] /\ puts' = puts
      BY <1>1, <2>4 DEF AuthReturns
    <3>2. /\ calls'[s].step = "show" /\ calls'[s].uid = calls[s].uid
          /\ \A t \in Slots : t # s => calls'[t] = calls[t]
      BY <3>1, Types DEF Call
    <3>3. OffOK' /\ LoginOK' /\ MainOK'
      BY <2>1, <2>2, <3>2, LoginKept DEF Found
    <3>4. WritesOK'
      BY <2>2, <3>1 DEF WritesOK
    <3>5. KnownOK' /\ PrivateOK'
      BY <2>1, <2>2 DEF Settled, KnownOK, PrivateOK
    <3> QED
      BY <3>3, <3>4, <3>5 DEF Settled
  <2> QED
    BY <2>3, <2>4
<1>2. CASE ShowReturns(s)
  <2>1. PICK v \in Entry \cup {Nil} :
           /\ Reads(calls[s].uid, v)
           /\ IF v # Nil THEN EnterMain(s, v) /\ UNCHANGED puts
              ELSE /\ IF calls[s].via = "facebook" THEN StartCreate(s)
                      ELSE calls' = Free(s) /\ UNCHANGED puts
                   /\ UNCHANGED <<heap, current, saved, screen>>
    BY <1>2 DEF ShowReturns
  <2>2. calls[s].step = "show" /\ UNCHANGED <<accounts, users, auth, fbToken>>
    BY <1>2 DEF ShowReturns, server
  <2>3. /\ screen \in LoginScreens /\ calls[s].uid \in Uids /\ Len(puts) = 0
        /\ calls[s].uid = auth /\ \A t \in Slots : t # s => calls[t].step = "idle"
    BY <2>2, LoginFacts
  <2>4. CASE v # Nil
    BY <2>1, <2>2, <2>4, EnterSettled
  <2>5. CASE v = Nil /\ calls[s].via = "facebook"
    <3>1. StartCreate(s) /\ UNCHANGED <<heap, current, saved, screen>>
      BY <2>1, <2>5
    <3>2. users[calls[s].uid] = Nil
      BY <2>1, <2>3, <2>5, ReadsOwn
    <3>3. accounts' = accounts \cup {calls[s].uid} /\ auth' = calls[s].uid
      BY <2>2, <2>3, NilIsNobody DEF Settled, KnownOK
    <3> QED
      BY <2>2, <3>1, <3>2, <3>3, CreateSettled
  <2>6. CASE v = Nil /\ calls[s].via # "facebook"
    <3>1. calls' = Free(s) /\ UNCHANGED <<heap, current, saved, screen, puts>>
      BY <2>1, <2>6
    <3> QED
      BY <2>2, <2>3, <3>1, EndedSettled
  <2> QED
    BY <2>4, <2>5, <2>6
<1>3. CASE RereadReturns(s)
  <2>1. PICK v \in Entry \cup {Nil} :
           /\ Reads(calls[s].uid, v)
           /\ IF v # Nil THEN EnterMain(s, v)
              ELSE calls' = Free(s) /\ UNCHANGED <<heap, current, saved, screen>>
    BY <1>3 DEF RereadReturns
  <2>2. calls[s].step = "reread" /\ UNCHANGED <<accounts, users, auth, fbToken, puts>>
    BY <1>3 DEF RereadReturns, server
  <2>3. CASE v # Nil
    BY <2>1, <2>2, <2>3, EnterSettled
  <2>4. CASE v = Nil
    BY <2>1, <2>2, <2>4, LoginFacts, EndedSettled
  <2> QED
    BY <2>3, <2>4
<1> QED
  BY <1>0, <1>1, <1>2, <1>3

\* getBeacons answers for the user who is still current.
LEMMA BeaconsSettled ==
    ASSUME IInv, Settled, NEW s \in Slots, BeaconsReturn(s)
    PROVE  Settled'
<1>1. /\ calls[s].step = "beacons" /\ calls' = Free(s)
      /\ UNCHANGED <<kept, server, current, screen, puts>>
  BY DEF BeaconsReturn
<1>2. /\ screen \in MainScreens /\ auth \in Uids /\ calls[s].uid = auth
      /\ current \in Objects /\ heap[current] \in User /\ heap[current].uid = auth
  BY <1>1, MainFacts
<1>3. PICK keys \in SUBSET {calls[s].uid} :
         heap' = [heap EXCEPT ![current] = [@ EXCEPT !.beacons = keys]]
  BY DEF BeaconsReturn
<1>4. /\ heap'[current].uid = auth /\ heap'[current].beacons = keys
      /\ \A o \in Objects : o # current => heap'[o] = heap[o]
  BY <1>2, <1>3, Types DEF User
<1>5. \A o \in Objects : heap[o] # Nil => heap'[o].uid = heap[o].uid
  BY <1>2, <1>4
<1>6. /\ calls'[s].step = "idle"
      /\ \A t \in Slots : t # s => calls'[t] = calls[t]
  BY <1>1, Types, FreeType DEF Idle
<1>7. MainOK'
  <2>1. \A t \in Slots : calls[t].step = "update" =>
           calls[t].obj \in Objects /\ heap[calls[t].obj] # Nil
    BY Types DEF IInv, CallsOK, Call
  <2> QED
    BY <1>1, <1>2, <1>4, <1>5, <1>6, <2>1 DEF Settled, MainOK, kept
<1>8. OffOK' /\ LoginOK'
  BY <1>1, <1>2 DEF OffOK, LoginOK, LoginScreens, MainScreens
<1>9. WritesOK'
  <2>1. \A j \in 1 .. Len(puts) : puts[j].slot \in Slots
    BY Types, PutAt
  <2> QED
    BY <1>1, <1>6, <2>1 DEF Settled, WritesOK, kept, server
<1>10. PrivateOK'
  BY <1>1, <1>2, <1>3, <1>4 DEF Settled, PrivateOK, kept, server
<1>11. KnownOK'
  BY <1>1 DEF Settled, KnownOK, kept, server
<1> QED
  BY <1>7, <1>8, <1>9, <1>10, <1>11 DEF Settled

\* The reply to a write.
LEMMA PutSettled ==
    ASSUME IInv, Settled, PutReply
    PROVE  Settled'
<1> DEFINE p == Head(puts)
           s == p.slot
<1>1. /\ puts # <<>> /\ puts' = Tail(puts)
      /\ UNCHANGED <<accounts, auth, fbToken, screen>>
      /\ users' = users \/ users' = [users EXCEPT ![p.uid] = p.entry]
  BY DEF PutReply, PutAcked, PutRejected, server
<1>2. /\ s \in Slots /\ p.uid \in Uids /\ p.entry \in Entry
      /\ calls[s].step \in {"create", "update"}
      /\ puts' \in Seq(Put) /\ Len(puts') \in Nat
      /\ \A j \in 1 .. Len(puts') : /\ j + 1 \in 1 .. Len(puts)
                                    /\ puts'[j] = puts[j + 1]
                                    /\ puts'[j].slot \in Slots /\ puts'[j].slot # s
  BY <1>1, TailPut DEF IInv, Put
<1>3. p.uid = auth /\ p.entry.beacons \subseteq {auth}
  <2>1. p = puts[1] /\ 1 \in 1 .. Len(puts)
    BY <1>1, Types
  <2> QED
    BY <2>1 DEF Settled, WritesOK
<1>4. \/ /\ calls' \in {[calls EXCEPT ![s].step = "reread"], Free(s)}
         /\ calls[s].step = "create"
         /\ UNCHANGED <<heap, current, saved>>
      \/ /\ calls[s].step = "update"
         /\ AdoptCaptured(s)
  BY <1>2 DEF PutReply, PutAcked, PutRejected
<1>5. auth \in accounts /\ auth \in Uids
  BY <1>2, <1>3, NilIsNobody DEF Settled, KnownOK
<1> HIDE DEF p, s
<1>6. \A u \in Uids : \/ users'[u] = users[u]
                      \/ u = auth /\ users'[u].beacons \subseteq {auth}
  BY <1>1, <1>2, <1>3, Types
<1>7. KnownOK' /\ \A u \in Uids : users'[u] # Nil => users'[u].beacons \subseteq {u}
  BY <1>1, <1>5, <1>6 DEF Settled, KnownOK, PrivateOK
<1>8. CASE calls[s].step = "create"
  <2>1. /\ screen \in LoginScreens /\ calls[s].uid = auth
        /\ \A t \in Slots : t # s => calls[t].step = "idle"
    BY <1>2, <1>8, LoginFacts
  <2>2. UNCHANGED <<heap, current, saved>>
    BY <1>4, <1>8
  <2>3. /\ calls'[s].step \in {"reread", "idle"}
        /\ calls'[s].step = "reread" => calls'[s].uid = calls[s].uid
        /\ \A t \in Slots : t # s => calls'[t] = calls[t]
    <3>1. CASE calls' = Free(s)
      BY <1>2, <3>1, Types, FreeType DEF Idle
    <3>2. CASE calls' = [calls EXCEPT ![s].step = "reread"]
      BY <1>2, <3>2, Types DEF Call
    <3> QED
      BY <1>4, <1>8, <3>1, <3>2
  <2>4. OffOK' /\ LoginOK' /\ MainOK'
    BY <1>1, <1>2, <2>1, <2>3, LoginKept DEF Found
  <2>5. \A j \in 1 .. Len(puts') : FALSE
    BY <1>2, <2>1 DEF IInv, PutsOK
  <2>6. WritesOK'
    BY <2>5 DEF WritesOK
  <2>7. PrivateOK'
    BY <1>7, <2>2 DEF Settled, PrivateOK
  <2> QED
    BY <1>7, <2>4, <2>6, <2>7 DEF Settled
<1>9. CASE calls[s].step = "update"
  <2> DEFINE o == calls[s].obj
  <2>1. /\ screen \in MainScreens /\ auth # Nil
        /\ o \in Objects /\ heap[o] \in User /\ heap[o] # Nil /\ heap[o].uid = auth
    BY <1>2, <1>9, Types, MainFacts, NilIsNobody DEF IInv, CallsOK, Call, Settled, MainOK
  <2>2. /\ current' = o /\ saved' = heap[o] /\ heap' = Retained(heap, o, calls)
        /\ calls' = Free(s)
    BY <1>4, <1>9 DEF AdoptCaptured
  <2>3. /\ heap'[o] = heap[o]
        /\ \A x \in Objects : heap'[x] \in {Nil, heap[x]}
        /\ \A t \in Slots : calls[t].obj \in Objects => heap'[calls[t].obj] = heap[calls[t].obj]
    BY <2>1, <2>2, Types DEF Retained
  <2> HIDE DEF o
  <2>4. /\ calls'[s].step = "idle"
        /\ \A t \in Slots : t # s => calls'[t] = calls[t]
    BY <1>2, <2>2, Types, FreeType DEF Idle
  <2>5. MainOK'
    <3>1. \A t \in Slots : calls[t].step = "update" => calls[t].obj \in Objects
      BY Types DEF IInv, CallsOK, Call
    <3> QED
      BY <1>1, <2>1, <2>2, <2>3, <2>4, <3>1 DEF Settled, MainOK
  <2>6. OffOK' /\ LoginOK'
    BY <1>1, <2>1 DEF OffOK, LoginOK, LoginScreens, MainScreens
  <2>7. WritesOK'
    <3>1. \A t \in Slots : calls'[t].step # "create"
      BY <2>1, <2>4 DEF Settled, MainOK
    <3> QED
      BY <1>1, <1>2, <3>1 DEF Settled, WritesOK
  <2>8. PrivateOK'
    BY <1>7, <2>1, <2>2, <2>3 DEF Settled, PrivateOK
  <2> QED
    BY <1>7, <2>5, <2>6, <2>7, <2>8 DEF Settled
<1> QED
  BY <1>2, <1>8, <1>9

----------------------------------------------------------------------------
(* The theorems *)

\* Every reachable state of a careful user's session satisfies the invariant.
THEOREM CarefulInvariance == HistorySpec => []CInv
<1>1. Init /\ careful = TRUE => CInv
  <2> SUFFICES ASSUME Init PROVE IInv /\ Settled
    BY DEF CInv
  <2>1. KnownOK /\ PrivateOK /\ WritesOK /\ OffOK /\ LoginOK /\ MainOK
    BY DEF Init, KnownOK, PrivateOK, WritesOK, OffOK, LoginOK, MainOK, LoginScreens, MainScreens,
           Idle
  <2> QED
    BY <2>1, InitInv DEF Settled
<1>2. CInv /\ [HistoryNext]_<<vars, careful>> => CInv'
  <2> SUFFICES ASSUME CInv, [HistoryNext]_<<vars, careful>> PROVE CInv'
    OBVIOUS
  <2>1. IInv'
    BY StepInv DEF CInv, HistoryNext
  <2>2. CASE UNCHANGED <<vars, careful>>
    <3>1. Settled => Settled'
      BY <2>2 DEF vars, Found, Settled, KnownOK, PrivateOK, WritesOK, OffOK, LoginOK, MainOK
    <3> QED
      BY <2>1, <2>2, <3>1 DEF CInv
  <2>3. CASE HistoryNext
    <3> SUFFICES ASSUME careful' PROVE Settled'
      BY <2>1 DEF CInv
    <3>1. IInv /\ Settled /\ CarefulNext
      BY <2>3 DEF CInv, HistoryNext
    <3>2. CASE Launch \/ ((screen \in MainScreens \/ auth = Nil) /\ Kill) \/ (Quiet /\ (Tap \/ Logout))
      BY <3>1, <3>2, LaunchSettled, KillSettled, TapSettled, LogoutSettled
    <3>3. CASE Move \/ \E s \in Slots : TapUpdate(s)
      BY <3>1, <3>3, MoveSettled, UpdateSettled
    <3>4. CASE Reply \/ \E s \in Slots : ReadCancelled(s)
      <4>1. ASSUME NEW s \in Slots, CallReply(s) PROVE Settled'
        BY <3>1, <4>1, EndSettled, LoginReplySettled, BeaconsSettled DEF CallReply
      <4> QED
        BY <3>1, <3>4, <4>1, EndSettled, PutSettled DEF Reply
    <3> QED
      BY <3>1, <3>2, <3>3, <3>4 DEF CarefulNext
  <2> QED
    BY <2>2, <2>3
<1> QED
  BY <1>1, <1>2, PTL DEF HistorySpec

\* While the user waits for every completion, the main screens act for the
\* account that is signed in (User.current is that of Auth.currentUser).
THEOREM ActsForSignedIn == HistorySpec => []Agreement
<1>1. CInv => Agreement
  BY DEF CInv, Settled, MainOK, Agreement
<1> QED
  BY <1>1, CarefulInvariance, PTL

\* Nobody's record or User object lists another account's beacons.
THEOREM BeaconsPrivate == HistorySpec => []BeaconsStayPrivate
<1>1. CInv => BeaconsStayPrivate
  <2> SUFFICES ASSUME CInv, careful PROVE BeaconsStayPrivate
    BY DEF BeaconsStayPrivate
  <2>1. PrivateOK /\ IInv
    BY DEF CInv, Settled
  <2> QED
    BY <2>1, Types DEF PrivateOK, IInv, HeapOK, BeaconsStayPrivate
<1> QED
  BY <1>1, CarefulInvariance, PTL

\* UserService.create only writes where there is no record yet.
THEOREM NothingOverwritten == HistorySpec => []CreateNeverOverwrites
<1>1. CInv => CreateNeverOverwrites
  <2> SUFFICES ASSUME CInv, careful PROVE CreateNeverOverwrites
    BY DEF CreateNeverOverwrites
  <2>1. WritesOK /\ DOMAIN puts = 1 .. Len(puts)
    BY Types DEF CInv, Settled
  <2> QED
    BY <2>1 DEF WritesOK, CreateNeverOverwrites
<1> QED
  BY <1>1, CarefulInvariance, PTL

----------------------------------------------------------------------------
(* Records, whether the user is careful or not *)

\* A login is begun with one of the three buttons.
Proper(c) ==
    /\ c.step = "facebook" => c.via = "facebook"
    /\ c.step \in {"auth", "info"} => c.via \in {"email", "facebook", "signup"}

ViaOK == \A s \in Slots : Proper(calls[s])

\* The call in slot t is what it was, whether its controller is still there or not.
Same(t) == /\ calls'[t].step = calls[t].step /\ calls'[t].via = calls[t].via
           /\ calls'[t].uid = calls[t].uid

\* u has no record and no write that makes one.
Bare(u) ==
    u \in accounts /\ users[u] = Nil /\ \A j \in DOMAIN puts : puts[j].uid # u

\* The step strands nobody, or nobody but the account v.
NoneStranded      == \A u \in Uids : Stranded(u)' => Stranded(u)
OnlyStranded(v)   == \A u \in Uids : u # v /\ Stranded(u)' => Stranded(u)

\* No call changes.
LEMMA CallsSame ==
    ASSUME ViaOK, \A t \in Slots : Same(t), \A u \in Uids : Bare(u)' => Bare(u)
    PROVE  ViaOK' /\ NoneStranded
BY DEF ViaOK, Proper, Same, NoneStranded, Stranded, Bare, WillCreate

\* One call changes: an account is stranded only if that takes its record away.
LEMMA StillStranded ==
    ASSUME NEW s \in Slots, \A t \in Slots : t # s => Same(t),
           NEW u \in Uids, Stranded(u)',
           Bare(u)' /\ ~WillCreate(calls'[s], u) => Bare(u) /\ ~WillCreate(calls[s], u)
    PROVE  Stranded(u)
<1>1. Bare(u)' /\ ~WillCreate(calls'[s], u)
  BY DEF Stranded, Bare, WillCreate
<1>2. Bare(u) /\ ~WillCreate(calls[s], u)
  BY <1>1
<1> QED
  BY <1>2 DEF Stranded, Bare, WillCreate, Same

\* One call changes, and none was going to write a record that is still missing.
LEMMA CallChanged ==
    ASSUME ViaOK, NEW s \in Slots, \A t \in Slots : t # s => Same(t), Proper(calls'[s]),
           \A u \in Uids : Bare(u)' /\ ~WillCreate(calls'[s], u)
                              => Bare(u) /\ ~WillCreate(calls[s], u)
    PROVE  ViaOK' /\ NoneStranded
<1>1. ViaOK'
  BY DEF ViaOK, Proper, Same
<1> QED
  BY <1>1, StillStranded DEF NoneStranded

\* The process and the screens.
LEMMA ScreenRecords ==
    ASSUME IInv, ViaOK, Launch \/ TokenRevoked \/ Logout \/ Dismiss
                 \/ (\E to \in Screens : Present(to) \/ Navigate(to)) \/ UNCHANGED vars
    PROVE  ViaOK' /\ NoneStranded
<1>1. UNCHANGED <<accounts, users, puts>>
  BY DEF Launch, TokenRevoked, Logout, Dismiss, Present, Navigate, vars, server
<1>2. \A t \in Slots : Same(t)
  <2>1. CASE Dismiss
    BY <2>1, Types, DetachSame DEF Dismiss, Same
  <2>2. CASE ~Dismiss
    BY <2>2 DEF Launch, TokenRevoked, Logout, Present, Navigate, vars, Same
  <2> QED
    BY <2>1, <2>2
<1> QED
  BY <1>1, <1>2, CallsSame DEF Bare

\* A kill ends every call.
LEMMA KillVia ==
    ASSUME Kill
    PROVE  ViaOK'
BY DEF Kill, Idle, ViaOK, Proper

\* A call that begins takes an idle slot.
LEMMA BeginRecords ==
    ASSUME IInv, ViaOK, NEW s \in Slots, NEW step, NEW via, NEW v, NEW obj,
           Begin(s, step, via, v, obj),
           step = "facebook" => via = "facebook",
           step = "auth" => via \in {"email", "signup"}, step # "info",
           UNCHANGED <<accounts, users>>,
           \A j \in DOMAIN puts : j \in DOMAIN puts' /\ puts'[j] = puts[j]
    PROVE  ViaOK' /\ NoneStranded
<1>1. /\ calls[s].step = "idle" /\ calls'[s].step = step /\ calls'[s].via = via
      /\ \A t \in Slots : t # s => calls'[t] = calls[t]
  BY Types DEF Begin, Idle
<1>2. Proper(calls'[s]) /\ \A t \in Slots : t # s => Same(t)
  BY <1>1 DEF Proper, Same
<1>3. \A u \in Uids : Bare(u)' => Bare(u)
  BY DEF Bare
<1> QED
  BY <1>1, <1>2, <1>3, CallChanged DEF WillCreate

\* What is begun.
LEMMA TapRecords ==
    ASSUME IInv, ViaOK, Tap \/ OpenProfile \/ \E s \in Slots : TapUpdate(s)
    PROVE  ViaOK' /\ NoneStranded
<1>1. CASE Tap
  <2>1. PICK s \in Slots : TapFacebook(s) \/ \E u \in Uids : TapLogin(s, u) \/ TapSignUp(s, u)
    BY <1>1 DEF Tap
  <2>2. PICK step \in {"facebook", "auth"}, via \in Vias, v \in Uids \cup {Nil} :
           /\ Begin(s, step, via, v, Nil)
           /\ step = "facebook" => via = "facebook"
           /\ step = "auth" => via \in {"email", "signup"}
    BY <2>1 DEF TapLogin, TapSignUp, TapFacebook, Vias
  <2>3. UNCHANGED <<accounts, users, puts>>
    BY <2>1 DEF TapLogin, TapSignUp, TapFacebook, server
  <2> QED
    BY <2>2, <2>3, BeginRecords
<1>2. CASE OpenProfile
  <2>1. UNCHANGED <<accounts, users, puts>>
    BY <1>2 DEF OpenProfile, server
  <2>2. CASE UNCHANGED calls
    BY <2>1, <2>2, CallsSame DEF Same, Bare
  <2>3. ASSUME NEW s \in Slots, Begin(s, "beacons", "none", heap[current].uid, Nil)
        PROVE  ViaOK' /\ NoneStranded
    BY <2>1, <2>3, BeginRecords
  <2> QED
    BY <1>2, <2>2, <2>3 DEF OpenProfile
<1>3. ASSUME NEW s \in Slots, TapUpdate(s) PROVE ViaOK' /\ NoneStranded
  <2>1. /\ Begin(s, "update", "none", heap[current].uid, current)
        /\ UNCHANGED <<accounts, users>>
        /\ \E p : puts' = Append(puts, p)
    BY <1>3 DEF TapUpdate, server
  <2>2. \A j \in DOMAIN puts : j \in DOMAIN puts' /\ puts'[j] = puts[j]
    BY <2>1, Types
  <2> QED
    BY <2>1, <2>2, BeginRecords
<1> QED
  BY <1>1, <1>2, <1>3

\* Replies that end a call which was not going to write a record.
LEMMA EndRecords ==
    ASSUME IInv, ViaOK, NEW s \in Slots, calls' = Free(s), UNCHANGED <<accounts, users, puts>>,
           calls[s].step # "info", ~(calls[s].step = "show" /\ calls[s].via = "facebook")
    PROVE  ViaOK' /\ NoneStranded
<1>1. calls'[s].step = "idle" /\ \A t \in Slots : t # s => calls'[t] = calls[t]
  BY Types, FreeType DEF Idle
<1> QED
  BY <1>1, CallChanged DEF Proper, Same, Bare, WillCreate

\* A record's write is handed over.
LEMMA CreateRecords ==
    ASSUME IInv, ViaOK, NEW s \in Slots, StartCreate(s), UNCHANGED <<accounts, users>>
    PROVE  ViaOK' /\ NoneStranded
<1> DEFINE p == [slot |-> s, uid |-> calls[s].uid, entry |-> [beacons |-> {}]]
<1>1. /\ calls'[s].step = "create" /\ \A t \in Slots : t # s => calls'[t] = calls[t]
  <2>1. calls' = [calls EXCEPT ![s] = [@ EXCEPT !.step = "create"]]
    BY DEF StartCreate
  <2> QED
    BY <2>1, Types DEF Call
<1>2. puts' = Append(puts, p) /\ p.uid = calls[s].uid
  BY DEF StartCreate
<1> HIDE DEF p
<1>3. /\ \A j \in DOMAIN puts : j \in DOMAIN puts' /\ puts'[j] = puts[j]
      /\ Len(puts) + 1 \in DOMAIN puts' /\ puts'[Len(puts) + 1] = p
  BY <1>2, Types
<1>4. \A u \in Uids : Bare(u)' => Bare(u) /\ u # calls[s].uid
  BY <1>2, <1>3 DEF Bare
<1> QED
  BY <1>1, <1>4, CallChanged DEF Proper, Same, WillCreate

\* An account with a record, or one on its way, enters the main screens.
LEMMA EnterRecords ==
    ASSUME IInv, ViaOK, NEW s \in Slots, NEW v, EnterMain(s, v),
           UNCHANGED <<accounts, users, puts>>,
           calls[s].step = "reread" \/ ~Bare(calls[s].uid)
    PROVE  ViaOK' /\ NoneStranded
<1>1. /\ Free(s) \in [Slots -> Call] /\ Free(s)[s].step = "idle"
      /\ \A t \in Slots : t # s => Free(s)[t] = calls[t]
  BY Types, FreeType DEF Idle
<1>2. calls'[s].step = "idle" /\ \A t \in Slots : t # s => Same(t)
  <2>1. calls' = Free(s) \/ calls' = Detach(Free(s), Screens)
    BY DEF EnterMain
  <2> QED
    BY <1>1, <2>1, DetachSame DEF Same
<1> QED
  BY <1>2, CallChanged DEF Proper, Bare, WillCreate

\* A request that fails ends its call, and at worst strands its own account.
LEMMA FailRecords ==
    ASSUME IInv, ViaOK, NEW s \in Slots, AuthFails(s) \/ InfoFails(s) \/ ReadCancelled(s)
    PROVE  ViaOK' /\ OnlyStranded(calls[s].uid)
<1>1. /\ calls' = Free(s) /\ UNCHANGED <<users, puts>>
      /\ accounts' = accounts \/ accounts' = accounts \cup {calls[s].uid}
  BY DEF AuthFails, InfoFails, ReadCancelled, server
<1>2. calls'[s].step = "idle" /\ \A t \in Slots : t # s => Same(t)
  BY <1>1, Types, FreeType DEF Idle, Same
<1>3. ViaOK'
  BY <1>2 DEF ViaOK, Proper, Same
<1>4. ASSUME NEW u \in Uids, u # calls[s].uid, Stranded(u)' PROVE Stranded(u)
  <2>1. Bare(u)' => Bare(u)
    BY <1>1, <1>4 DEF Bare
  <2> QED
    BY <1>2, <1>4, <2>1, StillStranded DEF WillCreate
<1> QED
  BY <1>3, <1>4 DEF OnlyStranded

\* A refused write ends its call, and at worst strands the account it was for.
LEMMA RejectRecords ==
    ASSUME IInv, ViaOK, PutRejected
    PROVE  ViaOK' /\ OnlyStranded(Head(puts).uid)
<1> DEFINE p == Head(puts)
           s == p.slot
<1>1. puts # <<>> /\ puts' = Tail(puts) /\ calls' = Free(s) /\ UNCHANGED <<accounts, users>>
  BY DEF PutRejected, AdoptCaptured, server
<1>2. s \in Slots /\ calls[s].step \in {"create", "update"}
  BY <1>1, TailPut DEF IInv, Put
<1>3. p = puts[1] /\ \A j \in DOMAIN puts : j = 1 \/ (j - 1 \in DOMAIN puts' /\ puts'[j - 1] = puts[j])
  BY <1>1, Types
<1> HIDE DEF p, s
<1>4. calls'[s].step = "idle" /\ \A t \in Slots : t # s => Same(t)
  BY <1>1, <1>2, Types, FreeType DEF Idle, Same
<1>5. ViaOK'
  BY <1>4 DEF ViaOK, Proper, Same
<1>6. ASSUME NEW u \in Uids, u # p.uid, Stranded(u)' PROVE Stranded(u)
  <2>1. Bare(u)' => Bare(u)
    BY <1>1, <1>3, <1>6 DEF Bare
  <2> QED
    BY <1>2, <1>4, <1>6, <2>1, StillStranded DEF WillCreate
<1> QED
  BY <1>5, <1>6 DEF OnlyStranded, p

\* The SDKs answer.
LEMMA SignInRecords ==
    ASSUME IInv, ViaOK, NEW s \in Slots,
           FacebookFails(s) \/ BeaconsReturn(s) \/ AccountFound(s) \/ AuthReturns(s)
             \/ \E cancelled \in BOOLEAN, u \in Uids : FacebookReturns(s, cancelled, u)
    PROVE  ViaOK' /\ NoneStranded
<1>1. CASE FacebookFails(s) \/ BeaconsReturn(s)
  BY <1>1, EndRecords DEF FacebookFails, BeaconsReturn, server
<1>2. ASSUME NEW cancelled \in BOOLEAN, NEW u \in Uids, FacebookReturns(s, cancelled, u)
      PROVE  ViaOK' /\ NoneStranded
  <2>1. calls[s].step = "facebook" /\ UNCHANGED <<accounts, users, puts>>
    BY <1>2 DEF FacebookReturns, server
  <2>2. CASE calls' = Free(s)
    BY <2>1, <2>2, EndRecords
  <2>3. CASE calls' = [calls EXCEPT ![s] = [@ EXCEPT !.step = "auth", !.uid = fbToken']]
    <3>1. /\ calls'[s].step = "auth" /\ calls'[s].via = calls[s].via
          /\ \A t \in Slots : t # s => calls'[t] = calls[t]
      BY <2>3, Types DEF Call
    <3>2. calls[s].via = "facebook"
      BY <2>1 DEF ViaOK, Proper
    <3> QED
      BY <2>1, <3>1, <3>2, CallChanged DEF Proper, Same, Bare, WillCreate
  <2> QED
    BY <1>2, <2>2, <2>3 DEF FacebookReturns
<1>3. CASE AccountFound(s)
  <2>1. /\ calls[s].step = "auth" /\ UNCHANGED <<users, puts>>
        /\ accounts' = accounts \cup {calls[s].uid}
        /\ calls[s].via = "email" => calls[s].uid \in accounts
        /\ calls[s].via \in {"email", "facebook", "signup"}
    BY <1>3 DEF AccountFound, Admitted, ViaOK, Proper
  <2>2. /\ calls'[s].step = "info" /\ calls'[s].via = calls[s].via
        /\ calls'[s].uid = calls[s].uid
        /\ \A t \in Slots : t # s => calls'[t] = calls[t]
    BY <1>3, StepType DEF AccountFound
  <2> QED
    BY <2>1, <2>2, CallChanged DEF Proper, Same, Bare, WillCreate
<1>4. CASE AuthReturns(s)
  <2>1. /\ calls[s].step = "info" /\ UNCHANGED <<accounts, users>>
        /\ calls[s].via \in {"email", "facebook", "signup"}
    BY <1>4 DEF AuthReturns, ViaOK, Proper, server
  <2>2. CASE calls[s].via = "signup"
    BY <1>4, <2>1, <2>2, CreateRecords DEF AuthReturns
  <2>3. CASE calls[s].via # "signup"
    <3>1. calls' = [calls EXCEPT ![s].step = "show"] /\ puts' = puts
      BY <1>4, <2>3 DEF AuthReturns
    <3>2. /\ calls'[s].step = "show" /\ calls'[s].via = calls[s].via
          /\ calls'[s].uid = calls[s].uid
          /\ \A t \in Slots : t # s => calls'[t] = calls[t]
      BY <3>1, StepType
    <3> QED
      BY <2>1, <2>3, <3>1, <3>2, CallChanged DEF Proper, Same, Bare, WillCreate
  <2> QED
    BY <2>2, <2>3
<1> QED
  BY <1>1, <1>2, <1>3, <1>4

\* A read completes.
LEMMA ReadRecords ==
    ASSUME IInv, ViaOK, NEW s \in Slots, ShowReturns(s) \/ RereadReturns(s)
    PROVE  ViaOK' /\ NoneStranded
<1>1. CASE ShowReturns(s)
  <2>1. PICK v \in Entry \cup {Nil} :
           /\ Reads(calls[s].uid, v)
           /\ IF v # Nil THEN EnterMain(s, v) /\ UNCHANGED puts
              ELSE /\ IF calls[s].via = "facebook" THEN StartCreate(s)
                      ELSE calls' = Free(s) /\ UNCHANGED puts
                   /\ UNCHANGED <<heap, current, saved, screen>>
    BY <1>1 DEF ShowReturns
  <2>2. calls[s].step = "show" /\ UNCHANGED <<accounts, users>>
    BY <1>1 DEF ShowReturns, server
  <2>3. CASE v # Nil
    <3>1. EnterMain(s, v) /\ puts' = puts
      BY <2>1, <2>3
    <3>2. ~Bare(calls[s].uid)
      BY <2>1, <2>3 DEF Reads, Bare
    <3> QED
      BY <2>2, <3>1, <3>2, EnterRecords
  <2>4. CASE v = Nil /\ calls[s].via = "facebook"
    BY <2>1, <2>2, <2>4, CreateRecords
  <2>5. CASE v = Nil /\ calls[s].via # "facebook"
    BY <2>1, <2>2, <2>5, EndRecords
  <2> QED
    BY <2>3, <2>4, <2>5
<1>2. CASE RereadReturns(s)
  <2>1. /\ calls[s].step = "reread" /\ UNCHANGED <<accounts, users, puts>>
        /\ calls' = Free(s) \/ \E v \in Entry : EnterMain(s, v)
    BY <1>2 DEF RereadReturns, server
  <2> QED
    BY <2>1, EndRecords, EnterRecords
<1> QED
  BY <1>1, <1>2

\* The server takes a write.
LEMMA AckRecords ==
    ASSUME IInv, ViaOK, PutAcked
    PROVE  ViaOK' /\ NoneStranded
<1> DEFINE p == Head(puts)
           s == p.slot
<1>1. /\ puts # <<>> /\ puts' = Tail(puts) /\ accounts' = accounts
      /\ users' = [users EXCEPT ![p.uid] = p.entry]
      /\ calls' \in {[calls EXCEPT ![s].step = "reread"], Free(s)}
  BY DEF PutAcked, AdoptCaptured
<1>2. /\ s \in Slots /\ p.uid \in Uids /\ p.entry \in Entry
      /\ calls[s].step \in {"create", "update"}
  BY <1>1, TailPut DEF IInv, Put
<1>3. \A j \in DOMAIN puts : j = 1 \/ (j - 1 \in DOMAIN puts' /\ puts'[j - 1] = puts[j])
  BY <1>1, Types
<1>4. p = puts[1]
  BY <1>1, Types
<1> HIDE DEF p, s
<1>5. ASSUME NEW u \in Uids, Bare(u)' PROVE Bare(u)
  <2>1. users[u] = Nil /\ u # p.uid
    BY <1>1, <1>2, <1>5, Types, NilIsNoRecord DEF Bare
  <2> QED
    BY <1>1, <1>3, <1>4, <1>5, <2>1 DEF Bare
<1>6. /\ calls'[s].step \in {"reread", "idle"}
      /\ \A t \in Slots : t # s => calls'[t] = calls[t]
  <2>1. CASE calls' = Free(s)
    BY <1>2, <2>1, Types, FreeType DEF Idle
  <2>2. CASE calls' = [calls EXCEPT ![s].step = "reread"]
    BY <1>2, <2>2, Types DEF Call
  <2> QED
    BY <1>1, <2>1, <2>2
<1> QED
  BY <1>2, <1>5, <1>6, CallChanged DEF Proper, Same, WillCreate

\* Whatever logins overlap, are dismissed or log other accounts in, an account is
\* only left without a record by a kill or by a request for that very account
\* that fails (SignUpController.swift:113).
THEOREM NoLoginStrands == HistorySpec => RecordsFollow
<1> DEFINE Follow == \A u \in Uids : ~Stranded(u) /\ Stranded(u)' => Fails(u)
<1>1. Init => ViaOK
  BY DEF Init, ViaOK, Proper, Idle
<1>2. ASSUME IInv, ViaOK, [Next]_vars PROVE ViaOK' /\ Follow
  <2>1. CASE Launch \/ TokenRevoked \/ Logout \/ UNCHANGED vars
    BY <1>2, <2>1, ScreenRecords DEF NoneStranded
  <2>2. CASE Kill
    BY <2>2, KillVia DEF Fails
  <2>3. CASE Tap \/ \E s \in Slots : TapUpdate(s)
    BY <1>2, <2>3, TapRecords DEF NoneStranded
  <2>4. CASE Move
    BY <1>2, <2>4, ScreenRecords, TapRecords DEF Move, NoneStranded
  <2>5. ASSUME NEW s \in Slots, CallReply(s) \/ ReadCancelled(s) PROVE ViaOK' /\ Follow
    <3>1. CASE AuthFails(s) \/ InfoFails(s) \/ ReadCancelled(s)
      BY <1>2, <3>1, FailRecords DEF OnlyStranded, Fails
    <3>2. CASE ~(AuthFails(s) \/ InfoFails(s) \/ ReadCancelled(s))
      BY <1>2, <2>5, <3>2, SignInRecords, ReadRecords DEF CallReply, NoneStranded
    <3> QED
      BY <3>1, <3>2
  <2>6. CASE PutAcked
    BY <1>2, <2>6, AckRecords DEF NoneStranded
  <2>7. CASE PutRejected
    BY <1>2, <2>7, RejectRecords DEF OnlyStranded, Fails
  <2> QED
    BY <1>2, <2>1, <2>2, <2>3, <2>4, <2>5, <2>6, <2>7 DEF Next, Served, Reply, PutReply
<1>3. IInv /\ ViaOK /\ [Next]_vars => IInv' /\ ViaOK'
  BY <1>2, StepInv
<1>4. IInv /\ ViaOK /\ [Next]_vars =>
        [\A u \in Uids : ~Stranded(u) /\ Stranded(u)' => Fails(u)]_vars
  BY <1>2
<1>5. [HistoryNext]_<<vars, careful>> => [Next]_vars
  BY DEF HistoryNext
<1> QED
  BY <1>1, <1>3, <1>4, <1>5, InitInv, PTL DEF HistorySpec, RecordsFollow

=============================================================================
