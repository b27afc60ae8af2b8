--------------------------- MODULE Session_proofs ---------------------------
(***************************************************************************)
(* Proofs about Session for any number of accounts, outstanding calls and   *)
(* User objects: type correctness, that User.current exists wherever it is  *)
(* read, and that it is always the archived account.                        *)
(***************************************************************************)
EXTENDS Session, SequenceTheorems, TLAPS

\* Objects that something points to are in memory, and a call that has an
\* account or an object to hand on has one.
HeapOK == current # Nil => heap[current] # Nil

CallsOK ==
    \A s \in Slots :
        /\ calls[s].step \notin {"idle", "facebook"} => calls[s].uid # Nil
        /\ calls[s].step = "update" => calls[s].obj # Nil
        /\ calls[s].obj # Nil => heap[calls[s].obj] # Nil

\* Each pending write belongs to a call of its own that waits for it.
PutsOK ==
    /\ \A j \in 1 .. Len(puts) : calls[puts[j].slot].step \in {"create", "update"}
    /\ \A j, k \in 1 .. Len(puts) : puts[j].slot = puts[k].slot => j = k

IInv == /\ TypeOK
        /\ HeapOK
        /\ CallsOK
        /\ PutsOK
        /\ CurrentUserExists
        /\ SavedIsCurrent

\* Properties of the operators the actions are built from.

\* Freeing a slot keeps the array of calls an array of calls.
LEMMA FreeType ==
    ASSUME calls \in [Slots -> Call], NEW s \in Slots
    PROVE  /\ Free(s) \in [Slots -> Call]
           /\ Free(s)[s] = Idle
           /\ \A t \in Slots : t # s => Free(s)[t] = calls[t]
BY DEF Free, Idle, Call, Steps, Vias, Screens

\* Detaching a controller changes nothing but the "from" of a call.
LEMMA DetachType ==
    ASSUME NEW cs \in [Slots -> Call], NEW left \in SUBSET Screens
    PROVE  /\ Detach(cs, left) \in [Slots -> Call]
           /\ \A t \in Slots : /\ Detach(cs, left)[t].step = cs[t].step
                               /\ Detach(cs, left)[t].uid = cs[t].uid
                               /\ Detach(cs, left)[t].obj = cs[t].obj
<1>1. \A t \in Slots : /\ Detach(cs, left)[t] \in Call
                       /\ Detach(cs, left)[t].step = cs[t].step
                       /\ Detach(cs, left)[t].uid = cs[t].uid
                       /\ Detach(cs, left)[t].obj = cs[t].obj
  BY DEF Detach, Call
<1> QED
  BY <1>1 DEF Detach

\* Every pending write names a slot, an account and an entry.
LEMMA PutAt ==
    ASSUME puts \in Seq(Put)
    PROVE  \A j \in 1 .. Len(puts) : /\ puts[j].slot \in Slots
                                     /\ puts[j].uid \in Uids
                                     /\ puts[j].entry \in Entry
<1>1. \A j \in 1 .. Len(puts) : puts[j] \in Put
  OBVIOUS
<1> QED
  BY <1>1 DEF Put

\* The initial state satisfies the invariant.
LEMMA InitInv == Init => IInv
BY NilIsNobody DEF Init, IInv, TypeOK, HeapOK, CallsOK, PutsOK, Idle, Call, Steps, Vias,
   CurrentUserExists, SavedIsCurrent, Busy, MainScreens, Screens


\* Every step keeps it: one lemma for each group of actions.
LEMMA LaunchInv == IInv /\ Launch => IInv'
<1> SUFFICES ASSUME IInv, Launch PROVE IInv'
  OBVIOUS
<1> USE NilIsNobody, NilIsNoRecord DEF IInv, Launch, kept, server
<1>1. TypeOK'
  BY DEF TypeOK, Screens, MainScreens, LoginScreens
<1>2. HeapOK' /\ CallsOK' /\ SavedIsCurrent'
  BY DEF TypeOK, HeapOK, CallsOK, SavedIsCurrent, User, Call
<1>3. PutsOK'
  BY DEF PutsOK
<1>4. CurrentUserExists'
  BY DEF CurrentUserExists, Busy, TypeOK, MainScreens
<1> QED
  BY <1>1, <1>2, <1>3, <1>4

\* A kill clears the memory and keeps what is archived.
LEMMA KillInv == IInv /\ Kill => IInv'
<1> SUFFICES ASSUME IInv, Kill PROVE IInv'
  OBVIOUS
<1> USE NilIsNobody, NilIsNoRecord DEF IInv, Kill, kept
<1>1. TypeOK'
  BY DEF TypeOK, Idle, Call, Steps, Vias
<1>2. HeapOK' /\ CallsOK' /\ SavedIsCurrent' /\ PutsOK'
  BY DEF HeapOK, CallsOK, SavedIsCurrent, PutsOK, Idle
<1>3. CurrentUserExists'
  BY DEF CurrentUserExists, Busy, Idle, MainScreens
<1> QED
  BY <1>1, <1>2, <1>3

\* Actions that leave memory and the pending writes alone and only change the
\* screen, the call of slot s or what is signed in.
LEMMA QuietInv ==
    ASSUME IInv, UNCHANGED <<users, saved, heap, current, puts>>,
           TypeOK', CallsOK',
           screen' \in MainScreens => screen \in MainScreens,
           \A s \in Slots : /\ calls[s].step \in {"create", "update"}
                                => calls'[s].step = calls[s].step
                            /\ calls'[s].step = "beacons" =>
                                   calls[s].step = "beacons" \/ current # Nil
    PROVE  IInv'
<1> USE DEF IInv
<1>1. HeapOK' /\ SavedIsCurrent'
  BY DEF HeapOK, SavedIsCurrent
<1>2. PutsOK'
  <2>1. \A j \in 1 .. Len(puts) : puts[j].slot \in Slots
    BY PutAt DEF TypeOK
  <2> QED
    BY <2>1 DEF PutsOK
<1>3. CurrentUserExists'
  BY DEF CurrentUserExists, Busy
<1> QED
  BY <1>1, <1>2, <1>3


\* The taps and moves of the login screens, and the replies that end a call.
LEMMA LoginMoveInv ==
    IInv /\ (TokenRevoked \/ Logout \/ Dismiss \/ \E to \in Screens : Present(to) \/ Navigate(to)) => IInv'
<1> SUFFICES ASSUME IInv, TokenRevoked \/ Logout \/ Dismiss \/ \E to \in Screens : Present(to) \/ Navigate(to)
             PROVE  IInv'
  OBVIOUS
<1> USE NilIsNobody DEF IInv, kept, server
<1>1. CASE TokenRevoked \/ Logout \/ \E to \in Screens : Present(to) \/ Navigate(to)
  <2>1. UNCHANGED <<users, saved, heap, current, puts, calls>>
    BY <1>1 DEF TokenRevoked, Logout, Present, Navigate
  <2>2. TypeOK'
    BY <1>1 DEF TypeOK, TokenRevoked, Logout, Present, Navigate, Screens, LoginScreens, MainScreens
  <2>3. screen' \in MainScreens => screen \in MainScreens
    BY <1>1 DEF TokenRevoked, Logout, Present, Navigate, LoginScreens, MainScreens
  <2> QED
    BY <2>1, <2>2, <2>3, QuietInv DEF CallsOK
<1>2. CASE Dismiss
  <2>1. {screen} \in SUBSET Screens
    BY <1>2 DEF Dismiss, Screens, LoginScreens
  <2>2. TypeOK'
    BY <1>2, <2>1, DetachType DEF Dismiss, TypeOK, Screens, LoginScreens
  <2>3. CallsOK' /\ \A s \in Slots : calls'[s].step = calls[s].step
    BY <1>2, <2>1, DetachType DEF Dismiss, CallsOK, TypeOK
  <2>4. UNCHANGED <<users, saved, heap, current, puts>> /\ screen' \notin MainScreens
    BY <1>2 DEF Dismiss, MainScreens
  <2> QED
    BY <2>2, <2>3, <2>4, QuietInv
<1> QED
  BY <1>1, <1>2

\* Beginning a call fills one idle slot.
LEMMA BeginType ==
    ASSUME calls \in [Slots -> Call], screen \in Screens, NEW s \in Slots,
           NEW step \in Steps, NEW via \in Vias, NEW u \in Uids \cup {Nil},
           NEW obj \in Objects \cup {Nil}, Begin(s, step, via, u, obj)
    PROVE  /\ calls' \in [Slots -> Call]
           /\ calls[s].step = "idle"
           /\ calls'[s].step = step /\ calls'[s].uid = u /\ calls'[s].obj = obj
           /\ \A t \in Slots : t # s => calls'[t] = calls[t]
<1> DEFINE c == [step |-> step, via |-> via, uid |-> u, from |-> screen, obj |-> obj]
<1>1. c \in Call
  BY DEF Call
<1>2. calls' = [calls EXCEPT ![s] = c] /\ calls[s] = Idle
  BY DEF Begin
<1> QED
  BY <1>1, <1>2 DEF Idle

\* The taps of the login screens that begin a call.
LEMMA TapInv == IInv /\ Tap => IInv'
<1> SUFFICES ASSUME IInv, NEW s \in Slots,
                    TapFacebook(s) \/ \E u \in Uids : TapLogin(s, u) \/ TapSignUp(s, u)
             PROVE  IInv'
  BY DEF Tap
<1> USE NilIsNobody DEF IInv, kept, server
<1>1. UNCHANGED <<users, saved, heap, current, puts, screen>>
  BY DEF TapLogin, TapSignUp, TapFacebook
<1>2. PICK step \in {"auth", "facebook"}, via \in Vias, v \in Uids \cup {Nil} :
         Begin(s, step, via, v, Nil) /\ (step = "auth" => v # Nil)
  BY DEF TapLogin, TapSignUp, TapFacebook, Vias
<1>3. screen \in Screens
  BY DEF TapLogin, TapSignUp, TapFacebook, Screens, LoginScreens
<1>4. /\ calls' \in [Slots -> Call]
      /\ calls[s].step = "idle"
      /\ calls'[s].step = step /\ calls'[s].uid = v /\ calls'[s].obj = Nil
      /\ \A t \in Slots : t # s => calls'[t] = calls[t]
  BY <1>2, <1>3, BeginType DEF TypeOK, Steps
<1>5. TypeOK'
  BY <1>1, <1>4 DEF TypeOK, TapLogin, TapSignUp, TapFacebook
<1>6. CallsOK'
  BY <1>1, <1>2, <1>4 DEF CallsOK
<1> QED
  BY <1>1, <1>2, <1>4, <1>5, <1>6, QuietInv

\* Showing Profile begins the fetch of the user's beacons.
LEMMA OpenProfileInv == IInv /\ OpenProfile => IInv'
<1> SUFFICES ASSUME IInv, OpenProfile PROVE IInv'
  OBVIOUS
<1> USE NilIsNobody DEF IInv, kept, server
<1>1. UNCHANGED <<users, saved, heap, current, puts>> /\ screen \in Screens
      /\ screen \in MainScreens /\ screen' \in Screens /\ current # Nil
  BY DEF OpenProfile, Screens, MainScreens, CurrentUserExists
<1>2. heap[current].uid \in Uids \cup {Nil} /\ heap[current].uid # Nil
  BY <1>1 DEF TypeOK, HeapOK, User
<1>3. CASE UNCHANGED calls
  <2>1. TypeOK' /\ CallsOK'
    BY <1>1, <1>3 DEF TypeOK, CallsOK, OpenProfile
  <2> QED
    BY <1>1, <1>3, <2>1, QuietInv
<1>4. ASSUME NEW s \in Slots, Begin(s, "beacons", "none", heap[current].uid, Nil)
      PROVE  IInv'
  <2>1. /\ calls' \in [Slots -> Call]
        /\ calls[s].step = "idle"
        /\ calls'[s].step = "beacons" /\ calls'[s].uid = heap[current].uid /\ calls'[s].obj = Nil
        /\ \A t \in Slots : t # s => calls'[t] = calls[t]
    BY <1>1, <1>2, <1>4, BeginType DEF TypeOK, Steps, Vias
  <2>2. TypeOK'
    BY <1>1, <2>1 DEF TypeOK, OpenProfile
  <2>3. CallsOK'
    BY <1>1, <1>2, <2>1 DEF CallsOK
  <2> QED
    BY <1>1, <2>1, <2>2, <2>3, QuietInv
<1> QED
  BY <1>3, <1>4 DEF OpenProfile

\* A call that waits for a request has an account.
LEMMA CallUid ==
    ASSUME IInv, NEW s \in Slots, calls[s].step \notin {"idle", "facebook"}
    PROVE  calls[s].uid \in Uids
BY DEF IInv, TypeOK, CallsOK, Call

\* A call goes on to its next step, where it writes nothing yet.
LEMMA StepType ==
    ASSUME IInv, NEW s \in Slots, NEW step \in {"info", "show", "reread"},
           calls' = [calls EXCEPT ![s].step = step]
    PROVE  /\ calls' \in [Slots -> Call]
           /\ calls'[s].step = step /\ calls'[s].uid = calls[s].uid
           /\ calls'[s].obj = calls[s].obj /\ calls'[s].via = calls[s].via
           /\ \A t \in Slots : t # s => calls'[t] = calls[t]
<1> DEFINE c == calls[s]
           m == [c EXCEPT !.step = step]
<1>1. calls \in [Slots -> Call] /\ c \in Call /\ step \in Steps
  BY DEF IInv, TypeOK, Steps, Call
<1> HIDE DEF c
<1>2. /\ m \in Call /\ m.step = step
      /\ m.uid = c.uid /\ m.obj = c.obj /\ m.via = c.via
  BY <1>1 DEF Call
<1>3. calls' = [calls EXCEPT ![s] = m]
  BY DEF c
<1> HIDE DEF m
<1> QED
  BY <1>1, <1>2, <1>3 DEF c

\* Replies that only end a call.
LEMMA EndInv ==
    ASSUME IInv, NEW s \in Slots,
           FacebookFails(s) \/ AuthFails(s) \/ InfoFails(s) \/ ReadCancelled(s)
    PROVE  IInv'
<1> USE NilIsNobody DEF IInv
<1>1. /\ UNCHANGED <<users, fbToken, saved, heap, current, screen, puts>>
      /\ calls' = Free(s)
      /\ calls[s].step \notin {"create", "update"}
  BY DEF FacebookFails, AuthFails, InfoFails, ReadCancelled, kept, server
<1>5. accounts' \in SUBSET Uids /\ auth' \in Uids \cup {Nil}
  <2>1. CASE AuthFails(s)
    BY <2>1, CallUid DEF AuthFails, TypeOK, kept
  <2>2. CASE ~AuthFails(s)
    BY <2>2 DEF FacebookFails, InfoFails, ReadCancelled, TypeOK, kept, server
  <2> QED
    BY <2>1, <2>2
<1>2. calls' \in [Slots -> Call] /\ calls'[s] = Idle
      /\ \A t \in Slots : t # s => calls'[t] = calls[t]
  BY <1>1, FreeType DEF TypeOK
<1>3. TypeOK'
  BY <1>1, <1>2, <1>5 DEF TypeOK
<1>4. CallsOK'
  BY <1>1, <1>2 DEF CallsOK, Idle
<1> QED
  BY <1>1, <1>2, <1>3, <1>4, QuietInv DEF Idle

\* The answer of the Facebook login goes on to Firebase Auth or ends the call.
LEMMA FacebookReturnsInv ==
    ASSUME IInv, NEW s \in Slots, NEW cancelled \in BOOLEAN, NEW u \in Uids,
           FacebookReturns(s, cancelled, u)
    PROVE  IInv'
<1> USE NilIsNobody DEF IInv, server
<1>1. /\ UNCHANGED <<server, auth, saved, heap, current, screen, puts>>
      /\ fbToken' \in Uids \cup {Nil}
      /\ calls[s].step = "facebook"
  BY DEF FacebookReturns, TypeOK
<1>2. /\ calls' \in [Slots -> Call]
      /\ calls'[s].step \in {"idle", "auth"}
      /\ calls'[s].step = "auth" => calls'[s].uid # Nil
      /\ calls'[s].obj \in {Nil, calls[s].obj}
      /\ \A t \in Slots : t # s => calls'[t] = calls[t]
  <2>1. CASE fbToken' = Nil
    BY <2>1, FreeType DEF FacebookReturns, TypeOK, Idle
  <2>2. CASE fbToken' # Nil
    <3>1. calls' = [calls EXCEPT ![s] = [@ EXCEPT !.step = "auth", !.uid = fbToken']]
      BY <2>2 DEF FacebookReturns, TypeOK, Call
    <3> QED
      <4> DEFINE c == calls[s]
                 m == [c EXCEPT !.step = "auth", !.uid = fbToken']
      <4>1. calls \in [Slots -> Call] /\ c \in Call /\ "auth" \in Steps /\ fbToken' \in Uids \cup {Nil}
        BY <1>1 DEF IInv, TypeOK, Steps, Call
      <4> HIDE DEF c
      <4>2. m \in Call /\ m.step = "auth" /\ m.uid = fbToken' /\ m.obj = c.obj
        BY <4>1 DEF Call
      <4>3. calls' = [calls EXCEPT ![s] = m]
        BY <3>1 DEF c
      <4> HIDE DEF m
      <4> QED
        BY <4>1, <4>2, <4>3, <2>2 DEF c
  <2> QED
    BY <2>1, <2>2
<1>3. TypeOK'
  BY <1>1, <1>2 DEF TypeOK
<1>4. CallsOK'
  BY <1>1, <1>2 DEF CallsOK
<1> QED
  BY <1>1, <1>2, <1>3, <1>4, QuietInv

\* The completion of getBeacons changes the keys of the current user only.
LEMMA BeaconsReturnInv ==
    ASSUME IInv, NEW s \in Slots, BeaconsReturn(s)
    PROVE  IInv'
<1> USE NilIsNobody, NilIsNoRecord DEF IInv, kept, server
<1>1. current \in Objects /\ heap[current] \in User /\ calls[s].step = "beacons"
  BY DEF BeaconsReturn, CurrentUserExists, Busy, TypeOK, HeapOK
<1>2. PICK keys \in SUBSET {calls[s].uid} :
         heap' = [heap EXCEPT ![current] = [@ EXCEPT !.beacons = keys]]
  BY DEF BeaconsReturn
<1>3. calls[s].uid \in Uids
  BY <1>1 DEF TypeOK, CallsOK, Call
<1>4. /\ heap' \in [Objects -> User \cup {Nil}]
      /\ heap'[current].uid = heap[current].uid
      /\ \A o \in Objects : heap[o] # Nil => heap'[o] # Nil
  <2>1. [heap[current] EXCEPT !.beacons = keys] \in User
        /\ [heap[current] EXCEPT !.beacons = keys].uid = heap[current].uid
    BY <1>1, <1>3 DEF User
  <2> QED
    BY <1>1, <1>2, <2>1 DEF TypeOK
<1>5. /\ calls' \in [Slots -> Call] /\ calls'[s] = Idle
      /\ \A t \in Slots : t # s => calls'[t] = calls[t]
  BY FreeType DEF TypeOK, BeaconsReturn
<1>6. UNCHANGED <<kept, server, current, screen, puts>>
  BY DEF BeaconsReturn
<1>7. TypeOK'
  BY <1>4, <1>5, <1>6 DEF TypeOK
<1>8. HeapOK' /\ SavedIsCurrent'
  BY <1>1, <1>4, <1>6 DEF HeapOK, SavedIsCurrent
<1>9. CallsOK'
  <2>1. \A t \in Slots : calls[t].obj \in Objects \cup {Nil}
    BY DEF TypeOK, Call
  <2>2. \A t \in Slots : t # s /\ calls'[t].obj # Nil => heap'[calls'[t].obj] # Nil
    BY <1>4, <1>5, <2>1 DEF CallsOK
  <2> QED
    BY <1>5, <2>2 DEF CallsOK, Idle
<1>10. PutsOK'
  BY <1>1, <1>5, <1>6, PutAt DEF PutsOK, TypeOK
<1>11. CurrentUserExists'
  BY <1>1, <1>6 DEF CurrentUserExists
<1> QED
  BY <1>7, <1>8, <1>9, <1>10, <1>11

\* A write handed to the database joins the queue with the call that waits for
\* it, which waited for none before.
LEMMA AppendPut ==
    ASSUME TypeOK, PutsOK, NEW p \in Put, puts' = Append(puts, p),
           calls[p.slot].step \notin {"create", "update"},
           calls'[p.slot].step \in {"create", "update"},
           \A t \in Slots : t # p.slot => calls'[t] = calls[t]
    PROVE  puts' \in Seq(Put) /\ PutsOK'
<1>1. puts \in Seq(Put) /\ p.slot \in Slots
  BY DEF TypeOK, Put
<1>2. /\ puts' \in Seq(Put) /\ Len(puts') = Len(puts) + 1 /\ Len(puts) \in Nat
      /\ \A j \in 1 .. Len(puts) : puts'[j] = puts[j]
      /\ puts'[Len(puts) + 1] = p
  BY <1>1
<1>3. \A j \in 1 .. Len(puts) : puts[j].slot \in Slots /\ puts[j].slot # p.slot
  BY <1>1, PutAt DEF PutsOK
<1>4. \A j \in 1 .. Len(puts') : j \in 1 .. Len(puts) \/ j = Len(puts) + 1
  BY <1>2
<1>5. \A j \in 1 .. Len(puts') : calls'[puts'[j].slot].step \in {"create", "update"}
  BY <1>2, <1>3, <1>4 DEF PutsOK
<1>6. \A j, k \in 1 .. Len(puts') : puts'[j].slot = puts'[k].slot => j = k
  BY <1>2, <1>3, <1>4 DEF PutsOK
<1> QED
  BY <1>2, <1>5, <1>6 DEF PutsOK

\* updateUserValues captures the current user and hands its record over.
LEMMA TapUpdateInv ==
    ASSUME IInv, NEW s \in Slots, TapUpdate(s)
    PROVE  IInv'
<1> USE NilIsNobody, NilIsNoRecord DEF IInv, kept, server
<1>1. current \in Objects /\ heap[current] \in User /\ heap[current] # Nil
  BY DEF TapUpdate, CurrentUserExists, MainScreens, TypeOK, HeapOK
<1>2. heap[current].uid \in Uids /\ heap[current].beacons \in SUBSET Uids
  BY <1>1 DEF User
<1>3. /\ calls' \in [Slots -> Call]
      /\ calls[s].step = "idle"
      /\ calls'[s].step = "update" /\ calls'[s].uid = heap[current].uid /\ calls'[s].obj = current
      /\ \A t \in Slots : t # s => calls'[t] = calls[t]
  BY <1>1, <1>2, BeginType DEF TypeOK, TapUpdate, Steps, Vias, Screens, MainScreens
<1>4. UNCHANGED <<kept, server, heap, current>> /\ screen' = "profile"
  BY DEF TapUpdate
<1> DEFINE p == [slot |-> s, uid |-> heap[current].uid,
                 entry |-> [beacons |-> heap[current].beacons]]
<1>5. p \in Put /\ p.slot = s /\ puts' = Append(puts, p)
  BY <1>2 DEF TapUpdate, Put, Entry
<1> HIDE DEF p
<1>6. puts' \in Seq(Put) /\ PutsOK'
  BY <1>3, <1>5, AppendPut
<1>7. TypeOK'
  BY <1>3, <1>4, <1>6 DEF TypeOK, Screens, MainScreens
<1>8. HeapOK' /\ SavedIsCurrent'
  BY <1>4 DEF HeapOK, SavedIsCurrent
<1>9. CallsOK'
  BY <1>1, <1>2, <1>3, <1>4 DEF CallsOK
<1>10. CurrentUserExists'
  BY <1>1, <1>4 DEF CurrentUserExists
<1> QED
  BY <1>6, <1>7, <1>8, <1>9, <1>10

\* UserService.create hands its write over and the call waits for it.
LEMMA StartCreateInv ==
    ASSUME IInv, NEW s \in Slots, calls[s].step \in {"info", "show"}, StartCreate(s),
           UNCHANGED <<users, saved, heap, current, screen, fbToken>>,
           accounts' \in SUBSET Uids, auth' \in Uids \cup {Nil}
    PROVE  IInv'
<1> USE NilIsNobody, NilIsNoRecord DEF IInv
<1>1. calls[s].uid \in Uids
  BY DEF TypeOK, CallsOK, Call
<1>2. /\ calls' \in [Slots -> Call]
      /\ calls'[s].step = "create" /\ calls'[s].uid = calls[s].uid
      /\ calls'[s].obj = calls[s].obj
      /\ \A t \in Slots : t # s => calls'[t] = calls[t]
  <2>1. calls' = [calls EXCEPT ![s] = [@ EXCEPT !.step = "create"]]
    BY DEF StartCreate
  <2> QED
    BY <2>1 DEF TypeOK, Call, Steps
<1> DEFINE p == [slot |-> s, uid |-> calls[s].uid, entry |-> [beacons |-> {}]]
<1>3. p \in Put /\ p.slot = s /\ puts' = Append(puts, p)
  BY <1>1 DEF StartCreate, Put, Entry
<1> HIDE DEF p
<1>4. puts' \in Seq(Put) /\ PutsOK'
  BY <1>2, <1>3, AppendPut
<1>5. TypeOK'
  BY <1>2, <1>4 DEF TypeOK
<1>6. HeapOK' /\ SavedIsCurrent' /\ CallsOK'
  BY <1>1, <1>2 DEF HeapOK, SavedIsCurrent, CallsOK
<1>7. CurrentUserExists'
  BY <1>2 DEF CurrentUserExists, Busy
<1> QED
  BY <1>4, <1>5, <1>6, <1>7

\* The tail of a login: a fresh object becomes current and is archived.
LEMMA EnterMainInv ==
    ASSUME IInv, NEW s \in Slots, NEW v \in Entry, EnterMain(s, v),
           calls[s].step \in {"show", "reread"},
           UNCHANGED <<accounts, users, auth, fbToken, puts>>
    PROVE  IInv'
<1> USE NilIsNobody, NilIsNoRecord DEF IInv
<1> DEFINE user == [uid |-> calls[s].uid, beacons |-> v.beacons]
<1>1. user \in User /\ user # Nil
  <2>1. calls[s].uid \in Uids
    BY DEF TypeOK, CallsOK, Call
  <2> QED
    BY <2>1 DEF User, Entry
<1>2. PICK o \in Objects : /\ Unreferenced(o)
                           /\ heap' = Retained([heap EXCEPT ![o] = user], o, calls)
                           /\ current' = o
  BY DEF EnterMain
<1>3. saved' = user
  BY DEF EnterMain
<1> HIDE DEF user
<1>4. /\ heap' \in [Objects -> User \cup {Nil}]
      /\ heap'[o] = user
      /\ \A t \in Slots : calls[t].obj # Nil => heap'[calls[t].obj] # Nil
  <2>1. \A t \in Slots : calls[t].obj \in Objects \cup {Nil} /\ calls[t].obj # o
    BY <1>2 DEF TypeOK, Call, Unreferenced
  <2> QED
    BY <1>1, <1>2, <2>1 DEF Retained, TypeOK, CallsOK
<1>5. /\ calls' \in [Slots -> Call]
      /\ calls'[s].step = "idle" /\ calls'[s].obj = Nil
      /\ \A t \in Slots : t # s => /\ calls'[t].step = calls[t].step
                                   /\ calls'[t].uid = calls[t].uid
                                   /\ calls'[t].obj = calls[t].obj
  <2>1. Free(s) \in [Slots -> Call] /\ Free(s)[s] = Idle
        /\ \A t \in Slots : t # s => Free(s)[t] = calls[t]
    BY FreeType DEF TypeOK
  <2>2. calls' = Free(s) \/ calls' = Detach(Free(s), Screens)
    BY DEF EnterMain
  <2> QED
    BY <2>1, <2>2, DetachType DEF Idle
<1>6. screen' \in Screens \cup {"off"}
  BY DEF EnterMain, TypeOK, Screens, MainScreens
<1>7. TypeOK'
  BY <1>1, <1>2, <1>3, <1>4, <1>5, <1>6 DEF TypeOK
<1>8. HeapOK' /\ SavedIsCurrent'
  BY <1>1, <1>2, <1>3, <1>4 DEF HeapOK, SavedIsCurrent
<1>9. CallsOK'
  BY <1>4, <1>5 DEF CallsOK
<1>10. PutsOK'
  BY <1>5, PutAt DEF PutsOK, TypeOK
<1>11. CurrentUserExists'
  BY <1>2 DEF CurrentUserExists
<1> QED
  BY <1>7, <1>8, <1>9, <1>10, <1>11

\* A read that found no record ends the call.
LEMMA NotFoundInv ==
    ASSUME IInv, NEW s \in Slots, calls[s].step \in {"show", "reread"}, calls' = Free(s),
           UNCHANGED <<accounts, users, auth, fbToken, saved, heap, current, screen, puts>>
    PROVE  IInv'
<1> USE NilIsNobody DEF IInv
<1>1. calls' \in [Slots -> Call] /\ calls'[s] = Idle
      /\ \A t \in Slots : t # s => calls'[t] = calls[t]
  BY FreeType DEF TypeOK
<1>2. TypeOK' /\ CallsOK'
  BY <1>1 DEF TypeOK, CallsOK, Idle
<1> QED
  BY <1>1, <1>2, QuietInv DEF Idle

\* A record that was found makes its user current.
LEMMA LoginReplyInv ==
    ASSUME IInv, NEW s \in Slots,
           AccountFound(s) \/ AuthReturns(s) \/ ShowReturns(s) \/ RereadReturns(s)
    PROVE  IInv'
<1> USE NilIsNobody DEF server
<1>0. CASE AccountFound(s)
  <2>1. /\ accounts' = accounts \cup {calls[s].uid} /\ calls[s].uid \in Uids
        /\ calls[s].step = "auth" /\ calls' = [calls EXCEPT ![s].step = "info"]
        /\ UNCHANGED <<kept, users, heap, current, screen, puts>>
    BY <1>0, CallUid DEF AccountFound
  <2>3. /\ calls' \in [Slots -> Call]
        /\ calls'[s].step = "info" /\ calls'[s].uid = calls[s].uid
        /\ calls'[s].obj = calls[s].obj
        /\ \A t \in Slots : t # s => calls'[t] = calls[t]
    BY <2>1, StepType
  <2>2. TypeOK' /\ CallsOK'
    BY <2>1, <2>3 DEF IInv, TypeOK, CallsOK, kept
  <2> QED
    BY <2>1, <2>2, <2>3, QuietInv DEF kept
<1>1. CASE AuthReturns(s)
  <2>1. accounts' \in SUBSET Uids /\ auth' \in Uids /\ calls[s].step = "info"
    BY <1>1, CallUid DEF AuthReturns, IInv, TypeOK
  <2>2. UNCHANGED <<users, fbToken, saved, heap, current, screen>>
    BY <1>1 DEF AuthReturns
  <2>3. CASE StartCreate(s)
    BY <2>1, <2>2, <2>3, StartCreateInv
  <2>4. CASE calls' = [calls EXCEPT ![s].step = "show"] /\ puts' = puts
    <3>1. /\ calls' \in [Slots -> Call]
          /\ calls'[s].step = "show" /\ calls'[s].uid = calls[s].uid
          /\ calls'[s].obj = calls[s].obj
          /\ \A t \in Slots : t # s => calls'[t] = calls[t]
      BY <2>4, StepType
    <3>2. TypeOK' /\ CallsOK'
      BY <2>1, <2>2, <2>4, <3>1 DEF IInv, TypeOK, CallsOK
    <3> QED
      BY <2>1, <2>2, <2>4, <3>1, <3>2, QuietInv
  <2> QED
    BY <1>1, <2>3, <2>4 DEF AuthReturns
<1>2. CASE ShowReturns(s)
  <2>1. PICK v \in Entry \cup {Nil} :
           IF v # Nil THEN EnterMain(s, v) /\ UNCHANGED puts
           ELSE /\ IF calls[s].via = "facebook" THEN StartCreate(s)
                   ELSE calls' = Free(s) /\ UNCHANGED puts
                /\ UNCHANGED <<heap, current, saved, screen>>
    BY <1>2 DEF ShowReturns
  <2>2. UNCHANGED <<server, auth, fbToken>> /\ calls[s].step = "show"
    BY <1>2 DEF ShowReturns
  <2>3. CASE v # Nil
    BY <2>1, <2>2, <2>3, EnterMainInv
  <2>4. CASE v = Nil /\ StartCreate(s)
    BY <2>1, <2>2, <2>4, StartCreateInv DEF IInv, TypeOK
  <2>5. CASE v = Nil /\ calls' = Free(s) /\ UNCHANGED puts
    BY <2>1, <2>2, <2>5, NotFoundInv
  <2> QED
    BY <2>1, <2>3, <2>4, <2>5
<1>3. CASE RereadReturns(s)
  <2>1. PICK v \in Entry \cup {Nil} :
           IF v # Nil THEN EnterMain(s, v)
           ELSE calls' = Free(s) /\ UNCHANGED <<heap, current, saved, screen>>
    BY <1>3 DEF RereadReturns
  <2>2. UNCHANGED <<server, auth, fbToken, puts>> /\ calls[s].step = "reread"
    BY <1>3 DEF RereadReturns
  <2> QED
    BY <2>1, <2>2, EnterMainInv, NotFoundInv
<1> QED
  BY <1>0, <1>1, <1>2, <1>3

\* The oldest write leaves the queue; no other write waits for the same call.
LEMMA TailPut ==
    ASSUME TypeOK, PutsOK, puts # <<>>
    PROVE  /\ Head(puts) \in Put
           /\ calls[Head(puts).slot].step \in {"create", "update"}
           /\ Tail(puts) \in Seq(Put) /\ Len(Tail(puts)) \in Nat
           /\ \A j \in 1 .. Len(Tail(puts)) :
                 /\ j + 1 \in 1 .. Len(puts)
                 /\ Tail(puts)[j] = puts[j + 1]
                 /\ Tail(puts)[j].slot \in Slots
                 /\ Tail(puts)[j].slot # Head(puts).slot
<1>1. puts \in Seq(Put) /\ Len(puts) \in Nat /\ Len(puts) > 0
  BY DEF TypeOK
<1>2. 1 \in 1 .. Len(puts) /\ Head(puts) = puts[1]
  BY <1>1
<1>3. Head(puts) \in Put
  BY <1>1
<1>4. /\ Tail(puts) \in Seq(Put) /\ Len(Tail(puts)) = Len(puts) - 1
      /\ \A j \in 1 .. Len(Tail(puts)) : Tail(puts)[j] = puts[j + 1]
  BY <1>1
<1>5. \A j \in 1 .. Len(Tail(puts)) : j + 1 \in 1 .. Len(puts) /\ j + 1 # 1
  BY <1>1, <1>4
<1>6. \A j \in 1 .. Len(puts) : puts[j].slot \in Slots
  BY <1>1, PutAt
<1> QED
  BY <1>1, <1>2, <1>3, <1>4, <1>5, <1>6 DEF PutsOK

\* The reply to a write runs the completion of the call that made it.
LEMMA PutReplyInv == IInv /\ PutReply => IInv'
<1> SUFFICES ASSUME IInv, PutReply PROVE IInv'
  OBVIOUS
<1> USE NilIsNobody, NilIsNoRecord DEF IInv, server
<1> DEFINE p == Head(puts)
           s == p.slot
<1>1. puts # <<>> /\ puts' = Tail(puts)
  BY DEF PutReply, PutAcked, PutRejected
<1>2. UNCHANGED <<accounts, auth, fbToken, screen>>
  BY DEF PutReply, PutAcked, PutRejected
<1>3. /\ s \in Slots /\ p.uid \in Uids /\ p.entry \in Entry
      /\ calls[s].step \in {"create", "update"}
      /\ puts' \in Seq(Put) /\ Len(puts') \in Nat
      /\ \A j \in 1 .. Len(puts') : /\ j + 1 \in 1 .. Len(puts)
                                    /\ puts'[j] = puts[j + 1]
                                    /\ puts'[j].slot \in Slots /\ puts'[j].slot # s
  BY <1>1, TailPut DEF Put
<1>4. users' \in [Uids -> Entry \cup {Nil}]
  BY <1>3 DEF PutReply, PutAcked, PutRejected, TypeOK
<1>5. \/ /\ calls' \in {[calls EXCEPT ![s].step = "reread"], Free(s)}
         /\ calls[s].step = "create"
         /\ UNCHANGED <<heap, current, saved>>
      \/ /\ calls[s].step = "update"
         /\ AdoptCaptured(s)
  BY <1>3 DEF PutReply, PutAcked, PutRejected
<1> HIDE DEF p, s
<1>6. /\ calls' \in [Slots -> Call]
      /\ calls'[s].step \in {"reread", "idle"}
      /\ calls'[s].step = "reread" => calls'[s].uid # Nil
      /\ calls'[s].obj \in {Nil, calls[s].obj}
      /\ \A t \in Slots : t # s => calls'[t] = calls[t]
  <2>1. CASE calls' = Free(s)
    BY <1>3, <2>1, FreeType DEF TypeOK, Idle
  <2>2. CASE calls' = [calls EXCEPT ![s].step = "reread"] /\ calls[s].step = "create"
    <3>2. calls[s].uid # Nil
      BY <1>3, <2>2 DEF CallsOK
    <3> QED
      BY <1>3, <2>2, <3>2, StepType
  <2> QED
    BY <1>5, <2>1, <2>2 DEF AdoptCaptured
<1>7. PutsOK'
  <2>1. \A j \in 1 .. Len(puts') : calls'[puts'[j].slot].step \in {"create", "update"}
    BY <1>3, <1>6 DEF PutsOK
  <2>2. \A j, k \in 1 .. Len(puts') : puts'[j].slot = puts'[k].slot => j = k
    BY <1>3 DEF PutsOK
  <2> QED
    BY <2>1, <2>2 DEF PutsOK
<1>8. CASE calls[s].step = "create"
  <2>1. UNCHANGED <<heap, current, saved>>
    BY <1>5, <1>8
  <2>2. TypeOK'
    BY <1>2, <1>3, <1>4, <1>6, <2>1 DEF TypeOK
  <2>3. HeapOK' /\ SavedIsCurrent' /\ CallsOK'
    BY <1>6, <2>1 DEF HeapOK, SavedIsCurrent, CallsOK
  <2>4. CurrentUserExists'
    BY <1>2, <1>6, <2>1 DEF CurrentUserExists, Busy
  <2> QED
    BY <1>7, <2>2, <2>3, <2>4
<1>9. CASE calls[s].step = "update"
  <2> DEFINE o == calls[s].obj
  <2>1. o \in Objects /\ heap[o] \in User /\ heap[o] # Nil
    BY <1>3, <1>9 DEF TypeOK, CallsOK, Call
  <2>2. current' = o /\ saved' = heap[o] /\ heap' = Retained(heap, o, calls)
    BY <1>5, <1>9 DEF AdoptCaptured
  <2>3. /\ heap' \in [Objects -> User \cup {Nil}] /\ heap'[o] = heap[o]
        /\ \A t \in Slots : calls[t].obj # Nil => heap'[calls[t].obj] # Nil
    <3>1. \A t \in Slots : calls[t].obj \in Objects \cup {Nil}
      BY DEF TypeOK, Call
    <3> QED
      BY <2>1, <2>2, <3>1 DEF Retained, TypeOK, CallsOK
  <2> HIDE DEF o
  <2>4. TypeOK'
    BY <1>2, <1>3, <1>4, <1>6, <2>1, <2>2, <2>3 DEF TypeOK
  <2>5. HeapOK' /\ SavedIsCurrent' /\ CurrentUserExists'
    BY <2>1, <2>2, <2>3 DEF HeapOK, SavedIsCurrent, CurrentUserExists
  <2>6. CallsOK'
    BY <1>3, <1>6, <2>3 DEF CallsOK
  <2> QED
    BY <1>7, <2>4, <2>5, <2>6
<1> QED
  BY <1>3, <1>8, <1>9

\* The invariant is inductive.
LEMMA StepInv == IInv /\ [Next]_vars => IInv'
<1> SUFFICES ASSUME IInv, [Next]_vars PROVE IInv'
  OBVIOUS
<1>1. CASE UNCHANGED vars
  BY <1>1 DEF vars, IInv, TypeOK, HeapOK, CallsOK, PutsOK, CurrentUserExists,
              SavedIsCurrent, Busy
<1>2. CASE Launch \/ Kill \/ TokenRevoked \/ Logout
  BY <1>2, LaunchInv, KillInv, LoginMoveInv
<1>3. CASE Tap
  BY <1>3, TapInv
<1>4. CASE Move
  BY <1>4, LoginMoveInv, OpenProfileInv DEF Move
<1>5. CASE \E s \in Slots : TapUpdate(s)
  BY <1>5, TapUpdateInv
<1>6. CASE Reply \/ \E s \in Slots : ReadCancelled(s)
  <2>1. ASSUME NEW s \in Slots, CallReply(s) PROVE IInv'
    BY <2>1, EndInv, LoginReplyInv, BeaconsReturnInv, FacebookReturnsInv DEF CallReply
  <2> QED
    BY <1>6, <2>1, EndInv, PutReplyInv DEF Reply
<1> QED
  BY <1>1, <1>2, <1>3, <1>4, <1>5, <1>6 DEF Next, Served

\* Every reachable state satisfies the invariant.
THEOREM Invariance == Spec => []IInv
BY InitInv, StepInv, PTL DEF Spec

\* Every variable keeps its type, however calls, replies and kills interleave.
THEOREM TypeCorrect == Spec => []TypeOK
<1>1. IInv => TypeOK
  BY DEF IInv
<1> QED
  BY <1>1, Invariance, PTL

\* The fatalError of User.current is unreachable (User.swift:84).
THEOREM NoFatalError == Spec => []CurrentUserExists
<1>1. IInv => CurrentUserExists
  BY DEF IInv
<1> QED
  BY <1>1, Invariance, PTL

\* The user in memory and the archived user are always the same account.
THEOREM MemoryMatchesArchive == Spec => []SavedIsCurrent
<1>1. IInv => SavedIsCurrent
  BY DEF IInv
<1> QED
  BY <1>1, Invariance, PTL

=============================================================================
