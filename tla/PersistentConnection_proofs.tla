--------------------- MODULE PersistentConnection_proofs ---------------------
(***************************************************************************)
(* Proofs about PersistentConnection for any accounts, epochs, faults and   *)
(* upsets: type correctness, that a retry is scheduled exactly while the    *)
(* client is disconnected and not interrupted, that nothing is sent on a    *)
(* closed connection, that the answer to a token fetch never finds a        *)
(* connection that was opened meanwhile, that the server knows the          *)
(* connection by the user's account once everything is exchanged, that a    *)
(* token that was refused is not offered again, and that this is the        *)
(* connection RealtimeDatabase has.                                         *)
(***************************************************************************)
EXTENDS PersistentConnection, SequenceTheorems, FiniteSetTheorems, WellFoundedInduction, TLAPS

\* Nothing is left of a connection that cannot be used.
NothingLeft == ~CanSend => up = <<>> /\ down = <<>> /\ session = Nil

\* A client that asks for a token is not interrupted.
Uninterrupted == state = "gettingToken" => reasons = {}

LinkOK == ReconnectIsScheduled /\ SendsAreSafe /\ NothingLeft /\ Uninterrupted

\* No two fetches, asked in f or answered in e, have the same number, and none
\* has one that comes after n.
Numbered(f, e, n) ==
    /\ \A i \in DOMAIN f : f[i].attempt <= n
    /\ \A i, j \in DOMAIN f : f[i].attempt = f[j].attempt => i = j
    /\ \A i \in DOMAIN e : e[i].kind = "fetched" =>
          /\ e[i].attempt <= n
          /\ \A j \in DOMAIN f : f[j].attempt # e[i].attempt
    /\ \A i, j \in DOMAIN e :
          e[i].kind = "fetched" /\ e[j].kind = "fetched" /\ e[i].attempt = e[j].attempt
              => i = j

\* The fetch with number n is asked or answered.
Awaited(f, e, n) ==
    \/ \E i \in DOMAIN f : f[i].attempt = n
    \/ \E i \in DOMAIN e : e[i].kind = "fetched" /\ e[i].attempt = n

Flights == Numbered(fetches, events, attempt)

\* The variables that the parts of the handlers change.
LinkTypes ==
    /\ state \in States /\ realtime \in {"none", "connecting", "connected"}
    /\ reasons \subseteq Reasons /\ scheduled \in [force : BOOLEAN] \cup {Nil}
    /\ forceRefresh \in BOOLEAN /\ up \in Seq(Request) /\ down \in Seq(Message)
    /\ session \in Token \cup {Nil} /\ faults \in Nat

Link == LinkTypes /\ LinkOK

\* The others.
RestTypes ==
    /\ attempt \in Nat /\ authToken \in Token \cup {Nil}
    /\ user \in Users \cup {Nil} /\ cached \in Token \cup {Nil}
    /\ fetches \in Seq(Fetch) /\ events \in Seq(Event)
    /\ epoch \in 0 .. MaxEpoch /\ upsets \in Nat
    /\ stray \in BOOLEAN /\ overtaken \in BOOLEAN
    /\ refused \subseteq Token /\ forgotten \in BOOLEAN

Expected == Awaited(fetches, events, attempt) => state \in {"gettingToken", "disconnected"}

IInv == Link /\ RestTypes /\ Flights /\ Expected

----------------------------------------------------------------------------
(* The parts *)

\* Events and requests are what they are built as.
LEMMA ChangedIsEvent ==
    ASSUME NEW t \in Token \cup {Nil}
    PROVE  Changed(t) \in Event /\ Changed(t).kind = "changed"
BY DEF Changed, Event

\* An answer to a fetch is an event.
LEMMA FetchedIsEvent ==
    ASSUME NEW n \in Nat, NEW t \in Token \cup {Nil}, NEW e \in BOOLEAN
    PROVE  /\ Fetched(n, t, e) \in Event /\ Fetched(n, t, e).kind = "fetched"
           /\ Fetched(n, t, e).attempt = n
BY DEF Fetched, Event

\* A token that is sent is a request.
LEMMA AuthenticateIsRequest ==
    ASSUME NEW t \in Token, NEW restore \in BOOLEAN
    PROVE  Authenticate(t, restore) \in Request
BY DEF Authenticate, Request

\* A new token is a token.
LEMMA FreshIsToken ==
    ASSUME TypeOK, NEW u \in Users
    PROVE  Fresh(u) \in Token
BY DEF TypeOK, Fresh, Token

\* An element more.
LEMMA Appended ==
    ASSUME NEW S, NEW q \in Seq(S), NEW x \in S
    PROVE  /\ Append(q, x) \in Seq(S) /\ DOMAIN Append(q, x) = 1 .. Len(q) + 1
           /\ DOMAIN q = 1 .. Len(q) /\ Len(q) \in Nat
           /\ \A i \in 1 .. Len(q) : Append(q, x)[i] = q[i]
           /\ Append(q, x)[Len(q) + 1] = x
OBVIOUS

\* The first element taken.
LEMMA Taken ==
    ASSUME NEW S, NEW q \in Seq(S), q # <<>>
    PROVE  /\ Head(q) \in S /\ Head(q) = q[1] /\ 1 \in DOMAIN q
           /\ Tail(q) \in Seq(S) /\ DOMAIN Tail(q) = 1 .. Len(q) - 1
           /\ DOMAIN q = 1 .. Len(q) /\ Len(q) \in Nat
           /\ \A i \in 1 .. Len(q) - 1 : Tail(q)[i] = q[i + 1]
OBVIOUS

\* One element taken out.
LEMMA TakenOut ==
    ASSUME NEW S, NEW q \in Seq(S), NEW i \in DOMAIN q
    PROVE  /\ Without(q, i) \in Seq(S) /\ DOMAIN Without(q, i) = 1 .. Len(q) - 1
           /\ \A k \in 1 .. Len(q) - 1 : Without(q, i)[k] = q[IF k < i THEN k ELSE k + 1]
<1> DEFINE a == SubSeq(q, 1, i - 1)
           b == SubSeq(q, i + 1, Len(q))
<1>1. Len(q) \in Nat /\ i \in 1 .. Len(q)
  OBVIOUS
<1>2. a \in Seq(S) /\ Len(a) = i - 1 /\ \A k \in 1 .. i - 1 : a[k] = q[k]
  <2>1. CASE i = 1
    BY <1>1, <2>1
  <2>2. CASE i > 1
    BY <1>1, <2>2
  <2> QED
    BY <1>1, <2>1, <2>2
<1>3. b \in Seq(S) /\ Len(b) = Len(q) - i /\ \A k \in 1 .. Len(q) - i : b[k] = q[k + i]
  <2>1. CASE i = Len(q)
    BY <1>1, <2>1
  <2>2. CASE i < Len(q)
    BY <1>1, <2>2
  <2> QED
    BY <1>1, <2>1, <2>2
<1> HIDE DEF a, b
<1>4. /\ a \o b \in Seq(S) /\ Len(a \o b) = Len(q) - 1
      /\ DOMAIN (a \o b) = 1 .. Len(q) - 1
  BY <1>1, <1>2, <1>3
<1>5. ASSUME NEW k \in 1 .. Len(q) - 1
      PROVE  (a \o b)[k] = q[IF k < i THEN k ELSE k + 1]
  <2>1. CASE k < i
    BY <1>1, <1>2, <1>3, <2>1
  <2>2. CASE ~(k < i)
    <3>1. (a \o b)[k] = b[k - (i - 1)]
      BY <1>1, <1>2, <1>3, <2>2
    <3>2. k - (i - 1) \in 1 .. Len(q) - i /\ k - (i - 1) + i = k + 1
      BY <1>1, <2>2
    <3> QED
      BY <1>3, <2>2, <3>1, <3>2
  <2> QED
    BY <2>1, <2>2
<1>6. Without(q, i) = a \o b
  BY DEF Without, a, b
<1> QED
  BY <1>4, <1>5, <1>6

\* The former user's calls stay the calls they are.
LEMMA DroppedSame ==
    ASSUME NEW q \in Seq(Fetch)
    PROVE  /\ Dropped(q) \in Seq(Fetch) /\ DOMAIN Dropped(q) = DOMAIN q
           /\ \A i \in DOMAIN q : Dropped(q)[i].attempt = q[i].attempt
<1> DEFINE d(i) == [q[i] EXCEPT !.mine = FALSE]
<1>1. ASSUME NEW i \in DOMAIN q
      PROVE  d(i) \in Fetch /\ d(i).attempt = q[i].attempt
  <2>1. q[i] \in Fetch
    OBVIOUS
  <2> QED
    BY <2>1 DEF Fetch
<1>2. Len(q) \in Nat /\ DOMAIN q = 1 .. Len(q) /\ Dropped(q) = [i \in 1 .. Len(q) |-> d(i)]
  BY DEF Dropped
<1> HIDE DEF d
<1>3. Dropped(q) \in [1 .. Len(q) -> Fetch]
  BY <1>1, <1>2
<1>4. Dropped(q) \in Seq(Fetch)
  BY <1>2, <1>3, IsASeq
<1> QED
  BY <1>1, <1>2, <1>4

----------------------------------------------------------------------------
(* The link *)

\* A retry is scheduled unless there are reasons not to.
LEMMA ScheduleLink ==
    ASSUME NEW rs, NEW force \in BOOLEAN, scheduled \in [force : BOOLEAN] \cup {Nil},
           rs = {} \/ scheduled = Nil, TryScheduleReconnect(rs, force)
    PROVE  /\ scheduled' \in [force : BOOLEAN] \cup {Nil} /\ forceRefresh' \in BOOLEAN
           /\ scheduled' # Nil <=> rs = {}
<1>1. [force |-> force] \in [force : BOOLEAN]
  OBVIOUS
<1>2. CASE rs = {}
  BY <1>1, <1>2, NilIsNoToken DEF TryScheduleReconnect
<1>3. CASE rs # {}
  BY <1>3 DEF TryScheduleReconnect
<1> QED
  BY <1>2, <1>3

\* A closed connection leaves the link in order.
LEMMA DisconnectLink ==
    ASSUME Link, NEW force \in BOOLEAN, OnDisconnect(reasons', force), realtime # "none",
           reasons' \subseteq Reasons
    PROVE  Link' /\ state' = "disconnected"
<1>1. state # "disconnected"
  BY DEF Link, LinkTypes, LinkOK, SendsAreSafe, CanSend
<1>2. scheduled = Nil
  BY <1>1 DEF Link, LinkOK, ReconnectIsScheduled
<1>3. /\ scheduled' \in [force : BOOLEAN] \cup {Nil} /\ forceRefresh' \in BOOLEAN
      /\ scheduled' # Nil <=> reasons' = {}
  BY <1>2, ScheduleLink DEF OnDisconnect, Link, LinkTypes
<1>4. /\ state' = "disconnected" /\ realtime' = "none"
      /\ up' = <<>> /\ down' = <<>> /\ session' = Nil /\ faults' \in Nat
  BY DEF OnDisconnect, Link, LinkTypes
<1>5. LinkTypes'
  BY <1>3, <1>4 DEF LinkTypes, States
<1>6. LinkOK'
  BY <1>3, <1>4 DEF LinkOK, ReconnectIsScheduled, SendsAreSafe, NothingLeft, Uninterrupted, CanSend
<1> QED
  BY <1>4, <1>5, <1>6 DEF Link

\* An interruption closes the connection or cancels the retry.
LEMMA InterruptLink ==
    ASSUME Link, NEW r \in Reasons, InterruptForReason(r)
    PROVE  Link' /\ state' = "disconnected"
<1>1. reasons' = reasons \cup {r} /\ reasons' \subseteq Reasons
  BY DEF InterruptForReason, Link, LinkTypes
<1>2. CASE realtime # "none"
  BY <1>1, <1>2, DisconnectLink DEF InterruptForReason, Link, LinkTypes
<1>3. CASE realtime = "none"
  <2>1. /\ state' = "disconnected" /\ scheduled' = Nil
        /\ UNCHANGED <<realtime, forceRefresh, wire, faults>>
    BY <1>3 DEF InterruptForReason
  <2>2. LinkTypes'
    BY <1>1, <2>1 DEF Link, LinkTypes, States, wire
  <2>3. LinkOK'
    BY <1>1, <1>3, <2>1 DEF Link, LinkOK, ReconnectIsScheduled, SendsAreSafe, NothingLeft,
                            Uninterrupted, CanSend, wire
  <2> QED
    BY <2>1, <2>2, <2>3 DEF Link
<1> QED
  BY <1>2, <1>3

\* A reason less.
LEMMA ResumeLink ==
    ASSUME Link, NEW r \in reasons, ResumeForReason(r)
    PROVE  Link'
<1>1. /\ reasons # {} /\ reasons' = reasons \ {r}
      /\ UNCHANGED <<state, realtime, wire, faults>>
  BY DEF ResumeForReason
<1>2. scheduled = Nil
  BY <1>1 DEF Link, LinkOK, ReconnectIsScheduled
<1>3. /\ scheduled' \in [force : BOOLEAN] \cup {Nil} /\ forceRefresh' \in BOOLEAN
      /\ scheduled' # Nil <=> reasons' = {} /\ state = "disconnected"
  <2>1. CASE reasons' = {} /\ state = "disconnected"
    BY <1>2, <2>1, ScheduleLink DEF ResumeForReason, Link, LinkTypes
  <2>2. CASE ~(reasons' = {} /\ state = "disconnected")
    BY <1>2, <2>2 DEF ResumeForReason, Link, LinkTypes
  <2> QED
    BY <2>1, <2>2
<1>4. LinkTypes'
  BY <1>1, <1>3 DEF Link, LinkTypes, wire
<1>5. LinkOK'
  BY <1>1, <1>3 DEF Link, LinkOK, ReconnectIsScheduled, SendsAreSafe, NothingLeft, Uninterrupted, CanSend,
                    wire
<1> QED
  BY <1>4, <1>5 DEF Link

----------------------------------------------------------------------------
(* The fetches *)

\* A posted token is no answer.
LEMMA PostedNumbers ==
    ASSUME NEW f, NEW e \in Seq(Event), NEW n, NEW x \in Event, x.kind = "changed",
           Numbered(f, e, n)
    PROVE  /\ Numbered(f, Append(e, x), n)
           /\ \A m : Awaited(f, Append(e, x), m) => Awaited(f, e, m)
<1> DEFINE d == Append(e, x)
<1>1. /\ DOMAIN d = 1 .. Len(e) + 1 /\ DOMAIN e = 1 .. Len(e) /\ Len(e) \in Nat
      /\ \A i \in 1 .. Len(e) : d[i] = e[i]
      /\ d[Len(e) + 1] = x
  BY Appended
<1> HIDE DEF d
<1>2. \A i \in DOMAIN d : d[i].kind = "fetched" => i \in DOMAIN e /\ d[i] = e[i]
  BY <1>1
<1> QED
  BY <1>2 DEF Numbered, Awaited, d

\* The calls of a former user keep their numbers.
LEMMA SameNumbers ==
    ASSUME NEW f, NEW g, NEW e, NEW n, DOMAIN g = DOMAIN f,
           \A i \in DOMAIN f : g[i].attempt = f[i].attempt,
           Numbered(f, e, n)
    PROVE  /\ Numbered(g, e, n)
           /\ \A m : Awaited(g, e, m) => Awaited(f, e, m)
BY DEF Numbered, Awaited

\* A fetch is answered.
LEMMA AnsweredNumbers ==
    ASSUME NEW f \in Seq(Fetch), NEW e \in Seq(Event), NEW n, NEW i \in DOMAIN f,
           NEW x \in Event, x.kind = "fetched", x.attempt = f[i].attempt,
           Numbered(f, e, n)
    PROVE  /\ Numbered(Without(f, i), Append(e, x), n)
           /\ \A m : Awaited(Without(f, i), Append(e, x), m) => Awaited(f, e, m)
<1> DEFINE d == Append(e, x)
           g == Without(f, i)
           at(k) == IF k < i THEN k ELSE k + 1
<1>1. /\ DOMAIN d = 1 .. Len(e) + 1 /\ DOMAIN e = 1 .. Len(e) /\ Len(e) \in Nat
      /\ \A j \in 1 .. Len(e) : d[j] = e[j]
      /\ d[Len(e) + 1] = x
  BY Appended
<1>2. /\ DOMAIN g = 1 .. Len(f) - 1 /\ DOMAIN f = 1 .. Len(f) /\ Len(f) \in Nat
      /\ \A k \in 1 .. Len(f) - 1 : g[k] = f[at(k)]
  BY TakenOut
<1> HIDE DEF d, g
<1>3. /\ \A k \in DOMAIN g : at(k) \in DOMAIN f /\ at(k) # i /\ g[k] = f[at(k)]
      /\ \A k, j \in DOMAIN g : at(k) = at(j) => k = j
  BY <1>2
<1>4. \A j \in DOMAIN d : \/ j \in DOMAIN e /\ d[j] = e[j]
                          \/ j = Len(e) + 1 /\ d[j] = x
  BY <1>1
<1> HIDE DEF at
<1>5. \A k \in DOMAIN g : g[k].attempt <= n
  BY <1>3 DEF Numbered
<1>6. \A k, j \in DOMAIN g : g[k].attempt = g[j].attempt => k = j
  BY <1>3 DEF Numbered
<1>7. \A k \in DOMAIN g : g[k].attempt # f[i].attempt
  BY <1>3 DEF Numbered
<1>8. ASSUME NEW j \in DOMAIN d, d[j].kind = "fetched"
      PROVE  d[j].attempt <= n /\ \A k \in DOMAIN g : g[k].attempt # d[j].attempt
  <2>1. CASE j \in DOMAIN e /\ d[j] = e[j]
    BY <1>3, <1>8, <2>1 DEF Numbered
  <2>2. CASE d[j] = x
    BY <1>7, <2>2 DEF Numbered
  <2> QED
    BY <1>4, <2>1, <2>2
<1>9. ASSUME NEW j \in DOMAIN d, NEW k \in DOMAIN d, d[j].kind = "fetched",
             d[k].kind = "fetched", d[j].attempt = d[k].attempt
      PROVE  j = k
  <2>1. CASE j \in DOMAIN e /\ d[j] = e[j] /\ k \in DOMAIN e /\ d[k] = e[k]
    BY <1>9, <2>1 DEF Numbered
  <2>2. CASE j \in DOMAIN e /\ d[j] = e[j] /\ d[k] = x
    BY <1>9, <2>2 DEF Numbered
  <2>3. CASE d[j] = x /\ k \in DOMAIN e /\ d[k] = e[k]
    BY <1>9, <2>3 DEF Numbered
  <2> QED
    BY <1>4, <2>1, <2>2, <2>3
<1>10. Numbered(g, d, n)
  BY <1>5, <1>6, <1>8, <1>9 DEF Numbered
<1>11. ASSUME NEW m, Awaited(g, d, m) PROVE Awaited(f, e, m)
  <2>1. CASE \E k \in DOMAIN g : g[k].attempt = m
    BY <1>3, <2>1 DEF Awaited
  <2>2. CASE \E j \in DOMAIN d : d[j].kind = "fetched" /\ d[j].attempt = m
    BY <1>4, <2>2 DEF Awaited
  <2> QED
    BY <1>11, <2>1, <2>2 DEF Awaited
<1> QED
  BY <1>10, <1>11 DEF d, g

\* A fetch is asked for, with the next number.
LEMMA AskedNumbers ==
    ASSUME NEW f \in Seq(Fetch), NEW e \in Seq(Event), NEW n \in Nat,
           NEW x \in Fetch, x.attempt = n + 1, Numbered(f, e, n)
    PROVE  Numbered(Append(f, x), e, n + 1)
<1> DEFINE g == Append(f, x)
<1>1. /\ DOMAIN g = 1 .. Len(f) + 1 /\ DOMAIN f = 1 .. Len(f) /\ Len(f) \in Nat
      /\ \A j \in 1 .. Len(f) : g[j] = f[j]
      /\ g[Len(f) + 1] = x
  BY Appended
<1> HIDE DEF g
<1>2. \A j \in DOMAIN g : \/ j \in DOMAIN f /\ g[j] = f[j]
                          \/ j = Len(f) + 1 /\ g[j] = x
  BY <1>1
<1>3. ASSUME NEW j \in DOMAIN f PROVE f[j].attempt \in Nat /\ f[j].attempt <= n
  <2>1. f[j] \in Fetch
    OBVIOUS
  <2> QED
    BY <2>1 DEF Numbered, Fetch
<1>4. ASSUME NEW j \in DOMAIN e, e[j].kind = "fetched"
      PROVE  e[j].attempt \in Nat /\ e[j].attempt <= n
  <2>1. e[j] \in Event
    OBVIOUS
  <2> QED
    BY <1>4, <2>1 DEF Numbered, Event
<1>5. \A j \in DOMAIN g : g[j].attempt <= n + 1
  BY <1>2, <1>3
<1>6. \A j, k \in DOMAIN g : g[j].attempt = g[k].attempt => j = k
  BY <1>2, <1>3 DEF Numbered
<1>7. ASSUME NEW j \in DOMAIN e, e[j].kind = "fetched"
      PROVE  e[j].attempt <= n + 1 /\ \A k \in DOMAIN g : g[k].attempt # e[j].attempt
  BY <1>2, <1>4, <1>7 DEF Numbered
<1> QED
  BY <1>5, <1>6, <1>7 DEF Numbered, g

\* An event is taken; if it is an answer its number is not awaited any longer.
LEMMA TakenNumbers ==
    ASSUME NEW f, NEW e \in Seq(Event), e # <<>>, NEW n, Numbered(f, e, n)
    PROVE  /\ Numbered(f, Tail(e), n)
           /\ \A m : Awaited(f, Tail(e), m) =>
                 Awaited(f, e, m) /\ (Head(e).kind = "fetched" => m # Head(e).attempt)
<1> DEFINE d == Tail(e)
<1>1. /\ DOMAIN d = 1 .. Len(e) - 1 /\ DOMAIN e = 1 .. Len(e) /\ Len(e) \in Nat
      /\ \A i \in 1 .. Len(e) - 1 : d[i] = e[i + 1]
      /\ Head(e) = e[1] /\ 1 \in DOMAIN e
  BY Taken
<1> HIDE DEF d
<1>2. \A i \in DOMAIN d : i \in Int /\ i + 1 \in DOMAIN e /\ d[i] = e[i + 1] /\ i + 1 # 1
  BY <1>1
<1>3. Numbered(f, d, n)
  BY <1>2 DEF Numbered
<1>4. ASSUME NEW m, Awaited(f, d, m)
      PROVE  Awaited(f, e, m) /\ (Head(e).kind = "fetched" => m # Head(e).attempt)
  <2>1. CASE \E j \in DOMAIN f : f[j].attempt = m
    BY <1>1, <2>1 DEF Numbered, Awaited
  <2>2. CASE \E i \in DOMAIN d : d[i].kind = "fetched" /\ d[i].attempt = m
    BY <1>1, <1>2, <2>2 DEF Numbered, Awaited
  <2> QED
    BY <1>4, <2>1, <2>2 DEF Awaited
<1> QED
  BY <1>3, <1>4 DEF d

----------------------------------------------------------------------------
(* Every step keeps the invariant *)

\* Initially the client waits to be opened.
LEMMA InitInv == Init => IInv
<1> SUFFICES ASSUME Init PROVE IInv
  OBVIOUS
<1>1. LinkTypes
  <2>1. "disconnected" \in States /\ {"waitingForOpen"} \subseteq Reasons
    BY DEF States, Reasons
  <2>2. <<>> \in Seq(Request) /\ <<>> \in Seq(Message)
    OBVIOUS
  <2> QED
    BY <2>1, <2>2 DEF Init, LinkTypes
<1>2. LinkOK
  BY DEF Init, LinkOK, ReconnectIsScheduled, SendsAreSafe, NothingLeft, Uninterrupted, CanSend
<1>3. RestTypes
  <2>1. epoch \in 0 .. MaxEpoch
    BY EpochsAreNatural DEF Init
  <2>2. cached \in Token \cup {Nil}
    BY <2>1 DEF Init, Fresh, Token
  <2>3. <<>> \in Seq(Fetch) /\ <<>> \in Seq(Event)
    OBVIOUS
  <2> QED
    BY <2>1, <2>2, <2>3 DEF Init, RestTypes
<1>4. Flights /\ Expected
  BY DEF Init, Flights, Numbered, Expected
<1> QED
  BY <1>1, <1>2, <1>3, <1>4 DEF IInv, Link

\* The fetches are left alone.
LEMMA SameFlights ==
    ASSUME IInv, UNCHANGED <<attempt, fetches, events>>,
           state' = state \/ state' = "disconnected"
                \/ state \notin {"gettingToken", "disconnected"}
    PROVE  Flights' /\ Expected'
BY DEF IInv, Flights, Numbered, Expected, Awaited

\* Interruptions and their ends.
LEMMA InterruptInv ==
    ASSUME IInv, Open \/ GoOnline \/ GoOffline \/ OnKill
    PROVE  IInv'
<1>1. CASE Open \/ GoOnline
  <2>1. PICK r \in reasons : ResumeForReason(r)
    BY <1>1 DEF Open, GoOnline
  <2>2. Link'
    BY <2>1, ResumeLink DEF IInv
  <2>3. UNCHANGED <<state, attempt, authToken, auth, epoch, upsets, ghost>>
    BY <1>1 DEF Open, GoOnline, ResumeForReason
  <2>4. RestTypes'
    BY <2>3 DEF IInv, RestTypes, auth, ghost
  <2>5. Flights' /\ Expected'
    BY <2>3, SameFlights DEF auth
  <2> QED
    BY <2>2, <2>4, <2>5 DEF IInv
<1>2. CASE GoOffline \/ OnKill
  <2>1. PICK r \in Reasons : InterruptForReason(r)
    BY <1>2 DEF GoOffline, OnKill, Reasons
  <2>2. Link' /\ state' = "disconnected"
    BY <2>1, InterruptLink DEF IInv
  <2>3. /\ UNCHANGED <<attempt, authToken, auth, epoch, stray, overtaken, refused>>
        /\ upsets' = upsets + 1
    BY <1>2 DEF GoOffline, OnKill, InterruptForReason, Upset, ghost
  <2>4. forgotten' \in BOOLEAN
    BY <1>2 DEF IInv, RestTypes, GoOffline, OnKill, ghost
  <2>5. RestTypes'
    BY <2>3, <2>4 DEF IInv, RestTypes, auth
  <2>6. Flights' /\ Expected'
    BY <2>2, <2>3, SameFlights DEF auth
  <2> QED
    BY <2>2, <2>5, <2>6 DEF IInv
<1> QED
  BY <1>1, <1>2

\* A retry that takes the place of another.
LEMMA NudgeInv ==
    ASSUME IInv, Nudge
    PROVE  IInv'
<1>1. /\ state = "disconnected" /\ scheduled # Nil
      /\ TryScheduleReconnect(reasons, forceRefresh)
      /\ UNCHANGED <<state, realtime, reasons, attempt, authToken, auth, wire, epoch, faults,
                     stray, overtaken, refused>>
  BY DEF Nudge
<1>2. reasons = {} /\ realtime = "none"
  BY <1>1 DEF IInv, Link, LinkTypes, LinkOK, ReconnectIsScheduled, SendsAreSafe, CanSend
<1>3. /\ scheduled' \in [force : BOOLEAN] \cup {Nil} /\ forceRefresh' \in BOOLEAN
      /\ scheduled' # Nil <=> reasons = {}
  BY <1>1, <1>2, ScheduleLink DEF IInv, Link, LinkTypes
<1>4. Link'
  <2>1. LinkTypes'
    BY <1>1, <1>3 DEF IInv, Link, LinkTypes, wire
  <2>2. LinkOK'
    BY <1>1, <1>3 DEF IInv, Link, LinkOK, ReconnectIsScheduled, SendsAreSafe, NothingLeft,
                      Uninterrupted, CanSend, wire
  <2> QED
    BY <2>1, <2>2 DEF Link
<1>5. upsets' \in Nat /\ forgotten' \in BOOLEAN
  <2>1. upsets \in Nat /\ forgotten \in BOOLEAN
    BY DEF IInv, RestTypes
  <2>2. CASE scheduled.force
    BY <2>1, <2>2 DEF Nudge, Upset
  <2>3. CASE ~scheduled.force
    BY <2>1, <2>3 DEF Nudge
  <2> QED
    BY <2>2, <2>3
<1>6. RestTypes'
  BY <1>1, <1>5 DEF IInv, RestTypes, auth
<1>7. Flights' /\ Expected'
  BY <1>1, SameFlights DEF auth
<1> QED
  BY <1>4, <1>6, <1>7 DEF IInv

\* What the lemmas below start from.
LEMMA AuthFacts ==
    ASSUME IInv
    PROVE  /\ fetches \in Seq(Fetch) /\ events \in Seq(Event) /\ attempt \in Nat
           /\ user \in Users \cup {Nil} /\ cached \in Token \cup {Nil}
           /\ upsets \in Nat /\ stray \in BOOLEAN /\ forgotten \in BOOLEAN
           /\ Numbered(fetches, events, attempt)
           /\ \A u \in Users : Fresh(u) \in Token
BY DEF IInv, RestTypes, Flights, Fresh, Token

\* The retry asks for a token.
LEMMA RetryInv ==
    ASSUME IInv, Retry
    PROVE  IInv'
<1> DEFINE x == [attempt |-> attempt + 1, force |-> scheduled.force, user |-> user,
                 mine |-> TRUE]
<1>1. /\ scheduled # Nil /\ scheduled' = Nil /\ state' = "gettingToken"
      /\ attempt' = attempt + 1 /\ fetches' = Append(fetches, x)
      /\ stray' = FALSE
      /\ UNCHANGED <<realtime, reasons, authToken, forceRefresh, user, cached, events, wire,
                     epoch, faults, upsets, overtaken, refused, forgotten>>
  BY DEF Retry
<1>2. /\ state = "disconnected" /\ reasons = {} /\ realtime = "none"
      /\ scheduled \in [force : BOOLEAN]
  BY <1>1 DEF IInv, Link, LinkTypes, LinkOK, ReconnectIsScheduled, SendsAreSafe, CanSend
<1>3. x \in Fetch /\ x.attempt = attempt + 1
  BY <1>2 DEF IInv, RestTypes, Fetch
<1> HIDE DEF x
<1>4. Link'
  <2>1. LinkTypes'
    BY <1>1 DEF IInv, Link, LinkTypes, States, wire
  <2>2. LinkOK'
    BY <1>1, <1>2 DEF IInv, Link, LinkOK, ReconnectIsScheduled, SendsAreSafe, NothingLeft,
                      Uninterrupted, CanSend, wire
  <2> QED
    BY <2>1, <2>2 DEF Link
<1>5. RestTypes'
  <2>1. attempt' \in Nat /\ fetches' \in Seq(Fetch)
    BY <1>1, <1>3, AuthFacts, Appended
  <2> QED
    BY <1>1, <2>1 DEF IInv, RestTypes
<1>6. Numbered(Append(fetches, x), events, attempt + 1)
  BY <1>3, AskedNumbers DEF IInv, RestTypes, Flights
<1>7. Flights'
  BY <1>1, <1>6 DEF Flights
<1>8. Expected'
  BY <1>1 DEF Expected
<1> QED
  BY <1>4, <1>5, <1>7, <1>8 DEF IInv

\* The answer to a fetch is taken.
LEMMA OnTokenInv ==
    ASSUME IInv, OnToken
    PROVE  IInv'
<1> DEFINE e == Head(events)
<1>1. /\ events # <<>> /\ e.kind = "fetched" /\ events' = Tail(events)
      /\ UNCHANGED <<reasons, attempt, user, cached, fetches, wire, epoch, faults, upsets,
                     stray, refused, forgotten>>
      /\ overtaken' = overtaken \/ overtaken' = stray
  BY DEF OnToken
<1>2. events \in Seq(Event) /\ e \in Event /\ events' \in Seq(Event)
  BY <1>1, Taken DEF IInv, RestTypes
<1>3. e.token \in Token \cup {Nil}
  BY <1>2 DEF Event
<1>4. /\ Flights'
      /\ \A m : Awaited(fetches', events', m)
                 => Awaited(fetches, events, m) /\ m # e.attempt
  BY <1>1, <1>2, TakenNumbers DEF IInv, Flights
<1>5. Awaited(fetches, events, e.attempt)
  BY <1>1, <1>2, Taken DEF Awaited
<1>6. CASE e.attempt = attempt /\ e.error
  <2>1. /\ state' = "disconnected" /\ TryScheduleReconnect(reasons, forceRefresh)
        /\ UNCHANGED <<authToken, realtime>>
    BY <1>6 DEF OnToken
  <2>2. state \in {"gettingToken", "disconnected"}
    BY <1>5, <1>6 DEF IInv, Expected
  <2>3. realtime = "none" /\ (reasons = {} \/ scheduled = Nil)
    BY <2>2 DEF IInv, Link, LinkTypes, LinkOK, ReconnectIsScheduled, SendsAreSafe, CanSend
  <2>4. /\ scheduled' \in [force : BOOLEAN] \cup {Nil} /\ forceRefresh' \in BOOLEAN
        /\ scheduled' # Nil <=> reasons = {}
    BY <2>1, <2>3, ScheduleLink DEF IInv, Link, LinkTypes
  <2>5. LinkTypes'
    BY <1>1, <2>1, <2>4 DEF IInv, Link, LinkTypes, States, wire
  <2>6. LinkOK'
    BY <1>1, <2>1, <2>2, <2>3, <2>4 DEF IInv, Link, LinkOK, ReconnectIsScheduled, SendsAreSafe,
       NothingLeft, Uninterrupted, CanSend, wire
  <2>7. RestTypes'
    BY <1>1, <1>2, <2>1 DEF IInv, RestTypes
  <2> QED
    BY <1>4, <2>1, <2>5, <2>6, <2>7 DEF IInv, Link, Expected
<1>7. CASE e.attempt = attempt /\ ~e.error /\ state = "gettingToken"
  <2>1. /\ authToken' = e.token /\ state' = "connecting" /\ realtime' = "connecting"
        /\ UNCHANGED <<scheduled, forceRefresh>>
    BY <1>7 DEF OnToken
  <2>2. LinkTypes'
    BY <1>1, <2>1 DEF IInv, Link, LinkTypes, States, wire
  <2>3. LinkOK'
    BY <1>1, <1>7, <2>1 DEF IInv, Link, LinkOK, ReconnectIsScheduled, SendsAreSafe,
       NothingLeft, Uninterrupted, CanSend, wire
  <2>4. RestTypes'
    BY <1>1, <1>2, <1>3, <2>1 DEF IInv, RestTypes
  <2>5. Expected'
    BY <1>1, <1>4, <1>7 DEF Expected
  <2> QED
    BY <1>4, <2>2, <2>3, <2>4, <2>5 DEF IInv, Link
<1>8. CASE e.attempt # attempt \/ (~e.error /\ state # "gettingToken")
  <2>1. UNCHANGED <<authToken, state, realtime, scheduled, forceRefresh>>
    BY <1>8 DEF OnToken
  <2>2. Link'
    BY <1>1, <2>1 DEF IInv, Link, LinkTypes, LinkOK, ReconnectIsScheduled, SendsAreSafe,
       NothingLeft, Uninterrupted, CanSend, wire
  <2>3. RestTypes'
    BY <1>1, <1>2, <2>1 DEF IInv, RestTypes
  <2>4. Expected'
    BY <1>1, <1>4, <2>1 DEF IInv, Expected
  <2> QED
    BY <1>4, <2>2, <2>3, <2>4 DEF IInv
<1>9. (e.attempt = attempt /\ e.error) \/ (e.attempt = attempt /\ ~e.error /\ state = "gettingToken")
      \/ e.attempt # attempt \/ (~e.error /\ state # "gettingToken")
  BY <1>1 DEF OnToken
<1> QED
  BY <1>6, <1>7, <1>8, <1>9

\* Nothing but the connection and the state changes, and both agree again.
LEMMA SentInv ==
    ASSUME IInv, realtime = "connected" \/ realtime = "connecting",
           realtime' = "connected", state' \in {"authenticating", "connected"},
           UNCHANGED <<reasons, scheduled, attempt, forceRefresh, auth, session, epoch,
                       upsets, ghost>>,
           authToken' \in Token \cup {Nil},
           up' \in Seq(Request), down' \in Seq(Message), faults' \in Nat
    PROVE  IInv'
<1>1. /\ state \in {"connecting", "authenticating", "connected"} /\ reasons = {}
      /\ scheduled = Nil
  BY DEF IInv, Link, LinkOK, ReconnectIsScheduled, SendsAreSafe, CanSend
<1>2. LinkTypes'
  BY DEF IInv, Link, LinkTypes, States
<1>3. LinkOK'
  BY <1>1 DEF LinkOK, ReconnectIsScheduled, SendsAreSafe, NothingLeft, Uninterrupted, CanSend
<1>4. RestTypes'
  BY DEF IInv, RestTypes, auth, ghost
<1>5. Flights' /\ Expected'
  <2>1. UNCHANGED <<attempt, fetches, events>>
    BY DEF auth
  <2>2. state' \notin {"gettingToken", "disconnected"} /\ state \notin {"gettingToken", "disconnected"}
    BY <1>1
  <2> QED
    BY <2>1, <2>2 DEF IInv, Flights, Numbered, Expected, Awaited
<1> QED
  BY <1>2, <1>3, <1>4, <1>5 DEF IInv, Link

\* The connection is established.
LEMMA OnReadyInv ==
    ASSUME IInv, OnReady
    PROVE  IInv'
<1>1. up' \in Seq(Request)
  <2>1. up \in Seq(Request) /\ authToken \in Token \cup {Nil}
    BY DEF IInv, Link, LinkTypes, RestTypes
  <2>2. CASE authToken = Nil
    BY <2>1, <2>2 DEF OnReady
  <2>3. CASE authToken # Nil
    <3>1. Authenticate(authToken, TRUE) \in Request
      BY <2>1, <2>3, AuthenticateIsRequest
    <3>2. up' = Append(up, Authenticate(authToken, TRUE))
      BY <2>3 DEF OnReady
    <3> QED
      BY <2>1, <3>1, <3>2, Appended
  <2> QED
    BY <2>2, <2>3
<1>2. /\ realtime = "connecting" /\ realtime' = "connected"
      /\ state' \in {"authenticating", "connected"}
      /\ UNCHANGED <<reasons, scheduled, attempt, authToken, forceRefresh, auth, down, session,
                     epoch, faults, upsets, ghost>>
  BY DEF OnReady
<1>3. authToken' \in Token \cup {Nil} /\ down' \in Seq(Message) /\ faults' \in Nat
  BY <1>2 DEF IInv, Link, LinkTypes, RestTypes
<1> QED
  BY <1>1, <1>2, <1>3, SentInv

\* A message is there only while the connection is.
LEMMA MessageFacts ==
    ASSUME IInv, down # <<>>
    PROVE  /\ realtime = "connected" /\ state \in {"authenticating", "connected"}
           /\ Head(down) \in Message /\ Tail(down) \in Seq(Message)
           /\ Head(down).token \in Token
<1>1. CanSend /\ realtime = "connected"
  BY DEF IInv, Link, LinkOK, NothingLeft, SendsAreSafe
<1>2. Head(down) \in Message /\ Tail(down) \in Seq(Message)
  BY Taken DEF IInv, Link, LinkTypes
<1> QED
  BY <1>1, <1>2 DEF CanSend, Message

\* A connection that goes.
LEMMA ClosedInv ==
    ASSUME IInv, NEW force \in BOOLEAN, OnDisconnect(reasons, force), realtime # "none",
           UNCHANGED <<reasons, attempt, auth, epoch>>,
           authToken' \in Token \cup {Nil}, upsets' \in Nat,
           stray' = stray, overtaken' = overtaken, forgotten' \in BOOLEAN,
           refused' \subseteq Token
    PROVE  IInv'
<1>1. OnDisconnect(reasons', force) /\ reasons' \subseteq Reasons
  BY DEF OnDisconnect, IInv, Link, LinkTypes
<1>2. Link' /\ state' = "disconnected"
  BY <1>1, DisconnectLink DEF IInv
<1>3. RestTypes'
  BY DEF IInv, RestTypes, auth
<1>4. Flights' /\ Expected'
  BY <1>2, SameFlights DEF auth
<1> QED
  BY <1>2, <1>3, <1>4 DEF IInv

\* A connection that fails, is lost or is revoked.
LEMMA CloseInv ==
    ASSUME IInv, ConnectFails \/ Lose \/ OnAuthRevoked
    PROVE  IInv'
<1>1. CASE ConnectFails
  <2>1. upsets' \in Nat /\ authToken' \in Token \cup {Nil}
    BY <1>1 DEF ConnectFails, Upset, IInv, RestTypes
  <2>2. /\ realtime # "none" /\ forceRefresh \in BOOLEAN
        /\ OnDisconnect(reasons, forceRefresh)
        /\ UNCHANGED <<reasons, attempt, auth, epoch, stray, overtaken>>
        /\ refused' = refused /\ forgotten' \in BOOLEAN
    BY <1>1 DEF ConnectFails, ghost, IInv, Link, LinkTypes, RestTypes
  <2> QED
    BY <2>1, <2>2, ClosedInv DEF IInv, RestTypes
<1>2. CASE Lose
  <2>1. upsets' \in Nat /\ authToken' \in Token \cup {Nil}
    BY <1>2 DEF Lose, IInv, RestTypes
  <2>2. /\ realtime # "none" /\ forceRefresh \in BOOLEAN
        /\ OnDisconnect(reasons, forceRefresh)
        /\ UNCHANGED <<reasons, attempt, auth, epoch, stray, overtaken>>
        /\ refused' = refused /\ forgotten' \in BOOLEAN
    BY <1>2 DEF Lose, ghost, IInv, Link, LinkTypes, RestTypes
  <2> QED
    BY <2>1, <2>2, ClosedInv DEF IInv, RestTypes
<1>3. CASE OnAuthRevoked
  <2>1. /\ down # <<>> /\ authToken' = Nil /\ OnDisconnect(reasons, TRUE)
        /\ refused' = refused \cup {Head(down).token}
        /\ UNCHANGED <<reasons, attempt, auth, epoch, upsets, stray, overtaken>>
        /\ forgotten' = FALSE
    BY <1>3 DEF OnAuthRevoked
  <2>2. realtime # "none" /\ refused' \subseteq Token
    BY <2>1, MessageFacts DEF IInv, RestTypes
  <2>3. upsets' \in Nat
    BY <2>1 DEF IInv, RestTypes
  <2> QED
    BY <2>1, <2>2, <2>3, ClosedInv
<1> QED
  BY <1>1, <1>2, <1>3

\* The answer to a token.
LEMMA ReceiveAuthInv ==
    ASSUME IInv, ReceiveAuth
    PROVE  IInv'
<1>1. /\ down # <<>> /\ UNCHANGED <<reasons, attempt, auth, epoch, upsets, stray, overtaken>>
  BY DEF ReceiveAuth
<1>2. CASE Head(down).ok
  <2>1. /\ state' = "connected" /\ down' = Tail(down)
        /\ UNCHANGED <<realtime, scheduled, authToken, forceRefresh, up, session, faults,
                       refused, forgotten>>
    BY <1>2 DEF ReceiveAuth
  <2>2. /\ authToken' \in Token \cup {Nil} /\ up' \in Seq(Request) /\ down' \in Seq(Message)
        /\ faults' \in Nat /\ realtime = "connected"
    BY <1>1, <2>1, MessageFacts DEF IInv, Link, LinkTypes, RestTypes
  <2> QED
    BY <1>1, <2>1, <2>2, SentInv DEF ghost
<1>3. CASE ~Head(down).ok
  <2>1. /\ authToken' = Nil /\ OnDisconnect(reasons, TRUE)
        /\ refused' = refused \cup {Head(down).token} /\ forgotten' = FALSE
    BY <1>3 DEF ReceiveAuth
  <2>2. realtime # "none" /\ refused' \subseteq Token
    BY <1>1, <2>1, MessageFacts DEF IInv, RestTypes
  <2>3. upsets' \in Nat
    BY <1>1 DEF IInv, RestTypes
  <2> QED
    BY <1>1, <2>1, <2>2, <2>3, ClosedInv
<1> QED
  BY <1>2, <1>3

\* A new token is sent on the connection there is.
LEMMA RefreshInv ==
    ASSUME IInv, RefreshAuthToken
    PROVE  IInv'
<1> DEFINE t == Head(events).token
<1>1. /\ events # <<>> /\ authToken' = t /\ events' = Tail(events)
      /\ up' = IF CanSend THEN Append(up, IF t = Nil THEN Unauth ELSE Authenticate(t, FALSE))
               ELSE up
      /\ faults' = IF CanSend /\ t # Nil THEN faults + 1 ELSE faults
      /\ UNCHANGED <<state, realtime, reasons, scheduled, attempt, forceRefresh, user, cached,
                     fetches, down, session, epoch, upsets, stray, refused, forgotten>>
      /\ overtaken' = FALSE
  BY DEF RefreshAuthToken
<1>2. events \in Seq(Event) /\ Head(events) \in Event /\ events' \in Seq(Event)
  BY <1>1, Taken DEF IInv, RestTypes
<1>3. t \in Token \cup {Nil}
  BY <1>2 DEF Event
<1>4. (IF t = Nil THEN Unauth ELSE Authenticate(t, FALSE)) \in Request
  <2>1. t # Nil => Authenticate(t, FALSE) \in Request
    BY <1>3, AuthenticateIsRequest
  <2> QED
    BY <2>1 DEF Request
<1>5. up' \in Seq(Request) /\ faults' \in Nat
  <2>1. up \in Seq(Request) /\ faults \in Nat
    BY DEF IInv, Link, LinkTypes
  <2> DEFINE m == IF t = Nil THEN Unauth ELSE Authenticate(t, FALSE)
  <2>2. Append(up, m) \in Seq(Request)
    BY <1>4, <2>1, Appended
  <2>3. up' = IF CanSend THEN Append(up, m) ELSE up
    BY <1>1
  <2>4. up' \in Seq(Request)
    <3> HIDE DEF m
    <3> QED
      BY <2>1, <2>2, <2>3
  <2>5. faults' \in Nat
    BY <1>1, <2>1
  <2> QED
    BY <2>4, <2>5
<1> HIDE DEF t
<1>6. LinkTypes'
  BY <1>1, <1>5 DEF IInv, Link, LinkTypes
<1>7. LinkOK'
  BY <1>1 DEF IInv, Link, LinkOK, ReconnectIsScheduled, SendsAreSafe, NothingLeft,
              Uninterrupted, CanSend
<1>8. RestTypes'
  BY <1>1, <1>2, <1>3 DEF IInv, RestTypes
<1>9. Flights' /\ Expected'
  BY <1>1, <1>2, TakenNumbers DEF IInv, Flights, Expected
<1> QED
  BY <1>6, <1>7, <1>8, <1>9 DEF IInv, Link

\* A message is on the connection only while there is one.
LEMMA InUse ==
    ASSUME IInv, up # <<>> \/ session # Nil
    PROVE  realtime = "connected" /\ state \in {"authenticating", "connected"}
BY DEF IInv, Link, LinkOK, NothingLeft, SendsAreSafe, CanSend

\* Only the users, their calls and the answers change.
LEMMA AuthInv ==
    ASSUME IInv, UNCHANGED <<link, wire, epoch, faults>>,
           user' \in Users \cup {Nil}, cached' \in Token \cup {Nil},
           fetches' \in Seq(Fetch), events' \in Seq(Event),
           upsets' \in Nat, stray' \in BOOLEAN, forgotten' \in BOOLEAN,
           overtaken' = overtaken, refused' = refused,
           Numbered(fetches', events', attempt),
           \A m : Awaited(fetches', events', m) => Awaited(fetches, events, m)
    PROVE  IInv'
<1>1. Link'
  BY DEF IInv, Link, LinkTypes, LinkOK, ReconnectIsScheduled, SendsAreSafe, NothingLeft,
         Uninterrupted, CanSend, link, wire
<1>2. RestTypes'
  BY DEF IInv, RestTypes, link
<1>3. Flights'
  BY DEF Flights, link
<1>4. Expected'
  BY DEF IInv, Expected, link
<1> QED
  BY <1>1, <1>2, <1>3, <1>4 DEF IInv

\* A login or a logout.
LEMMA BecomeInv ==
    ASSUME IInv, (\E u \in Users : SignIn(u)) \/ SignOut
    PROVE  IInv'
<1>1. PICK u \in Users \cup {Nil} :
        /\ Upset /\ Become(u) /\ fetches' = Dropped(fetches)
        /\ events' = Append(events, Changed(IF u = Nil THEN Nil ELSE Fresh(u)))
        /\ UNCHANGED <<link, wire, epoch, faults, overtaken, refused, forgotten>>
  <2>1. CASE SignOut
    BY <2>1 DEF SignOut
  <2>2. ASSUME NEW v \in Users, SignIn(v) PROVE v # Nil /\ SignIn(v)
    BY <2>2, NilIsNoUser
  <2> QED
    BY <2>1, <2>2 DEF SignIn
<1> DEFINE t == IF u = Nil THEN Nil ELSE Fresh(u)
<1>2. t \in Token \cup {Nil}
  BY AuthFacts
<1>3. user' = u /\ cached' = t /\ stray' = TRUE
  BY <1>1 DEF Become
<1>4. events' = Append(events, Changed(t))
  BY <1>1
<1> HIDE DEF t
<1>5. Changed(t) \in Event /\ Changed(t).kind = "changed"
  BY <1>2, ChangedIsEvent
<1>6. /\ fetches' \in Seq(Fetch) /\ DOMAIN fetches' = DOMAIN fetches
      /\ \A i \in DOMAIN fetches : fetches'[i].attempt = fetches[i].attempt
  BY <1>1, AuthFacts, DroppedSame
<1>7. events' \in Seq(Event)
  BY <1>4, <1>5, AuthFacts, Appended
<1>8. /\ Numbered(fetches', events, attempt)
      /\ \A m : Awaited(fetches', events, m) => Awaited(fetches, events, m)
  BY <1>6, AuthFacts, SameNumbers
<1>9. /\ Numbered(fetches', events', attempt)
      /\ \A m : Awaited(fetches', events', m) => Awaited(fetches', events, m)
  BY <1>4, <1>5, <1>8, AuthFacts, PostedNumbers
<1>10. upsets' \in Nat /\ stray' \in BOOLEAN /\ forgotten' \in BOOLEAN
  BY <1>1, <1>3, AuthFacts DEF Upset
<1> QED
  BY <1>1, <1>2, <1>3, <1>6, <1>7, <1>8, <1>9, <1>10, AuthInv

\* A token is renewed.
LEMMA RenewInv ==
    ASSUME IInv, Renew
    PROVE  IInv'
<1>1. /\ cached' = Fresh(user) /\ events' = Append(events, Changed(cached'))
      /\ user \in Users
      /\ UNCHANGED <<link, user, fetches, wire, epoch, faults, upsets, ghost>>
  BY AuthFacts DEF Renew
<1>2. cached' \in Token
  BY <1>1, AuthFacts
<1>3. Changed(cached') \in Event /\ Changed(cached').kind = "changed"
  BY <1>2, ChangedIsEvent
<1>4. events' \in Seq(Event)
  BY <1>1, <1>3, AuthFacts, Appended
<1>5. /\ Numbered(fetches, events', attempt)
      /\ \A m : Awaited(fetches, events', m) => Awaited(fetches, events, m)
  BY <1>1, <1>3, AuthFacts, PostedNumbers
<1> QED
  BY <1>1, <1>2, <1>4, <1>5, AuthFacts, AuthInv DEF ghost

\* A number may be posted before the answer to it.
LEMMA PostedAnswered ==
    ASSUME IInv, NEW i \in DOMAIN fetches, NEW x \in Event, NEW y \in Event,
           x.kind = "changed", y.kind = "fetched", y.attempt = fetches[i].attempt,
           NEW e, e = Append(events, y) \/ e = events \o <<x, y>>
    PROVE  /\ e \in Seq(Event)
           /\ Numbered(Without(fetches, i), e, attempt)
           /\ \A m : Awaited(Without(fetches, i), e, m) => Awaited(fetches, events, m)
<1>1. CASE e = Append(events, y)
  BY <1>1, AuthFacts, Appended, AnsweredNumbers
<1>2. CASE e = events \o <<x, y>>
  <2> DEFINE d == Append(events, x)
  <2>1. e = Append(d, y)
    BY <1>2, AuthFacts
  <2>2. /\ d \in Seq(Event) /\ Numbered(fetches, d, attempt)
        /\ \A m : Awaited(fetches, d, m) => Awaited(fetches, events, m)
    BY AuthFacts, Appended, PostedNumbers
  <2> HIDE DEF d
  <2>3. e \in Seq(Event)
    BY <2>1, <2>2, Appended
  <2>4. /\ Numbered(Without(fetches, i), e, attempt)
        /\ \A m : Awaited(Without(fetches, i), e, m) => Awaited(fetches, d, m)
    BY <2>1, <2>2, AuthFacts, AnsweredNumbers
  <2> QED
    BY <2>2, <2>3, <2>4
<1> QED
  BY <1>1, <1>2

\* The answer to a call.
LEMMA FetchFacts ==
    ASSUME IInv, NEW i \in DOMAIN fetches
    PROVE  /\ fetches[i].attempt \in Nat /\ fetches[i].user \in Users \cup {Nil}
           /\ fetches[i].force \in BOOLEAN /\ Without(fetches, i) \in Seq(Fetch)
           /\ Changed(Nil) \in Event /\ Changed(Nil).kind = "changed"
<1>1. fetches[i] \in Fetch
  BY AuthFacts
<1> QED
  BY <1>1, AuthFacts, TakenOut, ChangedIsEvent DEF Fetch

\* A fetch is answered.
LEMMA AnswerInv ==
    ASSUME IInv, NEW i \in DOMAIN fetches, AnswerCached(i) \/ AnswerRefreshed(i)
    PROVE  IInv'
<1>1. /\ fetches' = Without(fetches, i)
      /\ UNCHANGED <<link, user, wire, epoch, faults, upsets, ghost>>
  BY DEF AnswerCached, AnswerRefreshed
<1>2. CASE AnswerCached(i)
  <2>1. PICK t \in Token \cup {Nil} :
          events' = Append(events, Fetched(fetches[i].attempt, t, FALSE)) /\ cached' = cached
    BY <1>2 DEF AnswerCached
  <2> DEFINE y == Fetched(fetches[i].attempt, t, FALSE)
  <2>2. y \in Event /\ y.kind = "fetched" /\ y.attempt = fetches[i].attempt
    BY FetchFacts, FetchedIsEvent
  <2> HIDE DEF y
  <2>3. events' = Append(events, y)
    BY <2>1 DEF y
  <2>4. /\ events' \in Seq(Event)
        /\ Numbered(Without(fetches, i), events', attempt)
        /\ \A m : Awaited(Without(fetches, i), events', m) => Awaited(fetches, events, m)
    BY <2>2, <2>3, FetchFacts, PostedAnswered
  <2> QED
    BY <1>1, <2>1, <2>4, AuthFacts, FetchFacts, AuthInv DEF ghost
<1>3. CASE AnswerRefreshed(i)
  <2> DEFINE t == Fresh(fetches[i].user)
             x == Changed(t)
             y == Fetched(fetches[i].attempt, t, FALSE)
  <2>1. /\ fetches[i].user # Nil
        /\ \/ cached' = t /\ events' = events \o <<x, y>>
           \/ cached' = cached /\ events' = Append(events, y)
    BY <1>3 DEF AnswerRefreshed
  <2>2. t \in Token
    BY <2>1, AuthFacts, FetchFacts
  <2> HIDE DEF t
  <2>3. x \in Event /\ x.kind = "changed"
    BY <2>2, ChangedIsEvent
  <2>4. y \in Event /\ y.kind = "fetched" /\ y.attempt = fetches[i].attempt
    BY <2>2, FetchFacts, FetchedIsEvent
  <2> HIDE DEF x, y
  <2>5. /\ events' \in Seq(Event)
        /\ Numbered(Without(fetches, i), events', attempt)
        /\ \A m : Awaited(Without(fetches, i), events', m) => Awaited(fetches, events, m)
    BY <2>1, <2>3, <2>4, PostedAnswered
  <2>6. cached' \in Token \cup {Nil}
    BY <2>1, <2>2, AuthFacts
  <2> QED
    BY <1>1, <2>5, <2>6, AuthFacts, FetchFacts, AuthInv DEF ghost
<1> QED
  BY <1>2, <1>3

\* The call fails, and may end the login.
LEMMA FetchFailsInv ==
    ASSUME IInv, NEW i \in DOMAIN fetches, FetchFails(i)
    PROVE  IInv'
<1> DEFINE y == Fetched(fetches[i].attempt, Nil, TRUE)
           x == Changed(Nil)
<1>1. /\ UNCHANGED <<link, wire, epoch, faults, overtaken, refused>>
      /\ upsets' = upsets + 1 /\ forgotten' = (forgotten \/ fetches[i].force)
      /\ \/ /\ events' = Append(events, y) /\ fetches' = Without(fetches, i)
            /\ UNCHANGED <<user, cached, stray>>
         \/ /\ user' = Nil /\ cached' = Nil
            /\ events' = events \o <<x, y>> /\ fetches' = Dropped(Without(fetches, i))
            /\ stray' = TRUE
  BY DEF FetchFails, Upset
<1>2. y \in Event /\ y.kind = "fetched" /\ y.attempt = fetches[i].attempt
  BY FetchFacts, FetchedIsEvent
<1>3. x \in Event /\ x.kind = "changed"
  BY FetchFacts
<1> HIDE DEF x, y
<1>4. /\ events' \in Seq(Event)
      /\ Numbered(Without(fetches, i), events', attempt)
      /\ \A m : Awaited(Without(fetches, i), events', m) => Awaited(fetches, events, m)
  BY <1>1, <1>2, <1>3, PostedAnswered
<1>5. /\ fetches' \in Seq(Fetch) /\ Numbered(fetches', events', attempt)
      /\ \A m : Awaited(fetches', events', m) => Awaited(fetches, events, m)
  <2>1. CASE fetches' = Without(fetches, i)
    BY <1>4, <2>1, FetchFacts
  <2>2. CASE fetches' = Dropped(Without(fetches, i))
    <3> DEFINE f == Without(fetches, i)
    <3>1. f \in Seq(Fetch)
      BY FetchFacts
    <3> HIDE DEF f
    <3>2. /\ Dropped(f) \in Seq(Fetch) /\ DOMAIN Dropped(f) = DOMAIN f
          /\ \A k \in DOMAIN f : Dropped(f)[k].attempt = f[k].attempt
      BY <3>1, DroppedSame
    <3>3. Numbered(f, events', attempt)
      BY <1>4 DEF f
    <3>4. /\ Numbered(Dropped(f), events', attempt)
          /\ \A m : Awaited(Dropped(f), events', m) => Awaited(f, events', m)
      BY <3>2, <3>3, SameNumbers
    <3>5. fetches' = Dropped(f)
      BY <2>2 DEF f
    <3>6. \A m : Awaited(f, events', m) => Awaited(fetches, events, m)
      BY <1>4 DEF f
    <3> QED
      BY <3>2, <3>4, <3>5, <3>6
  <2> QED
    BY <1>1, <2>1, <2>2
<1>6. /\ user' \in Users \cup {Nil} /\ cached' \in Token \cup {Nil}
      /\ stray' \in BOOLEAN /\ forgotten' \in BOOLEAN /\ upsets' \in Nat
  <2>1. \/ user' = user /\ cached' = cached /\ stray' = stray
        \/ user' = Nil /\ cached' = Nil /\ stray' \in BOOLEAN
    BY <1>1
  <2>2. forgotten' \in BOOLEAN /\ upsets' \in Nat
    BY <1>1, AuthFacts
  <2>3. /\ user' \in Users \cup {Nil} /\ cached' \in Token \cup {Nil}
        /\ stray' \in BOOLEAN
    BY <2>1, AuthFacts
  <2> QED
    BY <2>2, <2>3
<1> QED
  BY <1>1, <1>4, <1>5, <1>6, AuthInv

\* The server.
LEMMA ServerInv ==
    ASSUME IInv, Expire \/ Serve \/ Revoke
    PROVE  IInv'
<1>1. CASE Expire
  <2>1. /\ epoch' \in 0 .. MaxEpoch
        /\ UNCHANGED <<link, auth, wire, faults, upsets, ghost>>
    BY <1>1, EpochsAreNatural DEF Expire, IInv, RestTypes
  <2>2. Link'
    BY <2>1 DEF IInv, Link, LinkTypes, LinkOK, ReconnectIsScheduled, SendsAreSafe, NothingLeft,
       Uninterrupted, CanSend, link, wire
  <2>3. RestTypes'
    BY <2>1 DEF IInv, RestTypes, link, auth, ghost
  <2>4. Flights' /\ Expected'
    BY <2>1, SameFlights DEF link, auth
  <2> QED
    BY <2>2, <2>3, <2>4 DEF IInv
<1>2. CASE Serve \/ Revoke
  <2>1. /\ UNCHANGED <<link, auth, epoch, faults, upsets, ghost>>
        /\ up # <<>> \/ session # Nil
    BY <1>2 DEF Serve, Revoke
  <2>2. realtime = "connected" /\ state \in {"authenticating", "connected"}
    BY <2>1, InUse
  <2>3. up \in Seq(Request) /\ down \in Seq(Message) /\ session \in Token \cup {Nil}
    BY DEF IInv, Link, LinkTypes
  <2>4. up' \in Seq(Request) /\ down' \in Seq(Message) /\ session' \in Token \cup {Nil}
    <3>1. CASE Serve
      <4> DEFINE r == Head(up)
      <4>1. r \in Request /\ up' \in Seq(Request)
        BY <2>3, <3>1, Taken DEF Serve
      <4>2. CASE r.kind = "unauth"
        BY <2>3, <3>1, <4>1, <4>2 DEF Serve
      <4>3. CASE r.kind # "unauth"
        <5> DEFINE ok == r.token.epoch = epoch
        <5>1. r.token \in Token /\ r.restore \in BOOLEAN
          BY <4>1, <4>3 DEF Request, Unauth
        <5>2. session' = (IF ok THEN r.token ELSE session) /\ down' = Append(down, Reply(ok, r))
          BY <3>1, <4>3 DEF Serve
        <5>3. Reply(ok, r) \in Message
          BY <5>1 DEF Reply, Message
        <5>4. down' \in Seq(Message)
          BY <2>3, <5>2, <5>3, Appended
        <5> QED
          BY <2>3, <4>1, <5>1, <5>2, <5>4
      <4> QED
        BY <4>2, <4>3
    <3>2. CASE Revoke
      <4>1. session # Nil /\ session' = Nil /\ down' = Append(down, Revoked(session)) /\ up' = up
        BY <3>2 DEF Revoke
      <4>2. Revoked(session) \in Message
        BY <2>3, <4>1 DEF Revoked, Message
      <4> QED
        BY <2>3, <4>1, <4>2, Appended
    <3> QED
      BY <1>2, <3>1, <3>2
  <2>5. LinkTypes'
    BY <2>1, <2>4 DEF IInv, Link, LinkTypes, link
  <2>6. LinkOK'
    BY <2>1, <2>2 DEF IInv, Link, LinkOK, ReconnectIsScheduled, SendsAreSafe, NothingLeft,
       Uninterrupted, CanSend, link
  <2>7. RestTypes'
    BY <2>1 DEF IInv, RestTypes, link, auth, ghost
  <2>8. Flights' /\ Expected'
    BY <2>1, SameFlights DEF link, auth
  <2> QED
    BY <2>5, <2>6, <2>7, <2>8 DEF IInv, Link
<1> QED
  BY <1>1, <1>2

\* Nothing changes.
LEMMA StutterInv ==
    ASSUME IInv, UNCHANGED vars
    PROVE  IInv'
<1>1. Link'
  BY DEF IInv, Link, LinkTypes, LinkOK, ReconnectIsScheduled, SendsAreSafe, NothingLeft,
         Uninterrupted, CanSend, vars, link, wire
<1>2. RestTypes'
  BY DEF IInv, RestTypes, vars, link, auth, ghost
<1>3. Flights' /\ Expected'
  BY SameFlights DEF vars, link, auth
<1> QED
  BY <1>1, <1>2, <1>3 DEF IInv

----------------------------------------------------------------------------
(* The theorems *)

\* Every reachable state satisfies the invariant.
THEOREM Inductive == Spec => []IInv
<1>1. IInv /\ [Next]_vars => IInv'
  <2> SUFFICES ASSUME IInv, [Next]_vars PROVE IInv'
    OBVIOUS
  <2>1. CASE Open \/ GoOnline \/ GoOffline \/ OnKill
    BY <2>1, InterruptInv
  <2>2. CASE Nudge
    BY <2>2, NudgeInv
  <2>3. CASE Retry
    BY <2>3, RetryInv
  <2>4. CASE OnToken
    BY <2>4, OnTokenInv
  <2>5. CASE OnReady
    BY <2>5, OnReadyInv
  <2>6. CASE ConnectFails \/ Lose \/ OnAuthRevoked
    BY <2>6, CloseInv
  <2>7. CASE RefreshAuthToken
    BY <2>7, RefreshInv
  <2>8. CASE ReceiveAuth
    BY <2>8, ReceiveAuthInv
  <2>9. CASE (\E u \in Users : SignIn(u)) \/ SignOut
    BY <2>9, BecomeInv
  <2>10. CASE Renew
    BY <2>10, RenewInv
  <2>11. CASE Answer
    BY <2>11, AnswerInv DEF Answer
  <2>12. CASE \E i \in DOMAIN fetches : FetchFails(i)
    BY <2>12, FetchFailsInv
  <2>13. CASE Expire \/ Serve \/ Revoke
    BY <2>13, ServerInv
  <2>14. CASE UNCHANGED vars
    BY <2>14, StutterInv
  <2> QED
    BY <2>1, <2>2, <2>3, <2>4, <2>5, <2>6, <2>7, <2>8, <2>9, <2>10, <2>11, <2>12, <2>13, <2>14
       DEF Next, Receive
<1> QED
  BY <1>1, InitInv, PTL DEF Spec

\* The variables have their types.
THEOREM TypeCorrect == Spec => []TypeOK
<1>1. IInv => TypeOK
  BY DEF IInv, Link, LinkTypes, RestTypes, TypeOK
<1> QED
  BY <1>1, Inductive, PTL

\* Whatever closed the connection, and in which order tokens, errors and
\* interruptions came, a retry is scheduled exactly while the client is
\* disconnected and nothing interrupts it (tryScheduleReconnect and its callers).
THEOREM RetryIsScheduled == Spec => []ReconnectIsScheduled
<1>1. IInv => ReconnectIsScheduled
  BY DEF IInv, Link, LinkOK
<1> QED
  BY <1>1, Inductive, PTL

\* Nothing is sent on an FConnection that is not connected, and an interrupted
\* client has none.
THEOREM NothingSentInVain == Spec => []SendsAreSafe
<1>1. IInv => SendsAreSafe
  BY DEF IInv, Link, LinkOK
<1> QED
  BY <1>1, Inductive, PTL

\* When the answer to the latest attempt comes no connection has been opened
\* since (the assertion at FPersistentConnection.m:417), however many attempts
\* are under way: their numbers differ, and a new one is made only when the
\* client was disconnected.
THEOREM NoConnectionIsLost == Spec => []TokenIsExpected
<1>1. IInv => TokenIsExpected
  BY DEF IInv, Expected, Awaited, TokenIsExpected
<1> QED
  BY <1>1, Inductive, PTL

----------------------------------------------------------------------------
(* Whose tokens there are *)

\* No posted token waits in e.
Quiet(e) == \A i \in DOMAIN e : e[i].kind # "changed"

\* No token is posted after place i of e.
Latest(e, i) == \A j \in DOMAIN e : j > i => e[j].kind # "changed"

\* The last token that is posted is that of u, and so are the answers to attempt n
\* after it.
Posted(e, u) ==
    \A i \in DOMAIN e :
        Latest(e, i) /\ e[i].kind = "changed" => Account(e[i].token) = u

Answers(e, u, n) ==
    \A i \in DOMAIN e :
        Latest(e, i) /\ e[i].kind = "fetched" /\ e[i].attempt = n /\ ~e[i].error
            => Account(e[i].token) = u

\* Attempt n asks for the present user u.
Own(f, u, n) == \A i \in DOMAIN f : f[i].attempt = n => f[i].user = u /\ f[i].mine

\* The calls that are not dropped are for u.
Mine(f, u) == \A i \in DOMAIN f : f[i].mine => f[i].user = u

UserKnown ==
    /\ Account(cached) = user
    /\ Mine(fetches, user)
    /\ Posted(events, user)
    /\ ~stray => Answers(events, user, attempt) /\ Own(fetches, user, attempt)

\* A connection has the user's token, once what was posted has been taken.
LinkKnown == ~overtaken /\ realtime # "none" /\ Quiet(events) => Account(authToken) = user

\* The token that a request offers, and messages that refuse none.
Offered(m) == IF m.kind = "unauth" THEN Nil ELSE m.token
Kept(d)    == \A i \in DOMAIN d : d[i].kind = "auth" /\ d[i].ok

\* Unless a refusal is on its way, the server has been told of the connection's
\* token, or is going to be by the last request.
Told(s, q) == Account(IF q = <<>> THEN s ELSE Offered(q[Len(q)]))
ServerKnows == CanSend /\ Kept(down) => Told(session, up) = Account(authToken)

Agree == UserKnown /\ LinkKnown /\ ServerKnows

\* A posted token is the last one, with nothing behind it.
LEMMA PostedMore ==
    ASSUME NEW e \in Seq(Event), NEW t \in Token \cup {Nil}, NEW d, NEW n,
           d = Append(e, Changed(t))
    PROVE  Posted(d, Account(t)) /\ Answers(d, Account(t), n) /\ ~Quiet(d)
<1>1. Changed(t) \in Event /\ Changed(t).kind = "changed" /\ Changed(t).token = t
  BY ChangedIsEvent DEF Changed
<1>2. /\ DOMAIN d = 1 .. Len(e) + 1 /\ Len(e) \in Nat /\ d[Len(e) + 1] = Changed(t)
      /\ \A i \in 1 .. Len(e) : d[i] = e[i]
  BY <1>1, Appended
<1>3. \A i \in DOMAIN d : Latest(d, i) => i = Len(e) + 1
  BY <1>1, <1>2 DEF Latest
<1> QED
  BY <1>1, <1>2, <1>3 DEF Posted, Answers, Quiet

\* An answer is behind what was posted.
LEMMA AnsweredMore ==
    ASSUME NEW e \in Seq(Event), NEW y \in Event, y.kind = "fetched", NEW u, NEW n,
           NEW d, d = Append(e, y)
    PROVE  /\ Posted(e, u) => Posted(d, u)
           /\ Answers(e, u, n) /\ (~y.error /\ y.attempt = n => Account(y.token) = u)
                 => Answers(d, u, n)
           /\ Quiet(d) <=> Quiet(e)
<1>1. /\ DOMAIN d = 1 .. Len(e) + 1 /\ Len(e) \in Nat /\ d[Len(e) + 1] = y
      /\ DOMAIN e = 1 .. Len(e) /\ \A i \in 1 .. Len(e) : d[i] = e[i]
  BY Appended
<1>2. \A i \in DOMAIN e : Latest(d, i) => Latest(e, i)
  BY <1>1 DEF Latest
<1>3. Posted(e, u) => Posted(d, u)
  BY <1>1, <1>2 DEF Posted
<1>4. Answers(e, u, n) /\ (~y.error /\ y.attempt = n => Account(y.token) = u)
         => Answers(d, u, n)
  BY <1>1, <1>2 DEF Answers
<1>5. Quiet(d) <=> Quiet(e)
  BY <1>1 DEF Quiet
<1> QED
  BY <1>3, <1>4, <1>5

\* What is taken from the head is the user's, if nothing is posted behind it.
LEMMA TakenHead ==
    ASSUME NEW e \in Seq(Event), e # <<>>, NEW u, NEW n
    PROVE  /\ Posted(e, u) => Posted(Tail(e), u)
           /\ Answers(e, u, n) => Answers(Tail(e), u, n)
           /\ Quiet(Tail(e)) /\ Head(e).kind = "changed" /\ Posted(e, u)
                 => Account(Head(e).token) = u
           /\ Quiet(Tail(e)) /\ Head(e).kind = "fetched" /\ ~Head(e).error
              /\ Head(e).attempt = n /\ Answers(e, u, n)
                 => Account(Head(e).token) = u
           /\ Quiet(Tail(e)) /\ Head(e).kind = "fetched" => Quiet(e)
<1> DEFINE d == Tail(e)
<1>1. /\ Head(e) = e[1] /\ DOMAIN e = 1 .. Len(e) /\ Len(e) \in Nat /\ 1 \in DOMAIN e
      /\ DOMAIN d = 1 .. Len(e) - 1 /\ \A i \in 1 .. Len(e) - 1 : d[i] = e[i + 1]
  BY Taken
<1> HIDE DEF d
<1>2. ASSUME NEW j \in DOMAIN e PROVE j = 1 \/ (j - 1 \in DOMAIN d /\ e[j] = d[j - 1])
  <2>1. j \in 1 .. Len(e)
    BY <1>1
  <2>2. CASE j # 1
    <3>1. j - 1 \in 1 .. Len(e) - 1 /\ (j - 1) + 1 = j
      BY <1>1, <2>1, <2>2
    <3> QED
      BY <1>1, <3>1
  <2> QED
    BY <2>2
<1>3. ASSUME NEW i \in DOMAIN d, Latest(d, i)
      PROVE  i + 1 \in DOMAIN e /\ e[i + 1] = d[i] /\ Latest(e, i + 1)
  <2>1. i \in 1 .. Len(e) - 1 /\ i + 1 \in 1 .. Len(e)
    BY <1>1
  <2>2. ASSUME NEW j \in DOMAIN e, j > i + 1 PROVE e[j].kind # "changed"
    <3>1. j \in 1 .. Len(e) /\ j # 1
      BY <1>1, <2>1, <2>2
    <3>2. j - 1 \in DOMAIN d /\ e[j] = d[j - 1] /\ j - 1 > i
      BY <1>2, <2>1, <2>2, <3>1
    <3> QED
      BY <1>3, <3>2 DEF Latest
  <2> QED
    BY <1>1, <2>1, <2>2 DEF Latest
<1>4. Posted(e, u) => Posted(d, u)
  BY <1>3 DEF Posted
<1>5. Answers(e, u, n) => Answers(d, u, n)
  BY <1>3 DEF Answers
<1>6. ASSUME Quiet(d) PROVE Latest(e, 1)
  <2>1. \A j \in DOMAIN e : j > 1 => j # 1
    BY <1>1
  <2> QED
    BY <1>2, <1>6, <2>1 DEF Quiet, Latest
<1>7. Quiet(d) /\ e[1].kind = "fetched" => Quiet(e)
  BY <1>2 DEF Quiet
<1> QED
  BY <1>1, <1>4, <1>5, <1>6, <1>7 DEF Posted, Answers, d

\* Nothing of Firebase Auth changes, and the connection is closed or what it was.
LEMMA AgreeKept ==
    ASSUME Agree, UNCHANGED <<auth, attempt, stray, overtaken>>,
           \/ realtime' = "none" /\ ~CanSend'
           \/ /\ UNCHANGED <<realtime, authToken>>
              /\ ServerKnows'
    PROVE  Agree'
<1>1. UserKnown'
  BY DEF Agree, UserKnown, auth, Posted, Answers, Own, Mine, Latest
<1>2. LinkKnown'
  BY DEF Agree, LinkKnown, auth, Quiet
<1>3. ServerKnows'
  BY DEF ServerKnows
<1> QED
  BY <1>1, <1>2, <1>3 DEF Agree

\* A closed connection.
LEMMA CloseAgree ==
    ASSUME IInv, Agree, ConnectFails \/ Lose \/ OnKill \/ GoOffline \/ OnAuthRevoked
                        \/ (ReceiveAuth /\ ~Head(down).ok)
    PROVE  Agree'
<1>1. UNCHANGED <<auth, attempt, stray, overtaken>>
  BY DEF ConnectFails, Lose, OnKill, GoOffline, OnAuthRevoked, ReceiveAuth, InterruptForReason,
         ghost
<1>2. state' = "disconnected" /\ realtime' = "none"
  <2>1. CASE GoOffline \/ OnKill
    BY <2>1 DEF GoOffline, OnKill, InterruptForReason, OnDisconnect
  <2>2. CASE ~(GoOffline \/ OnKill)
    BY <2>2 DEF ConnectFails, Lose, OnAuthRevoked, ReceiveAuth, OnDisconnect
  <2> QED
    BY <2>1, <2>2
<1> QED
  BY <1>1, <1>2, AgreeKept DEF CanSend

\* A connection that is neither opened nor closed nor used.
LEMMA IdleAgree ==
    ASSUME IInv, Agree, Open \/ GoOnline \/ Nudge \/ Expire \/ UNCHANGED vars
    PROVE  Agree'
<1>1. UNCHANGED <<auth, attempt, stray, overtaken, state, realtime, authToken, wire>>
  BY DEF Open, GoOnline, Nudge, Expire, ResumeForReason, vars, link, ghost
<1>2. ServerKnows'
  BY <1>1 DEF Agree, ServerKnows, CanSend, wire, Kept, Told
<1> QED
  BY <1>1, <1>2, AgreeKept

\* What is appended is last.
LEMMA LastOf ==
    ASSUME NEW S, NEW q \in Seq(S), NEW x \in S
    PROVE  Append(q, x) # <<>> /\ Append(q, x)[Len(Append(q, x))] = x
OBVIOUS

\* The token is sent when the connection is established.
LEMMA OnReadyAgree ==
    ASSUME IInv, Agree, OnReady
    PROVE  Agree'
<1>1. /\ realtime = "connecting" /\ realtime' = "connected"
      /\ UNCHANGED <<auth, attempt, stray, overtaken, authToken, down, session>>
      /\ \/ authToken = Nil /\ up' = up
         \/ authToken # Nil /\ up' = Append(up, Authenticate(authToken, TRUE))
  BY DEF OnReady, ghost
<1>2. up = <<>> /\ session = Nil /\ up \in Seq(Request) /\ authToken \in Token \cup {Nil}
  BY <1>1 DEF IInv, Link, LinkTypes, LinkOK, NothingLeft, SendsAreSafe, RestTypes
<1>3. UserKnown' /\ LinkKnown'
  BY <1>1 DEF Agree, UserKnown, LinkKnown, auth, Posted, Answers, Own, Mine, Latest, Quiet
<1>4. ServerKnows'
  <2>1. CASE authToken = Nil
    BY <1>1, <1>2, <2>1 DEF ServerKnows, Told
  <2>2. CASE authToken # Nil
    <3>1. Authenticate(authToken, TRUE) \in Request
      BY <1>2, <2>2, AuthenticateIsRequest
    <3>2. up' # <<>> /\ up'[Len(up')] = Authenticate(authToken, TRUE)
      BY <1>1, <1>2, <2>2, <3>1, LastOf
    <3> QED
      BY <1>1, <3>2 DEF ServerKnows, Told, Offered, Authenticate
  <2> QED
    BY <2>1, <2>2
<1> QED
  BY <1>3, <1>4 DEF Agree

\* A sequence of no elements is empty.
LEMMA NoLength ==
    ASSUME NEW S, NEW q \in Seq(S), Len(q) = 0
    PROVE  q = <<>>
BY EmptySeq

\* Rest of a queue after its head.
LEMMA RestOf ==
    ASSUME NEW S, NEW q \in Seq(S), q # <<>>
    PROVE  /\ Tail(q) = <<>> => q[Len(q)] = Head(q)
           /\ Tail(q) # <<>> => Tail(q)[Len(Tail(q))] = q[Len(q)]
<1>1. /\ Head(q) = q[1] /\ Len(q) \in Nat /\ Len(Tail(q)) = Len(q) - 1 /\ Len(q) # 0
      /\ Tail(q) \in Seq(S)
      /\ \A i \in 1 .. Len(q) - 1 : Tail(q)[i] = q[i + 1]
  OBVIOUS
<1>2. CASE Len(q) = 1
  <2>1. Tail(q) \in Seq(S) /\ Len(Tail(q)) = 0
    BY <1>1, <1>2
  <2>2. Tail(q) = <<>>
    BY <2>1, NoLength, Zenon
  <2> QED
    BY <1>1, <1>2, <2>2
<1>3. CASE Len(q) # 1
  <2>1. Len(q) - 1 \in 1 .. Len(q) - 1 /\ Len(q) - 1 + 1 = Len(q)
    BY <1>1, <1>3
  <2>2. Tail(q) # <<>>
    BY <1>1, <1>3
  <2> QED
    BY <1>1, <2>1, <2>2
<1> QED
  BY <1>2, <1>3

\* The server takes a token, or refuses one.
LEMMA ServeAgree ==
    ASSUME IInv, Agree, Serve \/ Revoke \/ (ReceiveAuth /\ Head(down).ok)
    PROVE  Agree'
<1>0. up \in Seq(Request) /\ down \in Seq(Message) /\ session \in Token \cup {Nil}
  BY DEF IInv, Link, LinkTypes
<1>1. UNCHANGED <<auth, attempt, stray, overtaken, realtime, authToken>>
  BY DEF Serve, Revoke, ReceiveAuth, link, ghost
<1>2. ASSUME Kept(down'), NEW x \in Message, down' = Append(down, x)
      PROVE  Kept(down) /\ x.kind = "auth" /\ x.ok
  <2>1. /\ DOMAIN down' = 1 .. Len(down) + 1 /\ DOMAIN down = 1 .. Len(down)
        /\ Len(down) \in Nat /\ down'[Len(down) + 1] = x
        /\ \A i \in 1 .. Len(down) : down'[i] = down[i]
    BY <1>0, <1>2, Appended
  <2> QED
    BY <1>2, <2>1 DEF Kept
<1>3. CASE Serve
  <2> DEFINE r == Head(up)
  <2>1. up # <<>> /\ up' = Tail(up) /\ state' = state
    BY <1>3 DEF Serve, link
  <2>2. r \in Request /\ r = up[1]
    BY <1>0, <2>1, Taken
  <2>3. ASSUME CanSend', Kept(down')
        PROVE  Kept(down) /\ Account(session') = Account(Offered(r))
    <3>1. CASE r.kind = "unauth"
      BY <1>3, <2>3, <3>1 DEF Serve, Offered
    <3>2. CASE r.kind # "unauth"
      <4>1. r.token \in Token /\ r.restore \in BOOLEAN
        BY <2>2, <3>2 DEF Request, Unauth
      <4> DEFINE x == Reply(r.token.epoch = epoch, r)
      <4>2. x \in Message /\ x.ok = (r.token.epoch = epoch)
        BY <4>1 DEF Reply, Message
      <4>3. /\ session' = (IF r.token.epoch = epoch THEN r.token ELSE session)
            /\ down' = Append(down, x)
        BY <1>3, <3>2 DEF Serve
      <4> HIDE DEF x
      <4>4. Kept(down) /\ x.ok
        BY <1>2, <2>3, <4>2, <4>3
      <4> QED
        BY <3>2, <4>2, <4>3, <4>4 DEF Offered
    <3> QED
      BY <3>1, <3>2
  <2>4. ServerKnows'
    <3>1. SUFFICES ASSUME CanSend', Kept(down')
                   PROVE  Told(session', up') = Account(authToken)
      BY <1>1 DEF ServerKnows
    <3>2. Told(session, up) = Account(authToken)
      BY <2>1, <2>3, <3>1 DEF Agree, ServerKnows, CanSend
    <3>3. CASE up' = <<>>
      BY <1>0, <2>1, <2>3, <3>1, <3>2, <3>3, RestOf DEF Told
    <3>4. CASE up' # <<>>
      BY <1>0, <2>1, <3>2, <3>4, RestOf DEF Told
    <3> QED
      BY <3>3, <3>4
  <2> QED
    BY <1>1, <2>4, AgreeKept
<1>4. CASE Revoke
  <2>1. session # Nil /\ down' = Append(down, Revoked(session))
    BY <1>4 DEF Revoke
  <2>2. Revoked(session) \in Message /\ Revoked(session).kind # "auth"
    BY <1>0, <2>1 DEF Revoked, Message
  <2>3. ~Kept(down')
    BY <1>2, <2>1, <2>2
  <2> QED
    BY <1>1, <2>3, AgreeKept DEF ServerKnows
<1>5. CASE ReceiveAuth /\ Head(down).ok
  <2>1. /\ down # <<>> /\ Head(down).kind = "auth" /\ down' = Tail(down)
        /\ UNCHANGED <<up, session>>
    BY <1>5 DEF ReceiveAuth
  <2>2. CanSend
    BY <2>1, MessageFacts DEF CanSend
  <2>3. Kept(down') => Kept(down)
    <3>1. /\ Head(down) = down[1] /\ DOMAIN down = 1 .. Len(down) /\ Len(down) \in Nat
          /\ DOMAIN down' = 1 .. Len(down) - 1
          /\ \A i \in 1 .. Len(down) - 1 : down'[i] = down[i + 1]
      BY <1>0, <2>1, Taken
    <3>2. ASSUME NEW i \in DOMAIN down, i # 1
          PROVE  i - 1 \in DOMAIN down' /\ down[i] = down'[i - 1]
      <4>1. i - 1 \in 1 .. Len(down) - 1 /\ i - 1 + 1 = i
        BY <3>1, <3>2
      <4> QED
        BY <3>1, <4>1
    <3>3. down[1].kind = "auth" /\ down[1].ok
      BY <1>5, <2>1, <3>1
    <3> QED
      BY <3>2, <3>3 DEF Kept
  <2>4. ServerKnows'
    BY <1>1, <2>1, <2>2, <2>3 DEF Agree, ServerKnows, Told
  <2> QED
    BY <1>1, <2>4, AgreeKept
<1> QED
  BY <1>3, <1>4, <1>5

\* The retry asks for a token of the present user.
LEMMA RetryAgree ==
    ASSUME IInv, Agree, Retry
    PROVE  Agree'
<1> DEFINE x == [attempt |-> attempt', force |-> scheduled.force, user |-> user, mine |-> TRUE]
<1>1. /\ state' = "gettingToken" /\ fetches' = Append(fetches, x) /\ scheduled # Nil
      /\ attempt' = attempt + 1
      /\ UNCHANGED <<user, cached, events, overtaken, realtime, authToken>>
  BY DEF Retry
<1>2. x \in Fetch /\ x.user = user /\ x.mine
  <2>1. attempt' \in Nat /\ scheduled.force \in BOOLEAN
    BY DEF Retry, IInv, Link, LinkTypes, RestTypes
  <2> QED
    BY <2>1, AuthFacts DEF Fetch
<1> HIDE DEF x
<1>3. /\ Own(fetches', user, attempt + 1)
      /\ Mine(fetches, user) => Mine(fetches', user)
  <2>1. /\ DOMAIN fetches' = 1 .. Len(fetches) + 1 /\ DOMAIN fetches = 1 .. Len(fetches)
        /\ Len(fetches) \in Nat /\ fetches'[Len(fetches) + 1] = x
        /\ \A i \in 1 .. Len(fetches) : fetches'[i] = fetches[i]
    BY <1>1, <1>2, AuthFacts, Appended
  <2>2. ASSUME NEW i \in DOMAIN fetches PROVE fetches[i].attempt # attempt + 1
    <3>1. fetches[i].attempt \in Nat /\ attempt \in Nat
      BY AuthFacts, FetchFacts
    <3>2. fetches[i].attempt <= attempt
      BY AuthFacts DEF Numbered
    <3> QED
      BY <3>1, <3>2
  <2> QED
    BY <1>2, <2>1, <2>2 DEF Own, Mine
<1>4. UserKnown'
  <2>1. ASSUME NEW i \in DOMAIN events, events[i].kind = "fetched"
        PROVE  events[i].attempt # attempt + 1
    <3>1. events[i] \in Event /\ attempt \in Nat
      BY AuthFacts
    <3>2. events[i].attempt \in Nat
      BY <2>1, <3>1 DEF Event
    <3>3. events[i].attempt <= attempt
      BY <2>1, AuthFacts DEF Numbered
    <3> QED
      BY <3>1, <3>2, <3>3
  <2>2. Answers(events, user, attempt + 1)
    BY <2>1 DEF Answers
  <2> QED
    BY <1>1, <1>3, <2>2 DEF Agree, UserKnown
<1>5. LinkKnown'
  BY <1>1 DEF Agree, LinkKnown, Quiet
<1>6. ServerKnows'
  BY <1>1 DEF ServerKnows, CanSend
<1> QED
  BY <1>4, <1>5, <1>6 DEF Agree

\* The first event is taken from the queue.
LEMMA TakenAgree ==
    ASSUME IInv, Agree, events # <<>>, events' = Tail(events),
           UNCHANGED <<user, cached, fetches, attempt, stray>>
    PROVE  UserKnown'
BY AuthFacts, TakenHead DEF Agree, UserKnown, Own, Mine

\* The answer to a fetch opens a connection with the user's token.
LEMMA OnTokenAgree ==
    ASSUME IInv, Agree, OnToken
    PROVE  Agree'
<1> DEFINE e == Head(events)
<1>1. /\ events # <<>> /\ e.kind = "fetched" /\ events' = Tail(events)
      /\ UNCHANGED <<user, cached, fetches, attempt, stray, wire>>
  BY DEF OnToken
<1>2. UserKnown'
  BY <1>1, TakenAgree
<1>3. Quiet(events') => Quiet(events)
  BY <1>1, AuthFacts, TakenHead
<1>4. CASE /\ ~e.error /\ e.attempt = attempt /\ authToken' = e.token
           /\ overtaken' = stray /\ state' = "connecting"
  <2>1. LinkKnown'
    BY <1>1, <1>4, AuthFacts, TakenHead DEF Agree, UserKnown, LinkKnown
  <2> QED
    BY <1>2, <1>4, <2>1 DEF Agree, ServerKnows, CanSend
<1>5. CASE state' = "disconnected" /\ UNCHANGED <<authToken, realtime, overtaken>>
  BY <1>1, <1>2, <1>3, <1>5 DEF Agree, LinkKnown, ServerKnows, CanSend
<1>6. CASE UNCHANGED <<authToken, state, realtime, overtaken>>
  BY <1>1, <1>2, <1>3, <1>6 DEF Agree, LinkKnown, ServerKnows, CanSend, wire
<1> QED
  BY <1>4, <1>5, <1>6 DEF OnToken

\* What was posted becomes the connection's token, and is sent.
LEMMA RefreshAgree ==
    ASSUME IInv, Agree, RefreshAuthToken
    PROVE  Agree'
<1> DEFINE t == Head(events).token
           m == IF t = Nil THEN Unauth ELSE Authenticate(t, FALSE)
<1>1. /\ events # <<>> /\ Head(events).kind = "changed" /\ events' = Tail(events)
      /\ authToken' = t /\ up' = (IF CanSend THEN Append(up, m) ELSE up)
      /\ UNCHANGED <<user, cached, fetches, attempt, stray, state, realtime, down, session>>
  BY DEF RefreshAuthToken
<1>2. t \in Token \cup {Nil}
  <2>1. Head(events) \in Event
    BY <1>1, AuthFacts, Taken
  <2> QED
    BY <2>1 DEF Event
<1>3. m \in Request /\ Offered(m) = t
  BY <1>2, AuthenticateIsRequest DEF Offered, Unauth, Authenticate, Request
<1> HIDE DEF t, m
<1>4. UserKnown'
  BY <1>1, TakenAgree
<1>5. LinkKnown'
  BY <1>1, AuthFacts, TakenHead DEF Agree, UserKnown, LinkKnown, t
<1>6. ServerKnows'
  <2>1. up \in Seq(Request)
    BY DEF IInv, Link, LinkTypes
  <2>2. CASE CanSend
    <3>1. up' # <<>> /\ up'[Len(up')] = m
      BY <1>1, <1>3, <2>1, <2>2, LastOf
    <3> QED
      BY <1>1, <1>3, <3>1 DEF ServerKnows, Told
  <2>3. CASE ~CanSend
    BY <1>1, <2>3 DEF ServerKnows, CanSend
  <2> QED
    BY <2>2, <2>3
<1> QED
  BY <1>4, <1>5, <1>6 DEF Agree

\* The account of a token that Firebase Auth issues.
LEMMA FreshAccount ==
    ASSUME IInv, NEW u \in Users
    PROVE  Account(Fresh(u)) = u /\ Fresh(u) \in Token
BY AuthFacts, NilIsNoToken DEF Account, Fresh

\* The link stays what it is while Firebase Auth works.
LEMMA AuthAgree ==
    ASSUME Agree, UserKnown', UNCHANGED <<link, wire, overtaken>>,
           \/ ~Quiet(events')
           \/ /\ Quiet(events') => Quiet(events)
              /\ user' = user
    PROVE  Agree'
<1>1. LinkKnown'
  BY DEF Agree, LinkKnown, link
<1>2. ServerKnows'
  BY DEF Agree, ServerKnows, CanSend, link, wire
<1> QED
  BY <1>1, <1>2 DEF Agree

\* A dropped call is no user's.
LEMMA DroppedMine ==
    ASSUME NEW q \in Seq(Fetch), NEW u
    PROVE  Mine(Dropped(q), u)
<1>1. ASSUME NEW i \in DOMAIN q PROVE [q[i] EXCEPT !.mine = FALSE].mine = FALSE
  <2>1. q[i] \in Fetch
    OBVIOUS
  <2> QED
    BY <2>1 DEF Fetch
<1> QED
  BY <1>1 DEF Mine, Dropped

\* A login or a logout posts the token of the new user.
LEMMA BecomeAgree ==
    ASSUME IInv, Agree, (\E u \in Users : SignIn(u)) \/ SignOut
    PROVE  Agree'
<1>1. PICK u \in Users \cup {Nil} :
        /\ Become(u) /\ fetches' = Dropped(fetches)
        /\ events' = Append(events, Changed(IF u = Nil THEN Nil ELSE Fresh(u)))
        /\ UNCHANGED <<link, wire, overtaken>>
  <2>1. CASE SignOut
    BY <2>1 DEF SignOut
  <2>2. ASSUME NEW v \in Users, SignIn(v) PROVE v # Nil /\ SignIn(v)
    BY <2>2, NilIsNoUser
  <2> QED
    BY <2>1, <2>2 DEF SignIn
<1> DEFINE t == IF u = Nil THEN Nil ELSE Fresh(u)
<1>2. t \in Token \cup {Nil} /\ Account(t) = u
  BY FreshAccount DEF Account
<1>3. /\ user' = u /\ cached' = t /\ events' = Append(events, Changed(t))
      /\ stray'
  BY <1>1 DEF Become
<1> HIDE DEF t
<1>4. Posted(events', u) /\ ~Quiet(events')
  BY <1>2, <1>3, AuthFacts, PostedMore
<1>5. Mine(fetches', u)
  BY <1>1, AuthFacts, DroppedMine
<1>6. UserKnown'
  BY <1>2, <1>3, <1>4, <1>5 DEF UserKnown
<1> QED
  BY <1>1, <1>4, <1>6, AuthAgree

\* A renewed token is posted.
LEMMA RenewAgree ==
    ASSUME IInv, Agree, Renew
    PROVE  Agree'
<1>1. /\ cached' = Fresh(user) /\ events' = Append(events, Changed(cached'))
      /\ user \in Users
      /\ UNCHANGED <<link, user, fetches, wire, stray, overtaken>>
  BY AuthFacts DEF Renew, ghost
<1>2. cached' \in Token /\ Account(cached') = user
  BY <1>1, FreshAccount
<1>3. Posted(events', user) /\ Answers(events', user, attempt) /\ ~Quiet(events')
  BY <1>1, <1>2, AuthFacts, PostedMore
<1>4. UserKnown'
  BY <1>1, <1>2, <1>3 DEF Agree, UserKnown, Own, Mine, link
<1> QED
  BY <1>1, <1>3, <1>4, AuthAgree

\* A call less.
LEMMA LessOwn ==
    ASSUME IInv, NEW i \in DOMAIN fetches, NEW u, NEW n
    PROVE  /\ Own(fetches, u, n) => Own(Without(fetches, i), u, n)
           /\ Mine(fetches, u) => Mine(Without(fetches, i), u)
<1>1. /\ DOMAIN Without(fetches, i) = 1 .. Len(fetches) - 1 /\ Len(fetches) \in Nat
      /\ DOMAIN fetches = 1 .. Len(fetches)
      /\ \A k \in 1 .. Len(fetches) - 1 :
            Without(fetches, i)[k] = fetches[IF k < i THEN k ELSE k + 1]
  BY AuthFacts, TakenOut
<1>2. \A k \in 1 .. Len(fetches) - 1 : (IF k < i THEN k ELSE k + 1) \in 1 .. Len(fetches)
  BY <1>1
<1> QED
  BY <1>1, <1>2 DEF Own, Mine

\* A token and the answer with it are posted.
LEMMA BothMore ==
    ASSUME IInv, NEW t \in Token \cup {Nil}, NEW y \in Event, y.kind = "fetched",
           ~y.error => y.token = t, NEW n, NEW d, d = events \o <<Changed(t), y>>
    PROVE  Posted(d, Account(t)) /\ Answers(d, Account(t), n) /\ ~Quiet(d)
<1> DEFINE c == Append(events, Changed(t))
<1>1. Changed(t) \in Event
  BY ChangedIsEvent
<1>2. c \in Seq(Event) /\ d = Append(c, y)
  BY <1>1, AuthFacts
<1>3. Posted(c, Account(t)) /\ Answers(c, Account(t), n) /\ ~Quiet(c)
  BY AuthFacts, PostedMore
<1> HIDE DEF c
<1> QED
  BY <1>2, <1>3, AnsweredMore

\* Firebase Auth answers a call.
LEMMA AnswerAgree ==
    ASSUME IInv, Agree, NEW i \in DOMAIN fetches, AnswerCached(i) \/ AnswerRefreshed(i)
    PROVE  Agree'
<1> DEFINE f == fetches[i]
<1>1. /\ fetches' = Without(fetches, i)
      /\ UNCHANGED <<link, attempt, user, wire, stray, overtaken>>
  BY DEF AnswerCached, AnswerRefreshed, link, ghost
<1>2. /\ Mine(fetches', user) /\ (f.mine => f.user = user)
      /\ ~stray => /\ Own(fetches', user, attempt)
                   /\ f.attempt = attempt => f.user = user /\ f.mine
  <2>1. Mine(fetches, user) /\ (~stray => Own(fetches, user, attempt))
    BY DEF Agree, UserKnown
  <2>2. /\ Mine(fetches, user) => Mine(fetches', user)
        /\ Own(fetches, user, attempt) => Own(fetches', user, attempt)
    BY <1>1, LessOwn
  <2> QED
    BY <2>1, <2>2 DEF Own, Mine
<1>3. CASE AnswerCached(i)
  <2>1. PICK t \in Token \cup {Nil} :
          /\ IF f.user = Nil THEN t = Nil
             ELSE IF f.mine THEN t = cached
             ELSE t # Nil /\ t.user = f.user /\ t.epoch <= epoch
          /\ events' = Append(events, Fetched(f.attempt, t, FALSE)) /\ cached' = cached
    BY <1>3 DEF AnswerCached
  <2> DEFINE y == Fetched(f.attempt, t, FALSE)
  <2>2. y \in Event /\ y.kind = "fetched" /\ y.token = t /\ y.attempt = f.attempt
    BY FetchFacts, FetchedIsEvent DEF Fetched
  <2>3. ~stray /\ f.attempt = attempt => Account(t) = user
    BY <1>2, <2>1 DEF Agree, UserKnown, Account
  <2> HIDE DEF y
  <2>4. events' = Append(events, y)
    BY <2>1 DEF y
  <2>5. UserKnown' /\ (Quiet(events') => Quiet(events))
    BY <1>1, <1>2, <2>1, <2>2, <2>3, <2>4, AuthFacts, AnsweredMore DEF Agree, UserKnown
  <2> QED
    BY <1>1, <2>5, AuthAgree
<1>4. CASE AnswerRefreshed(i)
  <2> DEFINE t == Fresh(f.user)
             y == Fetched(f.attempt, t, FALSE)
  <2>1. /\ f.user # Nil
        /\ IF f.mine /\ cached # t
           THEN cached' = t /\ events' = events \o <<Changed(t), y>>
           ELSE cached' = cached /\ events' = Append(events, y)
    BY <1>4 DEF AnswerRefreshed
  <2>2. t \in Token /\ Account(t) = f.user
    BY <2>1, FetchFacts, FreshAccount
  <2>3. /\ y \in Event /\ y.kind = "fetched" /\ y.token = t /\ ~y.error
        /\ y.attempt = f.attempt
    BY <2>2, FetchFacts, FetchedIsEvent DEF Fetched
  <2> HIDE DEF t, y
  <2>4. CASE f.mine /\ cached # t
    <3>1. events' = events \o <<Changed(t), y>> /\ cached' = t
      BY <2>1, <2>4
    <3>2. Posted(events', f.user) /\ Answers(events', f.user, attempt) /\ ~Quiet(events')
      BY <2>2, <2>3, <3>1, BothMore
    <3>3. f.user = user
      BY <1>2, <2>4
    <3>4. UserKnown'
      BY <1>1, <1>2, <2>2, <3>1, <3>2, <3>3 DEF UserKnown
    <3> QED
      BY <1>1, <3>2, <3>4, AuthAgree
  <2>5. CASE ~(f.mine /\ cached # t)
    <3>1. events' = Append(events, y) /\ cached' = cached
      BY <2>1, <2>5
    <3>2. UserKnown' /\ (Quiet(events') => Quiet(events))
      BY <1>1, <1>2, <2>2, <2>3, <3>1, AuthFacts, AnsweredMore DEF Agree, UserKnown
    <3> QED
      BY <1>1, <3>2, AuthAgree
  <2> QED
    BY <2>4, <2>5
<1> QED
  BY <1>3, <1>4

\* A call fails, and may end the login.
LEMMA FetchFailsAgree ==
    ASSUME IInv, Agree, NEW i \in DOMAIN fetches, FetchFails(i)
    PROVE  Agree'
<1> DEFINE y == Fetched(fetches[i].attempt, Nil, TRUE)
           f == Without(fetches, i)
<1>1. /\ UNCHANGED <<link, attempt, wire, overtaken>>
      /\ \/ /\ events' = Append(events, y) /\ fetches' = f
            /\ UNCHANGED <<user, cached, stray>>
         \/ /\ user' = Nil /\ cached' = Nil /\ stray'
            /\ events' = events \o <<Changed(Nil), y>> /\ fetches' = Dropped(f)
  BY DEF FetchFails, link
<1>2. y \in Event /\ y.kind = "fetched" /\ y.error
  BY FetchFacts, FetchedIsEvent DEF Fetched
<1>3. /\ Own(fetches, user, attempt) => Own(f, user, attempt)
      /\ Mine(fetches, user) => Mine(f, user)
      /\ f \in Seq(Fetch)
  BY LessOwn, AuthFacts, TakenOut
<1> HIDE DEF y, f
<1>4. CASE events' = Append(events, y) /\ fetches' = f /\ UNCHANGED <<user, cached, stray>>
  <2>1. UserKnown' /\ (Quiet(events') => Quiet(events))
    BY <1>1, <1>2, <1>3, <1>4, AuthFacts, AnsweredMore DEF Agree, UserKnown
  <2> QED
    BY <1>1, <1>4, <2>1, AuthAgree
<1>5. CASE /\ user' = Nil /\ cached' = Nil /\ stray'
           /\ events' = events \o <<Changed(Nil), y>> /\ fetches' = Dropped(f)
  <2>1. Posted(events', Nil) /\ ~Quiet(events')
    BY <1>2, <1>5, BothMore DEF Account
  <2>2. UserKnown'
    BY <1>3, <1>5, <2>1, DroppedMine DEF UserKnown, Account
  <2> QED
    BY <1>1, <2>1, <2>2, AuthAgree
<1> QED
  BY <1>1, <1>4, <1>5

\* At first nothing is posted, asked or on the wire.
LEMMA InitAgree ==
    ASSUME Init
    PROVE  Agree
<1>1. Account(cached) = user
  <2>1. CASE user = Nil
    BY <2>1 DEF Init, Account
  <2>2. CASE user # Nil
    <3>1. cached = [user |-> user, epoch |-> 0] /\ user \in Users
      BY <2>2 DEF Init, Fresh
    <3>2. [user |-> user, epoch |-> 0] \in Token
      BY <3>1, EpochsAreNatural DEF Token
    <3> QED
      BY <3>1, <3>2, NilIsNoToken DEF Account
  <2> QED
    BY <2>1, <2>2
<1>2. UserKnown
  BY <1>1 DEF Init, UserKnown, Posted, Answers, Own, Mine
<1> QED
  BY <1>2 DEF Init, Agree, LinkKnown, ServerKnows, CanSend

\* Every step keeps what Firebase Auth, the client and the server know in agreement.
LEMMA NextAgree ==
    ASSUME IInv, Agree, [Next]_vars
    PROVE  Agree'
<1>1. CASE Open \/ GoOnline \/ Nudge \/ Expire \/ UNCHANGED vars
  BY <1>1, IdleAgree
<1>2. CASE GoOffline \/ OnKill \/ ConnectFails \/ Lose \/ OnAuthRevoked
  BY <1>2, CloseAgree
<1>3. CASE ReceiveAuth
  BY <1>3, CloseAgree, ServeAgree
<1>4. CASE Retry
  BY <1>4, RetryAgree
<1>5. CASE OnToken
  BY <1>5, OnTokenAgree
<1>6. CASE OnReady
  BY <1>6, OnReadyAgree
<1>7. CASE RefreshAuthToken
  BY <1>7, RefreshAgree
<1>8. CASE (\E u \in Users : SignIn(u)) \/ SignOut
  BY <1>8, BecomeAgree
<1>9. CASE Renew
  BY <1>9, RenewAgree
<1>10. CASE Answer
  BY <1>10, AnswerAgree DEF Answer
<1>11. CASE \E i \in DOMAIN fetches : FetchFails(i)
  BY <1>11, FetchFailsAgree
<1>12. CASE Serve \/ Revoke
  BY <1>12, ServeAgree
<1> QED
  BY <1>1, <1>2, <1>3, <1>4, <1>5, <1>6, <1>7, <1>8, <1>9, <1>10, <1>11, <1>12
     DEF Next, Receive

\* In every reachable state the tokens that are posted, answered, held and sent
\* are those of the user, as far as Agree says.
THEOREM Agreement == Spec => []Agree
<1>1. Init => Agree
  BY InitAgree
<1>2. IInv /\ Agree /\ [Next]_vars => Agree'
  BY NextAgree
<1> QED
  BY <1>1, <1>2, Inductive, PTL DEF Spec

\* When everything has been exchanged the server knows the connection by the
\* account that is signed in, or by none (refreshAuthToken, restoreAuth and the
\* answers to both), however often the user changed: the only exception is a
\* connection opened with the answer to an attempt that was made before the last
\* change, and it ends when the next token that was posted is taken.
THEOREM ServerKnowsUser == Spec => []AuthIsCurrent
<1>1. IInv /\ Agree => AuthIsCurrent
  <2>1. SUFFICES ASSUME IInv, Agree, state = "connected", up = <<>>, down = <<>>,
                        Quiet(events), ~overtaken
                 PROVE  Account(session) = user
    BY DEF AuthIsCurrent, Quiet
  <2>2. CanSend /\ realtime # "none" /\ Kept(down)
    BY <2>1 DEF IInv, Link, LinkOK, SendsAreSafe, CanSend, Kept
  <2> QED
    BY <2>1, <2>2 DEF Agree, LinkKnown, ServerKnows, Told
<1> QED
  BY <1>1, Inductive, Agreement, PTL


----------------------------------------------------------------------------
(* Which tokens are refused *)

\* What the messages in a queue are.
Elems(q) == {q[i] : i \in DOMAIN q}

\* The token t is issued.
Old(t) == t = Nil \/ t.epoch <= epoch

\* The message m says that its token is not accepted.
Bad(m) == m.kind = "revoked" \/ ~m.ok

\* No token is of an epoch to come, and what is refused is of one that is over.
Issued ==
    /\ Old(cached) /\ Old(authToken) /\ Old(session)
    /\ \A e \in Elems(events) : Old(e.token)
    /\ \A m \in Elems(up) : Old(Offered(m))
    /\ \A m \in Elems(down) : Bad(m) => m.token.epoch < epoch
    /\ \A t \in refused : t.epoch < epoch

\* A retry is scheduled with the wish that there is, so that none is left.
NoWish == ~forceRefresh

Forced(s) == s # Nil /\ s.force

\* A forced retry follows on a connection, whose attempt was answered.
ForcedLast == Forced(scheduled) => ~Awaited(fetches, events, attempt)

\* A forced call for the user is asked or scheduled, and the user's call of attempt
\* n, if it is not forced, comes after it.
Wished(f, s)      == Forced(s) \/ \E i \in DOMAIN f : f[i].force /\ f[i].mine
ForcedFirst(f, n) ==
    \A i \in DOMAIN f :
        f[i].attempt = n /\ f[i].mine /\ ~f[i].force
            => \E j \in DOMAIN f : j < i /\ f[j].force /\ f[j].mine

\* No token of R is posted in e.
Clean(e, R) == \A i \in DOMAIN e : e[i].kind = "changed" => e[i].token \notin R

\* No token of R is posted in e behind the answer to attempt n.
Ordered(e, n, R) ==
    \A i, j \in DOMAIN e :
        /\ e[i].kind = "fetched" /\ e[i].attempt = n
        /\ e[j].kind = "changed" /\ e[j].token \in R
        => j < i

\* No token of R answers attempt n in e.
Sound(e, n, R) ==
    \A i \in DOMAIN e :
        e[i].kind = "fetched" /\ e[i].attempt = n /\ ~e[i].error => e[i].token \notin R

\* What was posted of the refused tokens is taken before a connection is opened.
Passed ==
    /\ Ordered(events, attempt, refused)
    /\ realtime # "none" => Clean(events, refused)

\* Unless a forced refresh was forgotten since the last refusal: if the present
\* token is refused a new one is on its way and comes first, and no connection has
\* a refused token but one that was asked for a former user.
Renewed ==
    /\ cached \in refused => Wished(fetches, scheduled) /\ ForcedFirst(fetches, attempt)
    /\ ~stray => Sound(events, attempt, refused)
    /\ realtime # "none" /\ ~overtaken => authToken \notin refused

Wishes == NoWish /\ ForcedLast /\ Passed /\ (~forgotten => Renewed)

\* The elements of a sequence that grows or shrinks.
LEMMA ElemsOf ==
    /\ Elems(<<>>) = {}
    /\ \A S : \A q \in Seq(S), x \in S : Elems(Append(q, x)) = Elems(q) \cup {x}
    /\ \A S : \A q \in Seq(S) : q # <<>> =>
          Head(q) \in Elems(q) /\ Head(q) \in S /\ Elems(Tail(q)) \subseteq Elems(q)
<1>1. Elems(<<>>) = {}
  BY DEF Elems
<1>2. ASSUME NEW S, NEW q \in Seq(S), NEW x \in S
      PROVE  Elems(Append(q, x)) = Elems(q) \cup {x}
  <2> DEFINE d == Append(q, x)
  <2>1. /\ DOMAIN d = 1 .. Len(q) + 1 /\ DOMAIN q = 1 .. Len(q) /\ Len(q) \in Nat
        /\ d[Len(q) + 1] = x /\ \A i \in 1 .. Len(q) : d[i] = q[i]
    BY <1>2, Appended
  <2> HIDE DEF d
  <2>2. \A i \in DOMAIN d : i \in DOMAIN q \/ i = Len(q) + 1
    BY <2>1
  <2>3. Len(q) + 1 \in DOMAIN d /\ \A i \in DOMAIN q : i \in DOMAIN d
    BY <2>1
  <2> QED
    BY <2>1, <2>2, <2>3 DEF Elems, d
<1>3. ASSUME NEW S, NEW q \in Seq(S), q # <<>>
      PROVE  Head(q) \in Elems(q) /\ Head(q) \in S /\ Elems(Tail(q)) \subseteq Elems(q)
  <2> DEFINE d == Tail(q)
  <2>1. /\ DOMAIN d = 1 .. Len(q) - 1 /\ DOMAIN q = 1 .. Len(q) /\ Len(q) \in Nat
        /\ \A i \in 1 .. Len(q) - 1 : d[i] = q[i + 1]
        /\ Head(q) = q[1] /\ 1 \in DOMAIN q /\ Head(q) \in S
    BY <1>3, Taken
  <2> HIDE DEF d
  <2>2. \A i \in DOMAIN d : i + 1 \in DOMAIN q /\ d[i] = q[i + 1]
    BY <2>1
  <2> QED
    BY <2>1, <2>2 DEF Elems, d
<1> QED
  BY <1>1, <1>2, <1>3

\* What is new is issued, or of an epoch that is over.
LEMMA IssuedStep ==
    ASSUME Issued, epoch' = epoch, Old(cached'), Old(authToken'), Old(session'),
           \A e \in Elems(events') : e \in Elems(events) \/ Old(e.token),
           \A m \in Elems(up') : m \in Elems(up) \/ Old(Offered(m)),
           \A m \in Elems(down') : m \in Elems(down) \/ ~Bad(m) \/ m.token.epoch < epoch,
           \A t \in refused' : t \in refused \/ t.epoch < epoch
    PROVE  Issued'
BY DEF Issued, Old

\* The types that the lemmas below start from.
LEMMA WireFacts ==
    ASSUME IInv
    PROVE  /\ up \in Seq(Request) /\ down \in Seq(Message) /\ session \in Token \cup {Nil}
           /\ authToken \in Token \cup {Nil} /\ epoch \in Nat /\ refused \subseteq Token
           /\ Nil \notin Token
           /\ \A t \in Token : t.epoch \in Nat
BY EpochsAreNatural, NilIsNoToken DEF IInv, Link, LinkTypes, RestTypes, Token

\* What closes a connection brings in no token.
LEMMA CloseIssued ==
    ASSUME IInv, Issued, ConnectFails \/ Lose \/ OnKill \/ GoOffline \/ OnAuthRevoked
                         \/ (ReceiveAuth /\ ~Head(down).ok)
    PROVE  Issued'
<1>1. UNCHANGED <<events, cached, epoch>> /\ (authToken' = authToken \/ authToken' = Nil)
  BY DEF ConnectFails, Lose, OnKill, GoOffline, OnAuthRevoked, ReceiveAuth, auth, ghost,
         InterruptForReason
<1>2. UNCHANGED wire \/ (up' = <<>> /\ down' = <<>> /\ session' = Nil)
  BY DEF ConnectFails, Lose, OnKill, GoOffline, OnAuthRevoked, ReceiveAuth, OnDisconnect,
         InterruptForReason
<1>3. ASSUME NEW t \in refused' PROVE t \in refused \/ t.epoch < epoch
  <2>1. CASE OnAuthRevoked \/ (ReceiveAuth /\ ~Head(down).ok)
    <3>1. down # <<>> /\ Bad(Head(down)) /\ refused' = refused \cup {Head(down).token}
      BY <2>1 DEF OnAuthRevoked, ReceiveAuth, Bad
    <3>2. Head(down) \in Elems(down)
      BY <3>1, WireFacts, ElemsOf
    <3> QED
      BY <1>3, <3>1, <3>2 DEF Issued
  <2>2. CASE ConnectFails \/ Lose \/ OnKill \/ GoOffline
    BY <1>3, <2>2 DEF ConnectFails, Lose, OnKill, GoOffline, ghost
  <2> QED
    BY <2>1, <2>2
<1>4. Old(cached') /\ Old(authToken') /\ Old(session')
  BY <1>1, <1>2 DEF Issued, Old, wire
<1>5. CASE UNCHANGED wire
  BY <1>1, <1>3, <1>4, <1>5, IssuedStep DEF wire
<1>6. CASE up' = <<>> /\ down' = <<>> /\ session' = Nil
  BY <1>1, <1>3, <1>4, <1>6, ElemsOf, IssuedStep
<1> QED
  BY <1>2, <1>5, <1>6

\* Nor do steps that touch neither tokens nor the wire.
LEMMA IdleIssued ==
    ASSUME IInv, Issued, Open \/ GoOnline \/ Nudge \/ Retry \/ UNCHANGED vars
    PROVE  Issued'
<1>1. UNCHANGED <<authToken, events, cached, wire, epoch, refused>>
  BY DEF Open, GoOnline, Nudge, Retry, ResumeForReason, vars, link, auth, ghost
<1> QED
  BY <1>1, IssuedStep DEF Issued, Old, wire

\* A token of an earlier epoch stays one.
LEMMA ExpireIssued ==
    ASSUME IInv, Issued, Expire
    PROVE  Issued'
<1>1. /\ epoch' = epoch + 1 /\ UNCHANGED <<authToken, events, cached, wire, refused>>
  BY DEF Expire, link, auth, ghost
<1>2. ASSUME NEW t \in Token \cup {Nil}, Old(t) PROVE Old(t)'
  BY <1>1, <1>2, WireFacts DEF Old
<1>3. ASSUME NEW t \in Token, t.epoch < epoch PROVE t.epoch < epoch'
  BY <1>1, <1>3, WireFacts
<1>4. \A e \in Elems(events) : e.token \in Token \cup {Nil}
  <2>1. \A e \in Elems(events) : e \in Event
    BY AuthFacts DEF Elems
  <2> QED
    BY <2>1 DEF Event
<1>5. \A m \in Elems(up) : Offered(m) \in Token \cup {Nil}
  <2>1. \A m \in Elems(up) : m \in Request
    BY WireFacts DEF Elems
  <2> QED
    BY <2>1 DEF Request, Offered, Unauth
<1>6. \A m \in Elems(down) : m.token \in Token
  <2>1. \A m \in Elems(down) : m \in Message
    BY WireFacts DEF Elems
  <2> QED
    BY <2>1 DEF Message
<1>7. cached \in Token \cup {Nil} /\ authToken \in Token \cup {Nil} /\ session \in Token \cup {Nil}
  BY AuthFacts, WireFacts
<1>8. Old(cached)' /\ Old(authToken)' /\ Old(session)'
  BY <1>1, <1>2, <1>7 DEF Issued, wire, Old
<1>9. \A e \in Elems(events') : Old(e.token)'
  BY <1>1, <1>2, <1>4 DEF Issued
<1>10. \A m \in Elems(up') : Old(Offered(m))'
  BY <1>1, <1>2, <1>5 DEF Issued, wire
<1>11. \A m \in Elems(down') : Bad(m) => m.token.epoch < epoch'
  BY <1>1, <1>3, <1>6 DEF Issued, wire
<1>12. \A t \in refused' : t.epoch < epoch'
  BY <1>1, <1>3, WireFacts DEF Issued
<1> QED
  BY <1>8, <1>9, <1>10, <1>11, <1>12 DEF Issued

\* A token that the client takes was posted or fetched.
LEMMA OnTokenIssued ==
    ASSUME IInv, Issued, OnToken \/ RefreshAuthToken
    PROVE  Issued'
<1> DEFINE t == Head(events).token
           m == IF t = Nil THEN Unauth ELSE Authenticate(t, FALSE)
<1>1. /\ events # <<>> /\ events' = Tail(events) /\ authToken' \in {authToken, t}
      /\ UNCHANGED <<cached, epoch, down, session, refused>>
      /\ up' = up \/ up' = Append(up, m)
  BY DEF OnToken, RefreshAuthToken, wire, ghost
<1>2. Head(events) \in Elems(events) /\ Head(events) \in Event
  BY <1>1, AuthFacts, ElemsOf
<1>3. Old(t) /\ t \in Token \cup {Nil}
  BY <1>2 DEF Issued, Event
<1>4. m \in Request /\ Offered(m) = t
  BY <1>3, AuthenticateIsRequest DEF Offered, Unauth, Authenticate, Request
<1> HIDE DEF t, m
<1>5. \A e \in Elems(events') : e \in Elems(events)
  BY <1>1, AuthFacts, ElemsOf
<1>6. \A x \in Elems(up') : x \in Elems(up) \/ Old(Offered(x))
  <2>1. CASE up' = up
    BY <2>1
  <2>2. CASE up' = Append(up, m)
    <3>1. Elems(up') = Elems(up) \cup {m}
      BY <1>4, <2>2, WireFacts, ElemsOf
    <3> QED
      BY <1>3, <1>4, <3>1
  <2> QED
    BY <1>1, <2>1, <2>2
<1>7. Old(cached') /\ Old(authToken') /\ Old(session')
  BY <1>1, <1>3 DEF Issued
<1> QED
  BY <1>1, <1>5, <1>6, <1>7, IssuedStep

\* The token that is sent first is the client's.
LEMMA OnReadyIssued ==
    ASSUME IInv, Issued, OnReady
    PROVE  Issued'
<1>1. /\ UNCHANGED <<authToken, events, cached, down, session, epoch, refused>>
      /\ \/ up' = up
         \/ authToken # Nil /\ up' = Append(up, Authenticate(authToken, TRUE))
  BY DEF OnReady, auth, ghost
<1>2. \A x \in Elems(up') : x \in Elems(up) \/ Old(Offered(x))
  <2>1. CASE up' = up
    BY <2>1
  <2>2. CASE authToken # Nil /\ up' = Append(up, Authenticate(authToken, TRUE))
    <3> DEFINE m == Authenticate(authToken, TRUE)
    <3>1. m \in Request /\ up' = Append(up, m)
      BY <2>2, WireFacts, AuthenticateIsRequest
    <3>3. Offered(m) = authToken
      BY DEF Offered, Authenticate
    <3> HIDE DEF m
    <3>2. Elems(up') = Elems(up) \cup {m}
      BY <3>1, WireFacts, ElemsOf
    <3> QED
      BY <3>2, <3>3 DEF Issued
  <2> QED
    BY <1>1, <2>1, <2>2
<1> QED
  BY <1>1, <1>2, IssuedStep DEF Issued, Old

\* The server refuses tokens of an epoch that is over.
LEMMA ServeIssued ==
    ASSUME IInv, Issued, Serve \/ Revoke \/ (ReceiveAuth /\ Head(down).ok)
    PROVE  Issued'
<1>1. UNCHANGED <<authToken, events, cached, epoch, refused>>
  BY DEF Serve, Revoke, ReceiveAuth, link, auth, ghost
<1>2. CASE Serve
  <2> DEFINE r == Head(up)
             x == Reply(r.token.epoch = epoch, r)
  <2>1. up # <<>> /\ up' = Tail(up)
    BY <1>2 DEF Serve
  <2>2. r \in Elems(up) /\ r \in Request /\ Elems(up') \subseteq Elems(up)
    BY <2>1, WireFacts, ElemsOf
  <2>3. CASE r.kind = "unauth"
    BY <1>1, <1>2, <2>1, <2>2, <2>3, IssuedStep DEF Serve, Issued, Old
  <2>4. CASE r.kind # "unauth"
    <3>1. /\ session' = (IF r.token.epoch = epoch THEN r.token ELSE session)
          /\ down' = Append(down, x)
      BY <1>2, <2>4 DEF Serve
    <3>2. Old(r.token) /\ r.token \in Token /\ r.restore \in BOOLEAN
      BY <2>2, <2>4 DEF Issued, Offered, Request, Unauth
    <3>3. /\ x \in Message /\ x.token = r.token /\ x.kind = "auth"
          /\ x.ok = (r.token.epoch = epoch)
      BY <3>2 DEF Reply, Message
    <3> HIDE DEF x
    <3>4. Elems(down') = Elems(down) \cup {x}
      BY <3>1, <3>3, WireFacts, ElemsOf
    <3>5. ~Bad(x) \/ x.token.epoch < epoch
      <4>1. r.token.epoch <= epoch /\ r.token.epoch \in Nat /\ epoch \in Nat
        BY <3>2, WireFacts DEF Old
      <4>2. CASE r.token.epoch = epoch
        BY <3>3, <4>2 DEF Bad
      <4>3. CASE r.token.epoch # epoch
        BY <3>3, <4>1, <4>3
      <4> QED
        BY <4>2, <4>3
    <3>6. Old(cached') /\ Old(authToken') /\ Old(session')
      BY <1>1, <3>1, <3>2 DEF Issued
    <3>7. \A m \in Elems(down') : m \in Elems(down) \/ ~Bad(m) \/ m.token.epoch < epoch
      BY <3>4, <3>5
    <3> QED
      BY <1>1, <2>2, <3>6, <3>7, IssuedStep
  <2> QED
    BY <2>3, <2>4
<1>3. CASE Revoke
  <2>1. /\ session # Nil /\ session.epoch # epoch /\ session' = Nil /\ up' = up
        /\ down' = Append(down, Revoked(session))
    BY <1>3 DEF Revoke
  <2>2. Revoked(session) \in Message /\ Revoked(session).token = session
    BY <2>1, WireFacts DEF Revoked, Message
  <2>3. session.epoch < epoch
    BY <2>1, WireFacts DEF Issued, Old
  <2>4. Elems(down') = Elems(down) \cup {Revoked(session)}
    BY <2>1, <2>2, WireFacts, ElemsOf
  <2>5. \A m \in Elems(down') : m \in Elems(down) \/ ~Bad(m) \/ m.token.epoch < epoch
    BY <2>2, <2>3, <2>4
  <2> QED
    BY <1>1, <2>1, <2>5, IssuedStep DEF Issued, Old
<1>4. CASE ReceiveAuth /\ Head(down).ok
  <2>1. /\ down # <<>> /\ down' = Tail(down) /\ UNCHANGED <<up, session>>
    BY <1>4 DEF ReceiveAuth
  <2>2. Elems(down') \subseteq Elems(down)
    BY <2>1, WireFacts, ElemsOf
  <2> QED
    BY <1>1, <2>1, <2>2, IssuedStep DEF Issued, Old
<1> QED
  BY <1>2, <1>3, <1>4

\* A token of the present epoch is issued, and not refused.
LEMMA FreshIssued ==
    ASSUME IInv, Issued, NEW u \in Users
    PROVE  Old(Fresh(u)) /\ Fresh(u) \notin refused
<1>1. Fresh(u).epoch = epoch /\ epoch \in Nat
  BY WireFacts DEF Fresh
<1> QED
  BY <1>1 DEF Issued, Old

\* Firebase Auth issues tokens of the present epoch.
LEMMA AuthIssued ==
    ASSUME IInv, Issued,
           \/ (\E u \in Users : SignIn(u)) \/ SignOut \/ Renew
           \/ \E i \in DOMAIN fetches : AnswerCached(i) \/ AnswerRefreshed(i) \/ FetchFails(i)
    PROVE  Issued'
<1>1. UNCHANGED <<authToken, wire, epoch, refused>>
  BY DEF SignIn, SignOut, Renew, AnswerCached, AnswerRefreshed, FetchFails, link, ghost
<1>2. PICK t \in Token \cup {Nil}, y \in Event :
        /\ Old(t) /\ cached' \in {cached, t} /\ Old(y.token)
        /\ events' \in {Append(events, Changed(t)), Append(events, y),
                        events \o <<Changed(t), y>>}
  <2>0. Old(Nil) /\ Changed(Nil) \in Event /\ Changed(Nil).token = Nil
    BY ChangedIsEvent DEF Old, Changed
  <2>1. ASSUME NEW u \in Users, SignIn(u)
        PROVE  cached' = Fresh(u) /\ events' = Append(events, Changed(Fresh(u)))
    BY <2>1, NilIsNoUser DEF SignIn, Become
  <2>2. CASE SignOut
    BY <2>0, <2>2 DEF SignOut, Become
  <2>3. CASE Renew
    <3>1. user \in Users /\ cached' = Fresh(user) /\ events' = Append(events, Changed(Fresh(user)))
      BY <2>3, AuthFacts DEF Renew
    <3> QED
      BY <2>0, <3>1, FreshAccount, FreshIssued
  <2>4. CASE \E u \in Users : SignIn(u)
    BY <2>0, <2>1, <2>4, FreshAccount, FreshIssued
  <2>5. ASSUME NEW i \in DOMAIN fetches, AnswerCached(i)
        PROVE  \E t \in Token \cup {Nil} : /\ cached' = cached /\ Old(t)
                  /\ events' = Append(events, Fetched(fetches[i].attempt, t, FALSE))
    BY <2>0, <2>5 DEF AnswerCached, Issued, Old
  <2>6. CASE \E i \in DOMAIN fetches : AnswerCached(i)
    <3>1. PICK i \in DOMAIN fetches : AnswerCached(i)
      BY <2>6
    <3>2. PICK t \in Token \cup {Nil} : /\ cached' = cached /\ Old(t)
                  /\ events' = Append(events, Fetched(fetches[i].attempt, t, FALSE))
      BY <2>5, <3>1
    <3>3. Fetched(fetches[i].attempt, t, FALSE) \in Event
      BY FetchFacts, FetchedIsEvent
    <3>4. Fetched(fetches[i].attempt, t, FALSE).token = t
      BY DEF Fetched
    <3> QED
      BY <3>2, <3>3, <3>4
  <2>7. CASE \E i \in DOMAIN fetches : AnswerRefreshed(i)
    <3>1. PICK i \in DOMAIN fetches : AnswerRefreshed(i)
      BY <2>7
    <3> DEFINE t == Fresh(fetches[i].user)
               y == Fetched(fetches[i].attempt, t, FALSE)
    <3>2. t \in Token /\ Old(t)
      BY <3>1, FetchFacts, FreshAccount, FreshIssued DEF AnswerRefreshed
    <3>3. y \in Event /\ y.token = t
      BY <3>2, FetchFacts, FetchedIsEvent DEF Fetched
    <3>4. /\ cached' \in {cached, t}
          /\ events' \in {Append(events, y), events \o <<Changed(t), y>>}
      BY <3>1 DEF AnswerRefreshed
    <3> HIDE DEF t, y
    <3> QED
      BY <3>2, <3>3, <3>4
  <2>8. CASE \E i \in DOMAIN fetches : FetchFails(i)
    <3>1. PICK i \in DOMAIN fetches : FetchFails(i)
      BY <2>8
    <3> DEFINE y == Fetched(fetches[i].attempt, Nil, TRUE)
    <3>2. y \in Event /\ y.token = Nil
      BY FetchFacts, FetchedIsEvent DEF Fetched
    <3>3. /\ cached' \in {cached, Nil}
          /\ events' \in {Append(events, y), events \o <<Changed(Nil), y>>}
      BY <3>1 DEF FetchFails
    <3> HIDE DEF y
    <3> QED
      BY <2>0, <3>2, <3>3
  <2> QED
    BY <2>2, <2>3, <2>4, <2>6, <2>7, <2>8
<1>3. Changed(t) \in Event /\ Changed(t).token = t
  BY ChangedIsEvent DEF Changed
<1>4. Elems(events') \subseteq Elems(events) \cup {Changed(t), y}
  <2>1. events \in Seq(Event)
    BY AuthFacts
  <2>2. CASE events' = Append(events, Changed(t)) \/ events' = Append(events, y)
    <3>1. Elems(Append(events, y)) = Elems(events) \cup {y}
      BY <2>1, ElemsOf
    <3>2. Elems(Append(events, Changed(t))) = Elems(events) \cup {Changed(t)}
      BY <1>3, <2>1, ElemsOf
    <3> QED
      BY <2>2, <3>1, <3>2
  <2>3. CASE events' = events \o <<Changed(t), y>>
    <3> DEFINE d == Append(events, Changed(t))
    <3>1. d \in Seq(Event) /\ events' = Append(d, y)
      BY <1>3, <2>1, <2>3
    <3>2. Elems(d) = Elems(events) \cup {Changed(t)}
      BY <1>3, <2>1, ElemsOf
    <3> HIDE DEF d
    <3>3. Elems(events') = Elems(d) \cup {y}
      BY <3>1, ElemsOf
    <3> QED
      BY <3>2, <3>3
  <2> QED
    BY <1>2, <2>2, <2>3
<1>5. \A e \in Elems(events') : e \in Elems(events) \/ Old(e.token)
  BY <1>2, <1>3, <1>4
<1> QED
  BY <1>1, <1>2, <1>5, IssuedStep DEF Issued, Old, wire

\* The first token is of the present epoch.
LEMMA InitIssued ==
    ASSUME Init
    PROVE  Issued
<1>1. Old(cached)
  BY DEF Init, Old, Fresh
<1> QED
  BY <1>1, ElemsOf DEF Init, Issued, Old

\* Every step deals in tokens that were issued.
LEMMA NextIssued ==
    ASSUME IInv, Issued, [Next]_vars
    PROVE  Issued'
<1>1. CASE Open \/ GoOnline \/ Nudge \/ Retry \/ UNCHANGED vars
  BY <1>1, IdleIssued
<1>2. CASE GoOffline \/ OnKill \/ ConnectFails \/ Lose \/ OnAuthRevoked
  BY <1>2, CloseIssued
<1>3. CASE ReceiveAuth
  BY <1>3, CloseIssued, ServeIssued
<1>4. CASE Expire
  BY <1>4, ExpireIssued
<1>5. CASE OnToken \/ RefreshAuthToken
  BY <1>5, OnTokenIssued
<1>6. CASE OnReady
  BY <1>6, OnReadyIssued
<1>7. CASE (\E u \in Users : SignIn(u)) \/ SignOut \/ Renew
  BY <1>7, AuthIssued
<1>8. CASE Answer \/ \E i \in DOMAIN fetches : FetchFails(i)
  BY <1>8, AuthIssued DEF Answer
<1>9. CASE Serve \/ Revoke
  BY <1>9, ServeIssued
<1> QED
  BY <1>1, <1>2, <1>3, <1>4, <1>5, <1>6, <1>7, <1>8, <1>9 DEF Next, Receive


\* An event more.
LEMMA SoundMore ==
    ASSUME NEW e \in Seq(Event), NEW x \in Event, NEW n, NEW R,
           x.kind = "changed" => x.token \notin R
    PROVE  /\ Ordered(e, n, R) => Ordered(Append(e, x), n, R)
           /\ Clean(e, R) => Clean(Append(e, x), R)
           /\ Sound(e, n, R)
                /\ (x.kind = "fetched" /\ x.attempt = n /\ ~x.error => x.token \notin R)
                 => Sound(Append(e, x), n, R)
<1> DEFINE d == Append(e, x)
<1>1. /\ DOMAIN d = 1 .. Len(e) + 1 /\ DOMAIN e = 1 .. Len(e) /\ Len(e) \in Nat
      /\ d[Len(e) + 1] = x /\ \A i \in 1 .. Len(e) : d[i] = e[i]
  BY Appended
<1> HIDE DEF d
<1>2. \A i \in DOMAIN d : \/ i \in DOMAIN e /\ d[i] = e[i] /\ i < Len(e) + 1
                          \/ i = Len(e) + 1 /\ d[i] = x
  BY <1>1
<1>3. Ordered(e, n, R) => Ordered(d, n, R)
  BY <1>2 DEF Ordered
<1>4. Clean(e, R) => Clean(d, R)
  BY <1>2 DEF Clean
<1>5. Sound(e, n, R) /\ (x.kind = "fetched" /\ x.attempt = n /\ ~x.error => x.token \notin R)
         => Sound(d, n, R)
  BY <1>2 DEF Sound
<1> QED
  BY <1>3, <1>4, <1>5 DEF d

\* The first event is taken.
LEMMA SoundLess ==
    ASSUME NEW e \in Seq(Event), e # <<>>, NEW n, NEW R
    PROVE  /\ Ordered(e, n, R) => Ordered(Tail(e), n, R)
           /\ Clean(e, R) => Clean(Tail(e), R)
           /\ Sound(e, n, R) => Sound(Tail(e), n, R)
           /\ Clean(e, R) /\ Head(e).kind = "changed" => Head(e).token \notin R
           /\ Head(e).kind = "fetched" /\ Head(e).attempt = n =>
                 /\ Ordered(e, n, R) => Clean(Tail(e), R)
                 /\ Sound(e, n, R) /\ ~Head(e).error => Head(e).token \notin R
<1> DEFINE d == Tail(e)
<1>1. /\ DOMAIN d = 1 .. Len(e) - 1 /\ DOMAIN e = 1 .. Len(e) /\ Len(e) \in Nat
      /\ \A i \in 1 .. Len(e) - 1 : d[i] = e[i + 1]
      /\ Head(e) = e[1] /\ 1 \in DOMAIN e
  BY Taken
<1> HIDE DEF d
<1>2. \A i \in DOMAIN d : i \in Int /\ i + 1 \in DOMAIN e /\ d[i] = e[i + 1] /\ ~(i + 1 < 1)
  BY <1>1
<1>3. \A i, j \in DOMAIN d : i + 1 < j + 1 => i < j
  BY <1>2
<1>4. Ordered(e, n, R) => Ordered(d, n, R)
  BY <1>2, <1>3 DEF Ordered
<1>5. Clean(e, R) => Clean(d, R)
  BY <1>2 DEF Clean
<1>6. Sound(e, n, R) => Sound(d, n, R)
  BY <1>2 DEF Sound
<1>7. Clean(e, R) /\ e[1].kind = "changed" => e[1].token \notin R
  BY <1>1 DEF Clean
<1>8. e[1].kind = "fetched" /\ e[1].attempt = n =>
         /\ Ordered(e, n, R) => Clean(d, R)
         /\ Sound(e, n, R) /\ ~e[1].error => e[1].token \notin R
  BY <1>1, <1>2 DEF Ordered, Sound, Clean
<1> QED
  BY <1>1, <1>4, <1>5, <1>6, <1>7, <1>8 DEF d

\* A call is answered which is not a forced one for the user.
LEMMA ForcedLess ==
    ASSUME IInv, NEW i \in DOMAIN fetches, ~(fetches[i].force /\ fetches[i].mine), NEW s, NEW n
    PROVE  /\ Wished(fetches, s) => Wished(Without(fetches, i), s)
           /\ ForcedFirst(fetches, n) => ForcedFirst(Without(fetches, i), n)
<1> DEFINE g == Without(fetches, i)
           at(k) == IF k < i THEN k ELSE k + 1
<1>1. /\ DOMAIN g = 1 .. Len(fetches) - 1 /\ DOMAIN fetches = 1 .. Len(fetches)
      /\ Len(fetches) \in Nat
      /\ \A k \in 1 .. Len(fetches) - 1 : g[k] = fetches[at(k)]
  BY AuthFacts, TakenOut
<1> HIDE DEF g
<1>2. \A k \in DOMAIN g : at(k) \in DOMAIN fetches /\ g[k] = fetches[at(k)]
  BY <1>1
<1>3. ASSUME NEW j \in DOMAIN fetches, j # i
      PROVE  \E k \in DOMAIN g : at(k) = j /\ g[k] = fetches[j]
  <2>1. CASE j < i
    BY <1>1, <2>1
  <2>2. CASE i < j
    <3>1. j - 1 \in DOMAIN g /\ at(j - 1) = j
      BY <1>1, <2>2
    <3> QED
      BY <1>2, <3>1
  <2> QED
    BY <1>1, <1>3, <2>1, <2>2
<1>4. \A j, k \in DOMAIN g : at(j) < at(k) => j < k
  BY <1>1
<1> HIDE DEF at
<1>5. Wished(fetches, s) => Wished(g, s)
  BY <1>3 DEF Wished
<1>6. ASSUME ForcedFirst(fetches, n), NEW k \in DOMAIN g,
             g[k].attempt = n, g[k].mine, ~g[k].force
      PROVE  \E j \in DOMAIN g : j < k /\ g[j].force /\ g[j].mine
  <2>1. PICK j \in DOMAIN fetches : j < at(k) /\ fetches[j].force /\ fetches[j].mine
    BY <1>2, <1>6 DEF ForcedFirst
  <2>2. PICK l \in DOMAIN g : at(l) = j /\ g[l] = fetches[j]
    BY <1>3, <2>1
  <2> QED
    BY <1>4, <2>1, <2>2
<1> QED
  BY <1>5, <1>6 DEF ForcedFirst, g

\* The calls for the user are answered in order: not one behind a forced one.
LEMMA AnsweredFirst ==
    ASSUME IInv, Agree, NEW i \in DOMAIN fetches, Answerable(i), fetches[i].mine,
           ~fetches[i].force
    PROVE  ~ForcedFirst(fetches, fetches[i].attempt)
<1>1. SUFFICES ASSUME NEW j \in DOMAIN fetches, j < i, fetches[j].force, fetches[j].mine
               PROVE  FALSE
  BY DEF ForcedFirst
<1>2. fetches[j].user = user /\ fetches[i].user = user
  BY <1>1 DEF Agree, UserKnown, Mine
<1>3. j \in 1 .. i - 1
  BY <1>1, AuthFacts
<1>4. fetches[j].mine \in BOOLEAN /\ fetches[i].mine \in BOOLEAN
  <2>1. fetches[j] \in Fetch /\ fetches[i] \in Fetch
    BY AuthFacts
  <2> QED
    BY <2>1 DEF Fetch
<1> QED
  BY <1>1, <1>2, <1>3, <1>4 DEF Answerable

\* The calls and answers are what they were, and so is the connection or it is closed.
LEMMA SameWishes ==
    ASSUME IInv, Wishes,
           UNCHANGED <<fetches, events, attempt, cached, refused, stray, overtaken>>,
           forgotten => forgotten', NoWish',
           Forced(scheduled') => Forced(scheduled),
           ~forgotten' /\ Forced(scheduled) => Forced(scheduled'),
           realtime' # "none" => realtime # "none" /\ authToken' = authToken
    PROVE  Wishes'
<1>1. ForcedLast'
  BY DEF Wishes, ForcedLast, Awaited
<1>2. Passed'
  BY DEF Wishes, Passed, Ordered, Clean
<1>3. ASSUME ~forgotten' PROVE Renewed'
  <2>1. Renewed
    BY <1>3 DEF Wishes
  <2>2. cached' \in refused' => Wished(fetches', scheduled') /\ ForcedFirst(fetches', attempt')
    BY <1>3, <2>1 DEF Renewed, Wished, ForcedFirst
  <2>3. ~stray' => Sound(events', attempt', refused')
    BY <2>1 DEF Renewed, Sound
  <2> QED
    BY <2>1, <2>2, <2>3 DEF Renewed
<1> QED
  BY <1>1, <1>2, <1>3 DEF Wishes

\* A retry that is scheduled without a wish is not forced.
LEMMA Unforced ==
    ASSUME NoWish, NEW rs, TryScheduleReconnect(rs, forceRefresh)
    PROVE  /\ NoWish' /\ (Forced(scheduled') => Forced(scheduled))
           /\ rs # {} => scheduled' = scheduled
BY DEF NoWish, TryScheduleReconnect, Forced

\* Steps that neither fetch nor post leave a forced refresh where it is.
LEMMA IdleWishes ==
    ASSUME IInv, Wishes,
           Open \/ GoOnline \/ Nudge \/ GoOffline \/ Expire \/ UNCHANGED vars
    PROVE  Wishes'
<1>1. /\ UNCHANGED <<fetches, events, attempt, cached, refused, stray, overtaken>>
      /\ forgotten => forgotten'
  <2>1. CASE Open \/ GoOnline
    BY <2>1 DEF Open, GoOnline, ResumeForReason, auth, ghost
  <2>2. CASE Nudge
    BY <2>2 DEF Nudge, auth
  <2>3. CASE GoOffline
    BY <2>3 DEF GoOffline, InterruptForReason, auth
  <2>4. CASE Expire \/ UNCHANGED vars
    BY <2>4 DEF Expire, auth, vars, link, ghost
  <2> QED
    BY <2>1, <2>2, <2>3, <2>4
<1>2. NoWish /\ forceRefresh \in BOOLEAN
  BY DEF Wishes, IInv, Link, LinkTypes
<1>3. CASE Open \/ GoOnline
  <2>1. /\ reasons # {} /\ UNCHANGED <<realtime, authToken>>
        /\ UNCHANGED <<scheduled, forceRefresh>> \/ TryScheduleReconnect(reasons', forceRefresh)
    BY <1>3 DEF Open, GoOnline, ResumeForReason
  <2>2. ~Forced(scheduled)
    BY <2>1 DEF IInv, Link, LinkOK, ReconnectIsScheduled, Forced
  <2>3. NoWish' /\ (Forced(scheduled') => Forced(scheduled))
    BY <1>2, <2>1, Unforced DEF NoWish, Forced
  <2> QED
    BY <1>1, <2>1, <2>2, <2>3, SameWishes
<1>4. CASE Nudge
  <2>1. /\ TryScheduleReconnect(reasons, forceRefresh) /\ scheduled # Nil
        /\ scheduled.force => forgotten'
        /\ UNCHANGED <<realtime, authToken>>
    BY <1>4 DEF Nudge
  <2>2. NoWish' /\ (Forced(scheduled') => Forced(scheduled))
    BY <1>2, <2>1, Unforced
  <2> QED
    BY <1>1, <2>1, <2>2, SameWishes DEF Forced
<1>5. CASE GoOffline
  <2>1. /\ InterruptForReason("repoInterrupt")
        /\ Forced(scheduled) => forgotten'
    BY <1>5 DEF GoOffline, Forced
  <2>2. NoWish' /\ (Forced(scheduled') => Forced(scheduled)) /\ realtime' = "none"
    <3>1. CASE realtime # "none"
      BY <1>2, <2>1, <3>1, Unforced DEF InterruptForReason, OnDisconnect
    <3>2. CASE realtime = "none"
      BY <1>2, <2>1, <3>2 DEF InterruptForReason, NoWish, Forced
    <3> QED
      BY <3>1, <3>2
  <2> QED
    BY <1>1, <2>1, <2>2, SameWishes
<1>6. CASE Expire \/ UNCHANGED vars
  <2>1. UNCHANGED <<scheduled, forceRefresh, realtime, authToken, forgotten>>
    BY <1>6 DEF Expire, vars, link, ghost
  <2> QED
    BY <1>1, <1>2, <2>1, SameWishes DEF Forced, NoWish
<1> QED
  BY <1>3, <1>4, <1>5, <1>6

\* A connection that is closed without a refusal: no retry waits.
LEMMA CloseWishes ==
    ASSUME IInv, Wishes, ConnectFails \/ Lose \/ OnKill
    PROVE  Wishes'
<1>1. /\ UNCHANGED <<fetches, events, attempt, cached, refused, stray, overtaken, forgotten>>
      /\ realtime # "none"
  BY DEF ConnectFails, Lose, OnKill, InterruptForReason, auth, ghost
<1>2. PICK rs : OnDisconnect(rs, forceRefresh)
  BY <1>1 DEF ConnectFails, Lose, OnKill, InterruptForReason
<1>3. ~Forced(scheduled)
  BY <1>1 DEF IInv, Link, LinkTypes, LinkOK, ReconnectIsScheduled, SendsAreSafe, CanSend,
              Forced
<1>4. NoWish' /\ (Forced(scheduled') => Forced(scheduled)) /\ realtime' = "none"
  BY <1>2, Unforced DEF Wishes, OnDisconnect
<1> QED
  BY <1>1, <1>3, <1>4, SameWishes

\* What is sent and answered on a connection leaves its token what it is.
LEMMA SendWishes ==
    ASSUME IInv, Wishes, OnReady \/ Serve \/ Revoke \/ (ReceiveAuth /\ Head(down).ok)
    PROVE  Wishes'
<1>1. UNCHANGED <<fetches, events, attempt, cached, refused, stray, overtaken, forgotten,
                  scheduled, forceRefresh, authToken>>
  BY DEF OnReady, Serve, Revoke, ReceiveAuth, auth, link, ghost
<1>2. realtime # "none"
  BY InUse, MessageFacts DEF OnReady, Serve, Revoke, ReceiveAuth
<1> QED
  BY <1>1, <1>2, SameWishes DEF Wishes, Forced, NoWish

\* The client is told that its token is not accepted: no fetch is awaited, and
\* the next is forced.
LEMMA RefusedWishes ==
    ASSUME IInv, Wishes, OnAuthRevoked \/ (ReceiveAuth /\ ~Head(down).ok)
    PROVE  Wishes'
<1>1. /\ down # <<>> /\ OnDisconnect(reasons, TRUE)
      /\ UNCHANGED <<fetches, events, attempt, cached>>
  BY DEF OnAuthRevoked, ReceiveAuth, auth
<1>2. realtime = "connected" /\ state \in {"authenticating", "connected"}
  BY <1>1, MessageFacts
<1>3. reasons = {} /\ ~Awaited(fetches, events, attempt)
  BY <1>2 DEF IInv, Link, LinkOK, SendsAreSafe, Expected
<1>4. scheduled' = [force |-> TRUE] /\ forceRefresh' = FALSE /\ realtime' = "none"
  BY <1>1, <1>3 DEF OnDisconnect, TryScheduleReconnect
<1>5. Forced(scheduled')
  <2>1. [force |-> TRUE] \in [force : BOOLEAN]
    OBVIOUS
  <2> QED
    BY <1>4, <2>1, NilIsNoToken DEF Forced
<1>6. ForcedLast'
  BY <1>1, <1>3 DEF ForcedLast, Awaited
<1>7. /\ ForcedFirst(fetches', attempt') /\ Sound(events', attempt', refused')
      /\ Ordered(events', attempt', refused')
  BY <1>1, <1>3 DEF ForcedFirst, Sound, Ordered, Awaited
<1> QED
  BY <1>4, <1>5, <1>6, <1>7 DEF Wishes, NoWish, Passed, Renewed, Wished

\* The retry asks for the next token.
LEMMA RetryWishes ==
    ASSUME IInv, Wishes, Retry
    PROVE  Wishes'
<1> DEFINE x == [attempt |-> attempt + 1, force |-> scheduled.force, user |-> user,
                 mine |-> TRUE]
<1>1. /\ scheduled # Nil /\ scheduled' = Nil /\ attempt' = attempt + 1
      /\ fetches' = Append(fetches, x)
      /\ UNCHANGED <<realtime, authToken, forceRefresh, cached, events, overtaken, refused,
                     forgotten>>
  BY DEF Retry
<1>2. scheduled \in [force : BOOLEAN]
  BY <1>1 DEF IInv, Link, LinkTypes
<1>3. x \in Fetch /\ x.attempt = attempt + 1 /\ x.force = scheduled.force /\ x.mine
  BY <1>2, AuthFacts DEF Fetch
<1> HIDE DEF x
<1>4. /\ DOMAIN fetches' = 1 .. Len(fetches) + 1 /\ DOMAIN fetches = 1 .. Len(fetches)
      /\ Len(fetches) \in Nat /\ fetches'[Len(fetches) + 1] = x
      /\ \A i \in 1 .. Len(fetches) : fetches'[i] = fetches[i]
  BY <1>1, <1>3, AuthFacts, Appended
<1>5. \A i \in DOMAIN fetches : /\ i \in DOMAIN fetches' /\ fetches'[i] = fetches[i]
                                /\ i < Len(fetches) + 1
  BY <1>4
<1>6. Len(fetches) + 1 \in DOMAIN fetches'
      /\ \A i \in DOMAIN fetches' : i \in DOMAIN fetches \/ i = Len(fetches) + 1
  BY <1>4
<1>7. ASSUME NEW n \in Nat, n <= attempt PROVE n # attempt + 1
  BY <1>7, AuthFacts
<1>8. \A i \in DOMAIN fetches : fetches[i].attempt # attempt + 1
  BY <1>7, AuthFacts, FetchFacts DEF Numbered
<1>9. ASSUME NEW i \in DOMAIN events, events[i].kind = "fetched"
      PROVE  events[i].attempt # attempt + 1
  <2>1. events[i] \in Event
    BY AuthFacts
  <2>2. events[i].attempt \in Nat
    BY <1>9, <2>1 DEF Event
  <2> QED
    BY <1>7, <1>9, <2>2, AuthFacts DEF Numbered
<1>10. NoWish' /\ ForcedLast'
  BY <1>1 DEF Wishes, NoWish, ForcedLast, Forced
<1>11. Passed'
  BY <1>1, <1>9 DEF Wishes, Passed, Ordered
<1>12. ASSUME ~forgotten' PROVE Renewed'
  <2>1. Renewed
    BY <1>1, <1>12 DEF Wishes
  <2>2. Sound(events', attempt', refused')
    BY <1>1, <1>9 DEF Sound
  <2>3. ASSUME cached' \in refused'
        PROVE  Wished(fetches', scheduled') /\ ForcedFirst(fetches', attempt')
    <3>1. scheduled.force \/ \E i \in DOMAIN fetches : fetches[i].force /\ fetches[i].mine
      BY <1>1, <2>1, <2>3 DEF Renewed, Wished, Forced
    <3>2. \E i \in DOMAIN fetches' : fetches'[i].force /\ fetches'[i].mine
      BY <1>3, <1>4, <1>5, <1>6, <3>1
    <3>3. ASSUME NEW i \in DOMAIN fetches', fetches'[i].attempt = attempt', ~fetches'[i].force
          PROVE  \E j \in DOMAIN fetches' : j < i /\ fetches'[j].force /\ fetches'[j].mine
      <4>1. i = Len(fetches) + 1 /\ ~scheduled.force
        BY <1>1, <1>3, <1>4, <1>5, <1>6, <1>8, <3>3
      <4> QED
        BY <1>5, <3>1, <4>1
    <3> QED
      BY <3>2, <3>3 DEF Wished, ForcedFirst
  <2> QED
    BY <1>1, <2>1, <2>2, <2>3 DEF Renewed
<1> QED
  BY <1>10, <1>12, <1>11 DEF Wishes

\* A posted token is taken: no connection is there when it is one that was refused.
LEMMA RefreshWishes ==
    ASSUME IInv, Wishes, RefreshAuthToken
    PROVE  Wishes'
<1>1. /\ events # <<>> /\ Head(events).kind = "changed" /\ events' = Tail(events)
      /\ authToken' = Head(events).token
      /\ UNCHANGED <<fetches, attempt, cached, refused, stray, forgotten, scheduled,
                     forceRefresh, realtime>>
  BY DEF RefreshAuthToken
<1>2. \A n : Awaited(fetches', events', n) => Awaited(fetches, events, n)
  BY <1>1, AuthFacts, TakenNumbers
<1>3. NoWish' /\ ForcedLast'
  BY <1>1, <1>2 DEF Wishes, NoWish, ForcedLast
<1>4. Passed'
  BY <1>1, AuthFacts, SoundLess DEF Wishes, Passed
<1>5. realtime # "none" => Head(events).token \notin refused
  BY <1>1, AuthFacts, SoundLess DEF Wishes, Passed
<1>6. ASSUME ~forgotten' PROVE Renewed'
  <2>1. Renewed
    BY <1>1, <1>6 DEF Wishes
  <2>2. cached' \in refused' => Wished(fetches', scheduled') /\ ForcedFirst(fetches', attempt')
    BY <1>1, <2>1 DEF Renewed, Wished, ForcedFirst
  <2>3. ~stray' => Sound(events', attempt', refused')
    BY <1>1, <2>1, AuthFacts, SoundLess DEF Renewed
  <2> QED
    BY <1>1, <1>5, <2>2, <2>3 DEF Renewed
<1> QED
  BY <1>3, <1>4, <1>6 DEF Wishes

\* The answer is taken: that of the latest attempt is not a refused token, unless it
\* was asked for a former user, and none is posted behind it.
LEMMA OnTokenWishes ==
    ASSUME IInv, Wishes, OnToken
    PROVE  Wishes'
<1> DEFINE e == Head(events)
<1>1. /\ events # <<>> /\ e.kind = "fetched" /\ events' = Tail(events)
      /\ UNCHANGED <<fetches, attempt, cached, refused, stray, forgotten>>
  BY DEF OnToken
<1>2. \A n : Awaited(fetches', events', n) => Awaited(fetches, events, n)
  BY <1>1, AuthFacts, TakenNumbers
<1>3. Awaited(fetches, events, e.attempt)
  BY <1>1, AuthFacts, Taken DEF Awaited
<1>4. e.attempt = attempt => ~Forced(scheduled)
  BY <1>3 DEF Wishes, ForcedLast
<1>5. /\ NoWish' /\ (Forced(scheduled') => Forced(scheduled))
      /\ Forced(scheduled) => Forced(scheduled')
  <2>1. CASE UNCHANGED <<scheduled, forceRefresh>>
    BY <2>1 DEF Wishes, NoWish, Forced
  <2>2. CASE e.attempt = attempt /\ TryScheduleReconnect(reasons, forceRefresh)
    BY <1>4, <2>2, Unforced DEF Wishes
  <2> QED
    BY <2>1, <2>2 DEF OnToken
<1>6. ForcedLast'
  BY <1>1, <1>2, <1>5 DEF Wishes, ForcedLast
<1>7. \/ UNCHANGED <<realtime, authToken, overtaken>>
      \/ /\ e.attempt = attempt /\ ~e.error
         /\ authToken' = e.token /\ overtaken' = stray
  BY DEF OnToken
<1>8. Passed'
  BY <1>1, <1>7, AuthFacts, SoundLess DEF Wishes, Passed
<1>9. ASSUME ~forgotten' PROVE Renewed'
  <2>1. Renewed
    BY <1>1, <1>9 DEF Wishes
  <2>2. cached' \in refused' => Wished(fetches', scheduled') /\ ForcedFirst(fetches', attempt')
    BY <1>1, <1>5, <2>1 DEF Renewed, Wished, ForcedFirst
  <2>3. ~stray' => Sound(events', attempt', refused')
    BY <1>1, <2>1, AuthFacts, SoundLess DEF Renewed
  <2>4. realtime' # "none" /\ ~overtaken' => authToken' \notin refused'
    BY <1>1, <1>7, <2>1, AuthFacts, SoundLess DEF Renewed
  <2> QED
    BY <2>2, <2>3, <2>4 DEF Renewed
<1> QED
  BY <1>5, <1>6, <1>8, <1>9 DEF Wishes

\* Firebase Auth answers what is asked: no fetch is awaited that was not before.
LEMMA AuthAwaited ==
    ASSUME IInv,
           \/ (\E u \in Users : SignIn(u)) \/ SignOut \/ Renew
           \/ \E i \in DOMAIN fetches : AnswerCached(i) \/ AnswerRefreshed(i) \/ FetchFails(i)
    PROVE  \A m : Awaited(fetches', events', m) => Awaited(fetches, events, m)
<1>1. ASSUME NEW t \in Token \cup {Nil}, events' = Append(events, Changed(t)),
             fetches' = fetches \/ fetches' = Dropped(fetches)
      PROVE  \A m : Awaited(fetches', events', m) => Awaited(fetches, events, m)
  <2>1. \A m : Awaited(fetches, events', m) => Awaited(fetches, events, m)
    BY <1>1, ChangedIsEvent, AuthFacts, PostedNumbers
  <2>2. \A m : Awaited(Dropped(fetches), events', m) => Awaited(fetches, events', m)
    BY AuthFacts, DroppedSame DEF Awaited
  <2> QED
    BY <1>1, <2>1, <2>2
<1>2. ASSUME NEW i \in DOMAIN fetches, NEW t \in Token \cup {Nil}, NEW y \in Event,
             y.kind = "fetched", y.attempt = fetches[i].attempt,
             events' = Append(events, y) \/ events' = events \o <<Changed(t), y>>,
             \/ fetches' = Without(fetches, i)
             \/ fetches' = Dropped(Without(fetches, i))
      PROVE  \A m : Awaited(fetches', events', m) => Awaited(fetches, events, m)
  <2> DEFINE f == Without(fetches, i)
  <2>1. \A m : Awaited(f, events', m) => Awaited(fetches, events, m)
    BY <1>2, ChangedIsEvent, PostedAnswered
  <2>2. f \in Seq(Fetch)
    BY FetchFacts
  <2> HIDE DEF f
  <2>3. \A m : Awaited(Dropped(f), events', m) => Awaited(f, events', m)
    BY <2>2, DroppedSame DEF Awaited
  <2> QED
    BY <1>2, <2>1, <2>3 DEF f
<1>3. CASE (\E u \in Users : SignIn(u)) \/ SignOut \/ Renew
  <2>1. CASE SignOut
    BY <1>1, <2>1 DEF SignOut
  <2>2. CASE Renew
    <3>1. user \in Users /\ events' = Append(events, Changed(Fresh(user))) /\ fetches' = fetches
      BY <2>2, AuthFacts DEF Renew
    <3> QED
      BY <1>1, <3>1, FreshAccount
  <2>3. ASSUME NEW u \in Users, SignIn(u)
        PROVE  events' = Append(events, Changed(Fresh(u))) /\ fetches' = Dropped(fetches)
    BY <2>3 DEF SignIn
  <2> QED
    BY <1>1, <1>3, <2>1, <2>2, <2>3, FreshAccount
<1>4. ASSUME NEW i \in DOMAIN fetches, AnswerCached(i)
      PROVE  \A m : Awaited(fetches', events', m) => Awaited(fetches, events, m)
  <2>1. PICK t \in Token \cup {Nil} :
          events' = Append(events, Fetched(fetches[i].attempt, t, FALSE))
    BY <1>4 DEF AnswerCached
  <2> DEFINE y == Fetched(fetches[i].attempt, t, FALSE)
  <2>2. y \in Event /\ y.kind = "fetched" /\ y.attempt = fetches[i].attempt
    BY FetchFacts, FetchedIsEvent
  <2> HIDE DEF y
  <2>3. events' = Append(events, y) /\ fetches' = Without(fetches, i)
    BY <1>4, <2>1 DEF y, AnswerCached
  <2> QED
    BY <1>2, <2>2, <2>3
<1>5. ASSUME NEW i \in DOMAIN fetches, AnswerRefreshed(i)
      PROVE  \A m : Awaited(fetches', events', m) => Awaited(fetches, events, m)
  <2> DEFINE t == Fresh(fetches[i].user)
             y == Fetched(fetches[i].attempt, t, FALSE)
  <2>1. t \in Token
    BY <1>5, FetchFacts, FreshAccount DEF AnswerRefreshed
  <2>2. y \in Event /\ y.kind = "fetched" /\ y.attempt = fetches[i].attempt
    BY <2>1, FetchFacts, FetchedIsEvent
  <2>3. /\ events' = Append(events, y) \/ events' = events \o <<Changed(t), y>>
        /\ fetches' = Without(fetches, i)
    BY <1>5 DEF AnswerRefreshed
  <2> HIDE DEF t, y
  <2> QED
    BY <1>2, <2>1, <2>2, <2>3
<1>6. ASSUME NEW i \in DOMAIN fetches, FetchFails(i)
      PROVE  \A m : Awaited(fetches', events', m) => Awaited(fetches, events, m)
  <2> DEFINE y == Fetched(fetches[i].attempt, Nil, TRUE)
  <2>1. y \in Event /\ y.kind = "fetched" /\ y.attempt = fetches[i].attempt
    BY FetchFacts, FetchedIsEvent
  <2>2. /\ events' = Append(events, y) \/ events' = events \o <<Changed(Nil), y>>
        /\ fetches' = Without(fetches, i) \/ fetches' = Dropped(Without(fetches, i))
    BY <1>6 DEF FetchFails
  <2> HIDE DEF y
  <2> QED
    BY <1>2, <2>1, <2>2
<1> QED
  BY <1>3, <1>4, <1>5, <1>6

\* The link is left alone, the calls and answers keep what Wishes says of them.
LEMMA AuthWishes ==
    ASSUME IInv, Wishes, UNCHANGED <<link, wire, refused, overtaken>>,
           \A m : Awaited(fetches', events', m) => Awaited(fetches, events, m),
           Ordered(events, attempt, refused) => Ordered(events', attempt, refused),
           Clean(events, refused) => Clean(events', refused),
           ~forgotten' /\ Renewed =>
              /\ \/ cached' \notin refused
                 \/ /\ cached' = cached
                    /\ Wished(fetches, scheduled) => Wished(fetches', scheduled)
                    /\ ForcedFirst(fetches, attempt) => ForcedFirst(fetches', attempt)
              /\ ~stray' => Sound(events', attempt, refused),
           forgotten => forgotten'
    PROVE  Wishes'
<1>1. UNCHANGED <<scheduled, forceRefresh, attempt, realtime, authToken, refused>>
  BY DEF link
<1>2. NoWish' /\ ForcedLast' /\ Passed'
  BY <1>1 DEF Wishes, NoWish, ForcedLast, Passed
<1>3. ASSUME ~forgotten' PROVE Renewed'
  BY <1>1, <1>3 DEF Wishes, Renewed
<1> QED
  BY <1>2, <1>3 DEF Wishes

\* A new user's token, and one that is renewed, is not refused.
LEMMA PostWishes ==
    ASSUME IInv, Issued, Wishes, (\E u \in Users : SignIn(u)) \/ SignOut \/ Renew
    PROVE  Wishes'
<1>1. PICK t \in Token \cup {Nil} :
        t \notin refused /\ cached' = t /\ events' = Append(events, Changed(t))
  <2>1. CASE SignOut
    BY <2>1, WireFacts DEF SignOut, Become
  <2>2. CASE Renew
    <3>1. /\ user \in Users /\ cached' = Fresh(user)
          /\ events' = Append(events, Changed(Fresh(user)))
      BY <2>2, AuthFacts DEF Renew
    <3> QED
      BY <3>1, FreshAccount, FreshIssued
  <2>3. ASSUME NEW u \in Users, SignIn(u)
        PROVE  cached' = Fresh(u) /\ events' = Append(events, Changed(Fresh(u)))
    BY <2>3, NilIsNoUser DEF SignIn, Become
  <2> QED
    BY <2>1, <2>2, <2>3, FreshAccount, FreshIssued
<1>2. Changed(t) \in Event /\ Changed(t).kind = "changed" /\ Changed(t).token = t
  BY ChangedIsEvent DEF Changed
<1>3. /\ Ordered(events, attempt, refused) => Ordered(events', attempt, refused)
      /\ Clean(events, refused) => Clean(events', refused)
      /\ Sound(events, attempt, refused) => Sound(events', attempt, refused)
  BY <1>1, <1>2, AuthFacts, SoundMore
<1>4. UNCHANGED <<link, wire, refused, overtaken, forgotten>>
  BY DEF SignIn, SignOut, Renew, ghost
<1>5. stray => stray'
  BY DEF SignIn, SignOut, Renew, Become, ghost
<1> QED
  BY <1>1, <1>3, <1>4, <1>5, AuthAwaited, AuthWishes DEF Renewed

\* The call is answered with the token there is: not the call of the latest
\* attempt while that token is refused, as a forced one is asked before.
LEMMA CachedWishes ==
    ASSUME IInv, Agree, Issued, Wishes, NEW i \in DOMAIN fetches, AnswerCached(i)
    PROVE  Wishes'
<1> DEFINE f == fetches[i]
<1>1. /\ Answerable(i) /\ (~f.force \/ f.user = Nil) /\ fetches' = Without(fetches, i)
      /\ UNCHANGED <<link, wire, refused, cached, stray, overtaken, forgotten>>
  BY DEF AnswerCached, ghost
<1>2. PICK t \in Token \cup {Nil} :
        /\ IF f.user = Nil THEN t = Nil
           ELSE IF f.mine THEN t = cached
           ELSE t # Nil /\ t.user = f.user /\ t.epoch <= epoch
        /\ events' = Append(events, Fetched(f.attempt, t, FALSE))
  BY DEF AnswerCached
<1> DEFINE y == Fetched(f.attempt, t, FALSE)
<1>3. /\ y \in Event /\ y.kind = "fetched" /\ y.attempt = f.attempt /\ y.token = t
  BY FetchFacts, FetchedIsEvent DEF Fetched
<1>4. y.kind # "changed"
  BY <1>3
<1> HIDE DEF y
<1>5. events' = Append(events, y)
  BY <1>2 DEF y
<1>6. /\ Ordered(events, attempt, refused) => Ordered(events', attempt, refused)
      /\ Clean(events, refused) => Clean(events', refused)
  BY <1>3, <1>4, <1>5, AuthFacts, SoundMore
<1>7. ASSUME cached \in refused PROVE user # Nil /\ (f.mine => f.user = user /\ ~f.force)
  <2>1. cached \in Token /\ cached # Nil /\ cached.user \in Users
    BY <1>7, WireFacts DEF Token
  <2>2. user # Nil
    BY <2>1, NilIsNoUser DEF Agree, UserKnown, Account
  <2>3. f.mine => f.user = user
    BY DEF Agree, UserKnown, Mine
  <2> QED
    BY <1>1, <2>2, <2>3
<1>8. ASSUME Renewed
      PROVE  /\ \/ cached' \notin refused
                \/ /\ cached' = cached
                   /\ Wished(fetches, scheduled) => Wished(fetches', scheduled)
                   /\ ForcedFirst(fetches, attempt) => ForcedFirst(fetches', attempt)
             /\ ~stray' => Sound(events', attempt, refused)
  <2>1. \/ cached' \notin refused
        \/ /\ cached' = cached
           /\ Wished(fetches, scheduled) => Wished(fetches', scheduled)
           /\ ForcedFirst(fetches, attempt) => ForcedFirst(fetches', attempt)
    BY <1>1, <1>7, ForcedLess
  <2>2. ASSUME ~stray, y.attempt = attempt PROVE y.token \notin refused
    <3>1. f.user = user /\ f.mine
      BY <1>3, <2>2 DEF Agree, UserKnown, Own
    <3>2. CASE user = Nil
      BY <1>2, <1>3, <3>1, <3>2, WireFacts
    <3>3. CASE user # Nil
      <4>1. t = cached /\ ~f.force
        BY <1>1, <1>2, <3>1, <3>3
      <4>2. ~ForcedFirst(fetches, attempt)
        BY <1>1, <1>3, <2>2, <3>1, <4>1, AnsweredFirst
      <4> QED
        BY <1>3, <1>8, <4>1, <4>2 DEF Renewed
    <3> QED
      BY <3>2, <3>3
  <2>3. ~stray => Sound(events', attempt, refused)
    BY <1>3, <1>4, <1>5, <1>8, <2>2, AuthFacts, SoundMore DEF Renewed
  <2> QED
    BY <1>1, <2>1, <2>3
<1> QED
  BY <1>1, <1>6, <1>8, AuthAwaited, AuthWishes

\* A token is posted with the answer.
LEMMA SoundBoth ==
    ASSUME IInv, NEW t \in Token \cup {Nil}, t \notin refused, NEW y \in Event,
           y.kind = "fetched", ~y.error => y.token \notin refused
    PROVE  /\ \A d \in {Append(events, y), events \o <<Changed(t), y>>} :
                 /\ Ordered(events, attempt, refused) => Ordered(d, attempt, refused)
                 /\ Clean(events, refused) => Clean(d, refused)
                 /\ Sound(events, attempt, refused) => Sound(d, attempt, refused)
<1> DEFINE c == Append(events, Changed(t))
<1>1. Changed(t) \in Event /\ Changed(t).kind = "changed" /\ Changed(t).token = t
  BY ChangedIsEvent DEF Changed
<1>2. c \in Seq(Event) /\ events \o <<Changed(t), y>> = Append(c, y)
  BY <1>1, AuthFacts
<1>3. /\ Ordered(events, attempt, refused) => Ordered(c, attempt, refused)
      /\ Clean(events, refused) => Clean(c, refused)
      /\ Sound(events, attempt, refused) => Sound(c, attempt, refused)
  BY <1>1, AuthFacts, SoundMore
<1> HIDE DEF c
<1>4. /\ Ordered(c, attempt, refused) => Ordered(Append(c, y), attempt, refused)
      /\ Clean(c, refused) => Clean(Append(c, y), refused)
      /\ Sound(c, attempt, refused) => Sound(Append(c, y), attempt, refused)
  BY <1>2, SoundMore
<1>5. /\ Ordered(events, attempt, refused) => Ordered(Append(events, y), attempt, refused)
      /\ Clean(events, refused) => Clean(Append(events, y), refused)
      /\ Sound(events, attempt, refused) => Sound(Append(events, y), attempt, refused)
  BY AuthFacts, SoundMore
<1> QED
  BY <1>2, <1>3, <1>4, <1>5

\* The call is answered with a new token: the user's is not refused any longer.
LEMMA RefreshedWishes ==
    ASSUME IInv, Agree, Issued, Wishes, NEW i \in DOMAIN fetches, AnswerRefreshed(i)
    PROVE  Wishes'
<1> DEFINE f == fetches[i]
           t == Fresh(f.user)
           y == Fetched(f.attempt, t, FALSE)
<1>1. /\ f.user # Nil /\ fetches' = Without(fetches, i)
      /\ UNCHANGED <<link, wire, refused, stray, overtaken, forgotten>>
      /\ events' \in {Append(events, y), events \o <<Changed(t), y>>}
      /\ f.mine => cached' = t
      /\ ~f.mine => cached' = cached
  BY DEF AnswerRefreshed, ghost
<1>2. t \in Token /\ t \notin refused
  BY <1>1, FetchFacts, FreshAccount, FreshIssued
<1>3. y \in Event /\ y.kind = "fetched" /\ y.token = t
  BY <1>2, FetchFacts, FetchedIsEvent DEF Fetched
<1> HIDE DEF t, y
<1>4. /\ Ordered(events, attempt, refused) => Ordered(events', attempt, refused)
      /\ Clean(events, refused) => Clean(events', refused)
      /\ Sound(events, attempt, refused) => Sound(events', attempt, refused)
  BY <1>1, <1>2, <1>3, SoundBoth
<1>5. \/ cached' \notin refused
      \/ /\ cached' = cached
         /\ Wished(fetches, scheduled) => Wished(fetches', scheduled)
         /\ ForcedFirst(fetches, attempt) => ForcedFirst(fetches', attempt)
  BY <1>1, <1>2, ForcedLess
<1> QED
  BY <1>1, <1>4, <1>5, AuthAwaited, AuthWishes DEF Renewed

\* A call fails: a forced one is forgotten with it.
LEMMA FailsWishes ==
    ASSUME IInv, Agree, Issued, Wishes, NEW i \in DOMAIN fetches, FetchFails(i)
    PROVE  Wishes'
<1> DEFINE f == fetches[i]
           y == Fetched(f.attempt, Nil, TRUE)
<1>1. /\ UNCHANGED <<link, wire, refused, overtaken>>
      /\ forgotten' = (forgotten \/ f.force)
      /\ events' \in {Append(events, y), events \o <<Changed(Nil), y>>}
      /\ \/ cached' = Nil /\ stray'
         \/ fetches' = Without(fetches, i) /\ cached' = cached /\ stray' = stray
  BY DEF FetchFails
<1>2. y \in Event /\ y.kind = "fetched" /\ y.error
  BY FetchFacts, FetchedIsEvent DEF Fetched
<1> HIDE DEF y
<1>3. /\ Ordered(events, attempt, refused) => Ordered(events', attempt, refused)
      /\ Clean(events, refused) => Clean(events', refused)
      /\ Sound(events, attempt, refused) => Sound(events', attempt, refused)
  BY <1>1, <1>2, WireFacts, SoundBoth
<1>4. (forgotten => forgotten') /\ (f.force => forgotten')
  BY <1>1
<1>5. ASSUME ~forgotten'
      PROVE  \/ cached' \notin refused
             \/ /\ cached' = cached
                /\ Wished(fetches, scheduled) => Wished(fetches', scheduled)
                /\ ForcedFirst(fetches, attempt) => ForcedFirst(fetches', attempt)
  BY <1>1, <1>4, <1>5, ForcedLess, WireFacts
<1> QED
  BY <1>1, <1>3, <1>4, <1>5, AuthAwaited, AuthWishes DEF Renewed

\* At first no token was refused.
LEMMA InitWishes ==
    ASSUME Init
    PROVE  Wishes
BY DEF Init, Wishes, NoWish, ForcedLast, Forced, Passed, Ordered, Renewed, Sound

\* Every step keeps a refused token from being offered again.
LEMMA NextWishes ==
    ASSUME IInv, Agree, Issued, Wishes, [Next]_vars
    PROVE  Wishes'
<1>1. CASE Open \/ GoOnline \/ Nudge \/ GoOffline \/ Expire \/ UNCHANGED vars
  BY <1>1, IdleWishes
<1>2. CASE OnKill \/ ConnectFails \/ Lose
  BY <1>2, CloseWishes
<1>3. CASE OnAuthRevoked
  BY <1>3, RefusedWishes
<1>4. CASE ReceiveAuth
  BY <1>4, RefusedWishes, SendWishes
<1>5. CASE OnReady \/ Serve \/ Revoke
  BY <1>5, SendWishes
<1>6. CASE Retry
  BY <1>6, RetryWishes
<1>7. CASE OnToken
  BY <1>7, OnTokenWishes
<1>8. CASE RefreshAuthToken
  BY <1>8, RefreshWishes
<1>9. CASE (\E u \in Users : SignIn(u)) \/ SignOut \/ Renew
  BY <1>9, PostWishes
<1>10. CASE Answer \/ \E i \in DOMAIN fetches : FetchFails(i)
  BY <1>10, CachedWishes, RefreshedWishes, FailsWishes DEF Answer
<1> QED
  BY <1>1, <1>2, <1>3, <1>4, <1>5, <1>6, <1>7, <1>8, <1>9, <1>10 DEF Next, Receive

\* Each time the client is told that a token is not accepted, no connection is given
\* that token, or one refused before, until the retry that is to force a new one is
\* replaced, cancelled or fails ("We will refresh the token later on reconnect",
\* FPersistentConnection.m:529); but for the answer to an attempt made for a former
\* user, until the next token that was posted is taken.
THEOREM RefusedStaysRefused == Spec => []RefusedIsRefreshed
<1>1. Init => Issued /\ Wishes
  BY InitIssued, InitWishes
<1>2. IInv /\ Agree /\ Issued /\ Wishes /\ [Next]_vars => Issued' /\ Wishes'
  BY NextIssued, NextWishes
<1>3. IInv /\ Wishes => RefusedIsRefreshed
  BY DEF Wishes, Renewed, RefusedIsRefreshed
<1> QED
  BY <1>1, <1>2, <1>3, Inductive, Agreement, PTL DEF Spec

----------------------------------------------------------------------------
(* The tokens on the wire *)

\* Every set of numbers has a least one.
LEMMA Least ==
    ASSUME NEW S \in SUBSET Nat, S # {}
    PROVE  \E n \in S : \A m \in S : n <= m
<1>1. PICK x \in S : \A y \in S : ~(<<y, x>> \in OpToRel(<, Nat))
  BY NatLessThanWellFounded, WFMin
<1>2. \A y \in S : ~(y < x)
  BY <1>1 DEF OpToRel
<1> QED
  BY <1>2

\* A set of numbers with 0 and the successors of its elements has them all.
LEMMA Induct ==
    ASSUME NEW S \in SUBSET Nat, 0 \in S, \A n \in S : n + 1 \in S
    PROVE  S = Nat
<1>1. SUFFICES ASSUME Nat \ S # {} PROVE FALSE
  OBVIOUS
<1>2. PICK n \in Nat \ S : \A m \in Nat \ S : n <= m
  BY <1>1, Least
<1>3. n # 0 /\ n - 1 \in S
  BY <1>2
<1> QED
  BY <1>2, <1>3

\* The messages about tokens among the first i of q, given those before.
Found(q, i, before) == IF q[i].kind = "auth" THEN Append(before, q[i]) ELSE before

\* f is what is found in the first messages of q, up to k of them.
Finds(q, k, f) == f = [i \in 0..k |-> IF i = 0 THEN <<>> ELSE Found(q, i, f[i - 1])]

FindsOf(q) == CHOOSE f : Finds(q, Len(q), f)

\* The recursive definition of Asked has a solution.
LEMMA FindsExist ==
    ASSUME NEW q, NEW N \in Nat
    PROVE  \E f : Finds(q, N, f)
<1> DEFINE S == {k \in Nat : \E f : Finds(q, k, f)}
<1>1. 0 \in S
  <2> DEFINE f == [i \in 0..0 |-> <<>>]
  <2>1. f = [i \in 0..0 |-> IF i = 0 THEN <<>> ELSE Found(q, i, f[i - 1])]
    OBVIOUS
  <2> QED
    BY <2>1 DEF Finds
<1>2. ASSUME NEW k \in S PROVE k + 1 \in S
  <2>1. PICK f : Finds(q, k, f)
    OBVIOUS
  <2> DEFINE g == [i \in 0..(k + 1) |-> IF i = 0 THEN <<>> ELSE Found(q, i, f[i - 1])]
  <2>2. \A j \in 0..k : g[j] = f[j]
    BY <2>1 DEF Finds
  <2> HIDE DEF g
  <2>3. \A i \in 0..(k + 1) : i # 0 => i - 1 \in 0..k
    OBVIOUS
  <2> USE DEF g
  <2>4. g = [i \in 0..(k + 1) |-> IF i = 0 THEN <<>> ELSE Found(q, i, g[i - 1])]
    BY <2>2, <2>3
  <2> HIDE DEF g
  <2>5. Finds(q, k + 1, g)
    BY <2>4 DEF Finds
  <2> QED
    BY <2>5
<1>3. S = Nat
  <2> HIDE DEF S
  <2>1. S \in SUBSET Nat
    BY DEF S
  <2> QED
    BY <1>1, <1>2, <2>1, Induct
<1> QED
  BY <1>3

\* Asked is what its definition says.
LEMMA AskedIs ==
    ASSUME NEW S, NEW q \in Seq(S)
    PROVE  /\ Asked(q) = FindsOf(q)[Len(q)]
           /\ FindsOf(q)[0] = <<>>
           /\ \A i \in 1..Len(q) : FindsOf(q)[i] = Found(q, i, FindsOf(q)[i - 1])
<1>1. Len(q) \in Nat
  OBVIOUS
<1>2. \E f : Finds(q, Len(q), f)
  BY <1>1, FindsExist
<1>3. Finds(q, Len(q), FindsOf(q))
  BY <1>2 DEF FindsOf
<1>4. Asked(q) = FindsOf(q)[Len(q)]
  BY DEF Asked, FindsOf, Finds, Found
<1>5. 0 \in 0..Len(q) /\ \A i \in 1..Len(q) : i \in 0..Len(q) /\ i # 0
  BY <1>1
<1> QED
  BY <1>3, <1>4, <1>5 DEF Finds

\* Messages are found.
LEMMA FindsType ==
    ASSUME NEW S, NEW q \in Seq(S)
    PROVE  \A i \in 0..Len(q) : FindsOf(q)[i] \in Seq({m \in S : m.kind = "auth"})
<1> DEFINE T == {m \in S : m.kind = "auth"}
           f == FindsOf(q)
           I == {k \in Nat : k <= Len(q) => f[k] \in Seq(T)}
<1>1. f[0] = <<>> /\ \A i \in 1..Len(q) : f[i] = Found(q, i, f[i - 1])
  BY AskedIs
<1>2. Len(q) \in Nat /\ \A i \in 1..Len(q) : q[i] \in S
  OBVIOUS
<1> HIDE DEF f
<1>3. 0 \in I
  <2>1. <<>> \in Seq(T)
    OBVIOUS
  <2> QED
    BY <1>1, <2>1
<1>4. ASSUME NEW k \in I PROVE k + 1 \in I
  <2> SUFFICES ASSUME k + 1 <= Len(q) PROVE f[k + 1] \in Seq(T)
    OBVIOUS
  <2>1. k + 1 \in 1..Len(q) /\ (k + 1) - 1 = k /\ f[k] \in Seq(T)
    BY <1>2
  <2>2. f[k + 1] = Found(q, k + 1, f[k]) /\ q[k + 1] \in S
    BY <1>1, <1>2, <2>1
  <2>3. CASE q[k + 1].kind = "auth"
    BY <2>1, <2>2, <2>3 DEF Found
  <2>4. CASE q[k + 1].kind # "auth"
    BY <2>1, <2>2, <2>4 DEF Found
  <2> QED
    BY <2>3, <2>4
<1>5. I = Nat
  <2> HIDE DEF I
  <2>1. I \in SUBSET Nat
    BY DEF I
  <2> QED
    BY <1>3, <1>4, <2>1, Induct
<1>6. \A i \in 0..Len(q) : i \in Nat /\ i <= Len(q) /\ i \in I
  BY <1>2, <1>5
<1> QED
  BY <1>6 DEF f

\* Nothing is found in an empty sequence.
LEMMA AskedNothing == Asked(<<>>) = <<>>
<1>1. <<>> \in Seq({}) /\ Len(<<>>) = 0
  OBVIOUS
<1> QED
  BY <1>1, AskedIs

\* A message more.
LEMMA AskedAppend ==
    ASSUME NEW S, NEW q \in Seq(S), NEW x \in S
    PROVE  /\ Asked(q) \in Seq({m \in S : m.kind = "auth"})
           /\ Asked(Append(q, x)) =
                 IF x.kind = "auth" THEN Append(Asked(q), x) ELSE Asked(q)
<1> DEFINE r == Append(q, x)
           f == FindsOf(q)
           g == FindsOf(r)
           I == {k \in Nat : k <= Len(q) => g[k] = f[k]}
<1>1. /\ r \in Seq(S) /\ Len(r) = Len(q) + 1 /\ Len(q) \in Nat
      /\ \A i \in 1..Len(q) : r[i] = q[i]
      /\ r[Len(q) + 1] = x
  OBVIOUS
<1> HIDE DEF r
<1>2. /\ Asked(q) = f[Len(q)] /\ Asked(r) = g[Len(r)]
      /\ f[0] = <<>> /\ \A i \in 1..Len(q) : f[i] = Found(q, i, f[i - 1])
      /\ g[0] = <<>> /\ \A i \in 1..Len(r) : g[i] = Found(r, i, g[i - 1])
  BY <1>1, AskedIs
<1>3. Asked(q) \in Seq({m \in S : m.kind = "auth"})
  <2>1. Len(q) \in 0..Len(q)
    BY <1>1
  <2> QED
    BY <1>2, <2>1, FindsType
<1> HIDE DEF f, g
<1>4. 0 \in I
  BY <1>2
<1>5. ASSUME NEW k \in I PROVE k + 1 \in I
  <2> SUFFICES ASSUME k + 1 <= Len(q) PROVE g[k + 1] = f[k + 1]
    OBVIOUS
  <2>1. /\ k + 1 \in 1..Len(q) /\ k + 1 \in 1..Len(r) /\ (k + 1) - 1 = k
        /\ g[k] = f[k]
    BY <1>1
  <2> QED
    BY <1>1, <1>2, <2>1 DEF Found
<1>6. I = Nat
  <2> HIDE DEF I
  <2>1. I \in SUBSET Nat
    BY DEF I
  <2> QED
    BY <1>4, <1>5, <2>1, Induct
<1>7. g[Len(q)] = f[Len(q)]
  BY <1>1, <1>6
<1>8. Len(r) \in 1..Len(r) /\ Len(r) - 1 = Len(q)
  BY <1>1
<1>9. g[Len(r)] = Found(r, Len(r), f[Len(q)])
  BY <1>2, <1>7, <1>8
<1> QED
  BY <1>1, <1>2, <1>3, <1>9 DEF Found, r

\* Joining and appending.
LEMMA JoinAppend ==
    ASSUME NEW T, NEW a \in Seq(T), NEW b \in Seq(T), NEW x \in T
    PROVE  Append(a \o b, x) = a \o Append(b, x)
<1>1. a \o b \in Seq(T) /\ <<x>> \in Seq(T)
  OBVIOUS
<1>2. Append(a \o b, x) = (a \o b) \o <<x>>
  BY <1>1, AppendIsConcat
<1>3. Append(b, x) = b \o <<x>>
  BY AppendIsConcat
<1> QED
  BY <1>1, <1>2, <1>3, ConcatAssociative

\* A message taken.
LEMMA AskedTail ==
    ASSUME NEW S, NEW q \in Seq(S), q # <<>>
    PROVE  Asked(q) = IF Head(q).kind = "auth" THEN <<Head(q)>> \o Asked(Tail(q))
                      ELSE Asked(Tail(q))
<1> DEFINE r == Tail(q)
           T == {m \in S : m.kind = "auth"}
           pre == IF Head(q).kind = "auth" THEN <<Head(q)>> ELSE <<>>
           f == FindsOf(q)
           g == FindsOf(r)
           I == {k \in Nat : k <= Len(r) => f[k + 1] = pre \o g[k]}
<1>1. /\ Len(q) \in Nat /\ Len(q) > 0 /\ r \in Seq(S) /\ Len(r) = Len(q) - 1
      /\ \A i \in 1..Len(r) : r[i] = q[i + 1]
      /\ Head(q) = q[1] /\ q[1] \in S
  OBVIOUS
<1> HIDE DEF r
<1>2. /\ Asked(q) = f[Len(q)] /\ Asked(r) = g[Len(r)]
      /\ f[0] = <<>> /\ \A i \in 1..Len(q) : f[i] = Found(q, i, f[i - 1])
      /\ g[0] = <<>> /\ \A i \in 1..Len(r) : g[i] = Found(r, i, g[i - 1])
  BY <1>1, AskedIs
<1>3. \A i \in 0..Len(r) : g[i] \in Seq(T)
  BY <1>1, FindsType
<1>4. pre \in Seq(T) /\ pre \o <<>> = pre
  <2>1. CASE Head(q).kind = "auth"
    <3>1. Head(q) \in T
      BY <1>1, <2>1
    <3>2. <<Head(q)>> \in Seq(T)
      BY <3>1
    <3> QED
      BY <2>1, <3>2
  <2>2. CASE Head(q).kind # "auth"
    <3>1. <<>> \in Seq(T) /\ <<>> \o <<>> = <<>>
      OBVIOUS
    <3> QED
      BY <2>2, <3>1
  <2> QED
    BY <2>1, <2>2
<1>5. \A a, b \in Seq(T), x \in T : Append(a \o b, x) = a \o Append(b, x)
  <2> HIDE DEF T
  <2> QED
    BY JoinAppend
<1> HIDE DEF f, g
<1>6. 0 \in I
  <2>1. 1 \in 1..Len(q) /\ 1 - 1 = 0
    BY <1>1
  <2>2. f[1] = Found(q, 1, <<>>)
    BY <1>2, <2>1
  <2>3. Found(q, 1, <<>>) = pre
    BY <1>1 DEF Found
  <2>4. f[0 + 1] = pre \o g[0]
    BY <1>2, <1>4, <2>2, <2>3
  <2> QED
    BY <2>4
<1>7. ASSUME NEW k \in I PROVE k + 1 \in I
  <2> HIDE DEF pre
  <2> SUFFICES ASSUME k + 1 <= Len(r) PROVE f[(k + 1) + 1] = pre \o g[k + 1]
    OBVIOUS
  <2>1. /\ k \in Nat /\ k + 1 \in 1..Len(r) /\ (k + 1) + 1 \in 1..Len(q)
        /\ ((k + 1) + 1) - 1 = k + 1 /\ (k + 1) - 1 = k /\ k \in 0..Len(r)
        /\ f[k + 1] = pre \o g[k]
    BY <1>1
  <2>2. f[(k + 1) + 1] = Found(q, (k + 1) + 1, pre \o g[k])
    BY <1>2, <2>1
  <2>3. g[k + 1] = Found(r, k + 1, g[k]) /\ r[k + 1] = q[(k + 1) + 1]
    BY <1>1, <1>2, <2>1
  <2>4. g[k] \in Seq(T) /\ r[k + 1] \in S
    BY <1>1, <1>3, <2>1
  <2>5. CASE r[k + 1].kind = "auth"
    <3> DEFINE x == r[k + 1]
    <3>1. x \in T
      BY <2>4, <2>5
    <3> HIDE DEF x, T
    <3>2. Append(pre \o g[k], x) = pre \o Append(g[k], x)
      BY <1>4, <1>5, <2>4, <3>1
    <3> QED
      BY <2>2, <2>3, <2>5, <3>2 DEF Found, x
  <2>6. CASE r[k + 1].kind # "auth"
    BY <2>2, <2>3, <2>6 DEF Found
  <2> QED
    BY <2>5, <2>6
<1>8. I = Nat
  <2> HIDE DEF I
  <2>1. I \in SUBSET Nat
    BY DEF I
  <2> QED
    BY <1>6, <1>7, <2>1, Induct
<1>9. f[Len(r) + 1] = pre \o g[Len(r)]
  <2> HIDE DEF I
  <2>1. Len(r) \in I
    BY <1>1, <1>8
  <2>2. Len(r) <= Len(r)
    BY <1>1
  <2> HIDE DEF pre
  <2> USE DEF I
  <2> QED
    BY <2>1, <2>2
<1>10. Len(r) + 1 = Len(q) /\ Len(r) \in 0..Len(r)
  BY <1>1
<1>11. Asked(q) = pre \o Asked(r) /\ Asked(r) \in Seq(T)
  BY <1>2, <1>3, <1>9, <1>10
<1> QED
  BY <1>11 DEF r

----------------------------------------------------------------------------
(* The connection as RealtimeDatabase has it *)

Conn       == IF CanSend THEN state ELSE "down"
Sent(q)    == AuthRequests(Asked(q))
Replied(q) == AuthReplies(Asked(q))

TokenRequest(restore)   == [kind |-> "auth", restore |-> restore]
TokenReply(ok, restore) == [kind |-> "auth", ok |-> ok, restore |-> restore]

\* Nothing is left of an empty sequence.
LEMMA NothingSent == Sent(<<>>) = <<>> /\ Replied(<<>>) = <<>>
BY AskedNothing DEF Sent, Replied, AuthRequests, AuthReplies

\* A request more.
LEMMA SentMore ==
    ASSUME NEW q \in Seq(Request), NEW x \in Request
    PROVE  /\ Sent(q) \in Seq([kind : {"auth"}, restore : BOOLEAN])
           /\ x.kind = "auth" => Sent(Append(q, x)) = Append(Sent(q), TokenRequest(x.restore))
           /\ x.kind # "auth" => Sent(Append(q, x)) = Sent(q)
<1> DEFINE T == {m \in Request : m.kind = "auth"}
           a == Asked(q)
<1>1. a \in Seq(T)
  BY AskedAppend
<1>2. \A m \in T : m.restore \in BOOLEAN
  BY DEF Request, Unauth
<1>3. Asked(Append(q, x)) = IF x.kind = "auth" THEN Append(a, x) ELSE a
  BY AskedAppend
<1> HIDE DEF a
<1>4. Len(a) \in Nat /\ DOMAIN a = 1..Len(a) /\ \A i \in 1..Len(a) : a[i] \in T
  BY <1>1
<1>5. Sent(q) = [i \in 1..Len(a) |-> TokenRequest(a[i].restore)]
  BY <1>4 DEF Sent, AuthRequests, TokenRequest, a
<1>6. Sent(q) \in Seq([kind : {"auth"}, restore : BOOLEAN])
  BY <1>2, <1>4, <1>5 DEF TokenRequest
<1>7. ASSUME x.kind = "auth"
      PROVE  Sent(Append(q, x)) = Append(Sent(q), TokenRequest(x.restore))
  <2> DEFINE b == Append(a, x)
  <2>1. x \in T
    BY <1>7
  <2>2. /\ Len(b) = Len(a) + 1 /\ DOMAIN b = 1..(Len(a) + 1)
        /\ \A i \in 1..Len(a) : b[i] = a[i]
        /\ b[Len(a) + 1] = x
    BY <1>1, <1>4, <2>1
  <2> HIDE DEF b
  <2>3. Sent(Append(q, x)) = [i \in 1..(Len(a) + 1) |-> TokenRequest(b[i].restore)]
    BY <1>3, <1>7, <2>2 DEF Sent, AuthRequests, TokenRequest, b
  <2>4. Append(Sent(q), TokenRequest(x.restore))
        = [i \in 1..(Len(a) + 1) |-> IF i = Len(a) + 1 THEN TokenRequest(x.restore)
                                     ELSE TokenRequest(a[i].restore)]
    BY <1>4, <1>5
  <2>5. \A i \in 1..(Len(a) + 1) :
           TokenRequest(b[i].restore) = IF i = Len(a) + 1 THEN TokenRequest(x.restore)
                                        ELSE TokenRequest(a[i].restore)
    BY <1>4, <2>2
  <2> QED
    BY <2>3, <2>4, <2>5
<1>8. ASSUME x.kind # "auth" PROVE Sent(Append(q, x)) = Sent(q)
  BY <1>3, <1>8 DEF Sent, a
<1> QED
  BY <1>6, <1>7, <1>8

\* A request taken.
LEMMA SentLess ==
    ASSUME NEW q \in Seq(Request), q # <<>>
    PROVE  /\ Head(q).kind = "auth" =>
                 /\ Sent(q) # <<>> /\ Head(Sent(q)) = TokenRequest(Head(q).restore)
                 /\ Sent(Tail(q)) = Tail(Sent(q))
           /\ Head(q).kind # "auth" => Sent(Tail(q)) = Sent(q)
<1> DEFINE T == {m \in Request : m.kind = "auth"}
           x == Head(q)
           a == Asked(Tail(q))
<1>1. Tail(q) \in Seq(Request) /\ x \in Request
  OBVIOUS
<1>2. a \in Seq(T)
  BY <1>1, AskedAppend
<1>3. Asked(q) = IF x.kind = "auth" THEN <<x>> \o a ELSE a
  BY AskedTail
<1> HIDE DEF a, x
<1>4. Len(a) \in Nat /\ DOMAIN a = 1..Len(a)
  BY <1>2
<1>5. Sent(Tail(q)) = [i \in 1..Len(a) |-> TokenRequest(a[i].restore)]
  BY <1>4 DEF Sent, AuthRequests, TokenRequest, a
<1>6. ASSUME x.kind = "auth"
      PROVE  /\ Sent(q) # <<>> /\ Head(Sent(q)) = TokenRequest(x.restore)
             /\ Sent(Tail(q)) = Tail(Sent(q))
  <2> DEFINE b == <<x>> \o a
  <2>1. x \in T
    BY <1>1, <1>6
  <2>2. /\ Len(b) = Len(a) + 1 /\ DOMAIN b = 1..(Len(a) + 1)
        /\ b[1] = x /\ \A i \in 1..Len(a) : b[i + 1] = a[i]
    BY <1>2, <1>4, <2>1
  <2> HIDE DEF b
  <2>3. Sent(q) = [i \in 1..(Len(a) + 1) |-> TokenRequest(b[i].restore)]
    BY <1>3, <1>6, <2>2 DEF Sent, AuthRequests, TokenRequest, b
  <2>4. Sent(q) # <<>> /\ Head(Sent(q)) = TokenRequest(x.restore)
    BY <1>4, <2>2, <2>3
  <2>5. Tail(Sent(q)) = [i \in 1..Len(a) |-> TokenRequest(b[i + 1].restore)]
    BY <1>4, <2>3
  <2> QED
    BY <1>5, <2>2, <2>4, <2>5
<1>7. ASSUME x.kind # "auth" PROVE Sent(Tail(q)) = Sent(q)
  BY <1>3, <1>7 DEF Sent, a
<1> QED
  BY <1>6, <1>7 DEF x

\* An answer more.
LEMMA RepliedMore ==
    ASSUME NEW q \in Seq(Message), NEW x \in Message
    PROVE  /\ Replied(q) \in Seq([kind : {"auth"}, ok : BOOLEAN, restore : BOOLEAN])
           /\ x.kind = "auth" => Replied(Append(q, x)) = Append(Replied(q), TokenReply(x.ok, x.restore))
           /\ x.kind # "auth" => Replied(Append(q, x)) = Replied(q)
<1> DEFINE T == {m \in Message : m.kind = "auth"}
           a == Asked(q)
<1>1. a \in Seq(T)
  BY AskedAppend
<1>2. \A m \in T : m.ok \in BOOLEAN /\ m.restore \in BOOLEAN
  BY DEF Message
<1>3. Asked(Append(q, x)) = IF x.kind = "auth" THEN Append(a, x) ELSE a
  BY AskedAppend
<1> HIDE DEF a
<1>4. Len(a) \in Nat /\ DOMAIN a = 1..Len(a) /\ \A i \in 1..Len(a) : a[i] \in T
  BY <1>1
<1>5. Replied(q) = [i \in 1..Len(a) |-> TokenReply(a[i].ok, a[i].restore)]
  BY <1>4 DEF Replied, AuthReplies, TokenReply, a
<1>6. Replied(q) \in Seq([kind : {"auth"}, ok : BOOLEAN, restore : BOOLEAN])
  BY <1>2, <1>4, <1>5 DEF TokenReply
<1>7. ASSUME x.kind = "auth"
      PROVE  Replied(Append(q, x)) = Append(Replied(q), TokenReply(x.ok, x.restore))
  <2> DEFINE b == Append(a, x)
  <2>1. x \in T
    BY <1>7
  <2>2. /\ Len(b) = Len(a) + 1 /\ DOMAIN b = 1..(Len(a) + 1)
        /\ \A i \in 1..Len(a) : b[i] = a[i]
        /\ b[Len(a) + 1] = x
    BY <1>1, <1>4, <2>1
  <2> HIDE DEF b
  <2>3. Replied(Append(q, x)) = [i \in 1..(Len(a) + 1) |-> TokenReply(b[i].ok, b[i].restore)]
    BY <1>3, <1>7, <2>2 DEF Replied, AuthReplies, TokenReply, b
  <2>4. Append(Replied(q), TokenReply(x.ok, x.restore))
        = [i \in 1..(Len(a) + 1) |-> IF i = Len(a) + 1 THEN TokenReply(x.ok, x.restore)
                                     ELSE TokenReply(a[i].ok, a[i].restore)]
    BY <1>4, <1>5
  <2>5. \A i \in 1..(Len(a) + 1) :
           TokenReply(b[i].ok, b[i].restore) = IF i = Len(a) + 1 THEN TokenReply(x.ok, x.restore)
                                        ELSE TokenReply(a[i].ok, a[i].restore)
    BY <1>4, <2>2
  <2> QED
    BY <2>3, <2>4, <2>5
<1>8. ASSUME x.kind # "auth" PROVE Replied(Append(q, x)) = Replied(q)
  BY <1>3, <1>8 DEF Replied, a
<1> QED
  BY <1>6, <1>7, <1>8

\* An answer taken.
LEMMA RepliedLess ==
    ASSUME NEW q \in Seq(Message), q # <<>>
    PROVE  /\ Head(q).kind = "auth" =>
                 /\ Replied(q) # <<>> /\ Head(Replied(q)) = TokenReply(Head(q).ok, Head(q).restore)
                 /\ Replied(Tail(q)) = Tail(Replied(q))
           /\ Head(q).kind # "auth" => Replied(Tail(q)) = Replied(q)
<1> DEFINE T == {m \in Message : m.kind = "auth"}
           x == Head(q)
           a == Asked(Tail(q))
<1>1. Tail(q) \in Seq(Message) /\ x \in Message
  OBVIOUS
<1>2. a \in Seq(T)
  BY <1>1, AskedAppend
<1>3. Asked(q) = IF x.kind = "auth" THEN <<x>> \o a ELSE a
  BY AskedTail
<1> HIDE DEF a, x
<1>4. Len(a) \in Nat /\ DOMAIN a = 1..Len(a)
  BY <1>2
<1>5. Replied(Tail(q)) = [i \in 1..Len(a) |-> TokenReply(a[i].ok, a[i].restore)]
  BY <1>4 DEF Replied, AuthReplies, TokenReply, a
<1>6. ASSUME x.kind = "auth"
      PROVE  /\ Replied(q) # <<>> /\ Head(Replied(q)) = TokenReply(x.ok, x.restore)
             /\ Replied(Tail(q)) = Tail(Replied(q))
  <2> DEFINE b == <<x>> \o a
  <2>1. x \in T
    BY <1>1, <1>6
  <2>2. /\ Len(b) = Len(a) + 1 /\ DOMAIN b = 1..(Len(a) + 1)
        /\ b[1] = x /\ \A i \in 1..Len(a) : b[i + 1] = a[i]
    BY <1>2, <1>4, <2>1
  <2> HIDE DEF b
  <2>3. Replied(q) = [i \in 1..(Len(a) + 1) |-> TokenReply(b[i].ok, b[i].restore)]
    BY <1>3, <1>6, <2>2 DEF Replied, AuthReplies, TokenReply, b
  <2>4. Replied(q) # <<>> /\ Head(Replied(q)) = TokenReply(x.ok, x.restore)
    BY <1>4, <2>2, <2>3
  <2>5. Tail(Replied(q)) = [i \in 1..Len(a) |-> TokenReply(b[i + 1].ok, b[i + 1].restore)]
    BY <1>4, <2>3
  <2> QED
    BY <1>5, <2>2, <2>4, <2>5
<1>7. ASSUME x.kind # "auth" PROVE Replied(Tail(q)) = Replied(q)
  BY <1>3, <1>7 DEF Replied, a
<1> QED
  BY <1>6, <1>7 DEF x

----------------------------------------------------------------------------
(* Steps of RealtimeDatabase *)

\* Nothing changes for RealtimeDatabase.
LEMMA LinkStutters ==
    ASSUME Conn' = Conn, Sent(up)' = Sent(up), Replied(down)' = Replied(down), faults' = faults
    PROVE  UNCHANGED Database!vars
BY DEF Database!vars, Database!client, Only, Conn, Sent, Replied

\* A token is sent first.
LEMMA LinkConnects ==
    ASSUME Conn = "down", Conn' = "authenticating", Sent(up)' = <<TokenRequest(TRUE)>>,
           Replied(down)' = Replied(down), faults' = faults
    PROVE  Database!Next
<1>1. Database!Connect("client")
  BY DEF Database!Connect, Database!Auth, Only, Conn, Sent, Replied, TokenRequest
<1> QED
  BY <1>1 DEF Database!Next

\* A client without listens and puts has nothing to send again.
LEMMA NothingRestored == Database!Restored("client") = {<<>>}
<1>1. Database!InOrder({}, 0) = {<<>>}
  <2>1. \A q \in Database!InOrder({}, 0) : q = <<>>
    BY DEF Database!InOrder, Database!SeqOf
  <2>2. <<>> \in Database!InOrder({}, 0)
    BY DEF Database!InOrder, Database!SeqOf, Database!Ordered, Database!ToSet
  <2> QED
    BY <2>1, <2>2
<1>2. Database!SentAgain(<<>>, <<>>) = <<>>
  BY DEF Database!SentAgain
<1>3. Database!Restored("client")
      = {Database!SentAgain(r, p) : r \in Database!InOrder({}, 0), p \in Database!InOrder({}, 0)}
  BY DEF Database!Restored, Only
<1> QED
  BY <1>1, <1>2, <1>3

\* It counts nothing.
LEMMA NothingCounted == Database!Cardinality({}) = 0
BY FS_EmptySet DEF Database!Cardinality

\* There is no token to be sent.
LEMMA LinkOpens ==
    ASSUME Conn = "down", Conn' = "connected", Sent(up)' = <<>>,
           Replied(down)' = Replied(down), faults' = faults
    PROVE  Database!Next
<1>1. Only(Conn)' = [Only(Conn) EXCEPT !["client"] = "connected"]
  BY DEF Only
<1>2. <<>> \in Database!Restored("client")
  BY NothingRestored
<1>3. Only(Sent(up))' = [Only(Sent(up)) EXCEPT !["client"] = <<>>]
  BY DEF Only
<1>4. Only(0)' = [Only(0) EXCEPT !["client"] = Only(0)["client"]
                                               + Database!Cardinality(Only({})["client"])]
  BY NothingCounted DEF Only
<1>5. /\ Only(Conn)["client"] = "down"
      /\ UNCHANGED <<Only(0), Only({}), Only(Replied(down)), Only(Nil), faults>>
  BY DEF Only
<1>6. Database!Connect("client")
  BY <1>1, <1>2, <1>3, <1>4, <1>5 DEF Database!Connect, Conn, Sent, Replied
<1> QED
  BY <1>6 DEF Database!Next

\* The connection is closed or lost.
LEMMA LinkCloses ==
    ASSUME Conn # "down", Conn' = "down", Sent(up)' = <<>>, Replied(down)' = <<>>,
           faults < ManyFaults, faults' = faults + 1
    PROVE  Database!Next
<1>1. Database!Disconnect("client")
  BY DEF Database!Disconnect, Database!Disconnected, Database!Fault, Only, Conn, Sent, Replied
<1> QED
  BY <1>1 DEF Database!Next

\* Another token is sent.
LEMMA LinkChanges ==
    ASSUME Conn # "down", Conn' = Conn, Sent(up)' = Append(Sent(up), TokenRequest(FALSE)),
           Replied(down)' = Replied(down), faults < ManyFaults, faults' = faults + 1
    PROVE  Database!Next
<1>1. Database!ChangeToken("client")
  BY DEF Database!ChangeToken, Database!Fault, Database!Auth, TokenRequest, Only, Conn, Sent,
         Replied
<1> QED
  BY <1>1 DEF Database!Next, Database!App

\* The server answers.
LEMMA LinkServes ==
    ASSUME NEW ok \in BOOLEAN, NEW restore \in BOOLEAN,
           Sent(up) # <<>>, Head(Sent(up)) = TokenRequest(restore), Sent(up)' = Tail(Sent(up)),
           Replied(down)' = Append(Replied(down), TokenReply(ok, restore)),
           NEW S, Replied(down) \in Seq(S), TokenReply(ok, restore) \in S,
           Conn' = Conn, faults < ManyFaults, faults' = faults
    PROVE  Database!Next
<1>1. Replied(down)' = Replied(down) \o <<TokenReply(ok, restore)>>
  BY AppendIsConcat
<1> DEFINE answers == <<Database!AuthReply(ok, Head(Only(Sent(up))["client"]).restore)>>
<1>2. answers = <<TokenReply(ok, restore)>>
  BY DEF Database!AuthReply, TokenRequest, TokenReply, Only
<1>3. Database!Answer("client", answers)
  <2> HIDE DEF answers
  <2> QED
    BY <1>1, <1>2 DEF Database!Answer, Database!client, Only, Conn, Sent, Replied
<1>4. /\ Only(Sent(up))["client"] # <<>> /\ Head(Only(Sent(up))["client"]).kind = "auth"
      /\ ok \/ faults < ManyFaults
  BY DEF TokenRequest, Only
<1>5. Database!ServeAuth("client")
  BY <1>3, <1>4 DEF Database!ServeAuth, Sent
<1> QED
  BY <1>5 DEF Database!Next, Database!Serve

\* An accepted token.
LEMMA LinkAccepted ==
    ASSUME NEW restore \in BOOLEAN,
           Replied(down) # <<>>, Head(Replied(down)) = TokenReply(TRUE, restore),
           Replied(down)' = Tail(Replied(down)), NEW S, Sent(up) \in Seq(S),
           Sent(up)' = Sent(up), Conn' = "connected", faults' = faults
    PROVE  Database!Next
<1> DEFINE m == Head(Only(Replied(down))["client"])
<1>1. Only(Replied(down))["client"] # <<>> /\ m.kind = "auth" /\ m.ok
  BY DEF TokenReply, Only
<1>2. /\ Only(Conn)' = [Only(Conn) EXCEPT !["client"] = "connected"]
      /\ Only(Replied(down))' = [Only(Replied(down)) EXCEPT !["client"] = Tail(@)]
  BY DEF Only
<1>3. Sent(up) \o <<>> = Sent(up)
  OBVIOUS
<1>4. /\ <<>> \in Database!Restored("client")
      /\ Only(Sent(up))' = [Only(Sent(up)) EXCEPT !["client"] = @ \o <<>>]
  BY <1>3, NothingRestored DEF Only
<1>5. Only(0)' = [Only(0) EXCEPT !["client"] = Only(0)["client"]
                                               + Database!Cardinality(Only({})["client"])]
  BY NothingCounted DEF Only
<1>6. UNCHANGED <<Only(Sent(up)), Only(0), Only({}), Only(Nil), faults>>
  BY DEF Only
<1> HIDE DEF m
<1>7. Database!ReceiveAuth("client")
  BY <1>1, <1>2, <1>4, <1>5, <1>6 DEF Database!ReceiveAuth, Database!Receives, m, Conn, Sent, Replied
<1> QED
  BY <1>7 DEF Database!Next, Database!Receive

\* A refused one.
LEMMA LinkRefused ==
    ASSUME NEW restore \in BOOLEAN,
           Replied(down) # <<>>, Head(Replied(down)) = TokenReply(FALSE, restore),
           Sent(up)' = <<>>, Replied(down)' = <<>>, Conn' = "down", faults' = faults + 1
    PROVE  Database!Next
<1> DEFINE m == Head(Only(Replied(down))["client"])
<1>1. Only(Replied(down))["client"] # <<>> /\ m.kind = "auth" /\ ~m.ok
  BY DEF TokenReply, Only
<1>2. Database!Disconnected("client") /\ UNCHANGED Only(Nil)
  BY DEF Database!Disconnected, Only, Conn, Sent, Replied
<1> HIDE DEF m
<1>3. Database!ReceiveAuth("client")
  BY <1>1, <1>2 DEF Database!ReceiveAuth, Database!Receives, m, Sent, Replied
<1> QED
  BY <1>3 DEF Database!Next, Database!Receive

----------------------------------------------------------------------------
(* The steps of the connection *)

DatabaseStep == Database!Next \/ UNCHANGED Database!vars

\* Nothing is on a connection that cannot be used.
LEMMA DownLink ==
    ASSUME IInv, ~CanSend
    PROVE  Conn = "down" /\ up = <<>> /\ down = <<>> /\ Sent(up) = <<>> /\ Replied(down) = <<>>
BY NothingSent DEF IInv, Link, LinkOK, NothingLeft, Conn

\* A connection that can be used is not down.
LEMMA UpLink ==
    ASSUME CanSend
    PROVE  Conn = state /\ Conn # "down"
BY DEF CanSend, Conn

\* The state of the connection stays.
LEMMA IdleStep ==
    ASSUME UNCHANGED <<state, up, down, faults>>
    PROVE  DatabaseStep
<1>1. Conn' = Conn /\ Sent(up)' = Sent(up) /\ Replied(down)' = Replied(down)
  BY DEF Conn, CanSend, Sent, Replied
<1> QED
  BY <1>1, LinkStutters DEF DatabaseStep

\* The client is not connected, before and after.
LEMMA DownStep ==
    ASSUME IInv, IInv', ~CanSend, ~CanSend', faults' = faults
    PROVE  DatabaseStep
<1>1. Conn = "down" /\ Sent(up) = <<>> /\ Replied(down) = <<>>
  BY DownLink
<1>2. Conn' = "down" /\ Sent(up)' = <<>> /\ Replied(down)' = <<>>
  BY NothingSent DEF IInv, Link, LinkOK, NothingLeft, Conn, Sent, Replied
<1> QED
  BY <1>1, <1>2, LinkStutters DEF DatabaseStep

\* The connection is closed.
LEMMA CloseStep ==
    ASSUME IInv, IInv', faults < ManyFaults, NEW rs, NEW force, OnDisconnect(rs, force)
    PROVE  DatabaseStep
<1>1. /\ ~CanSend' /\ Conn' = "down" /\ Sent(up)' = <<>> /\ Replied(down)' = <<>>
      /\ faults' = IF CanSend THEN faults + 1 ELSE faults
  BY NothingSent DEF OnDisconnect, CanSend, Conn, Sent, Replied
<1>2. CASE CanSend
  BY <1>1, <1>2, UpLink, LinkCloses DEF DatabaseStep
<1>3. CASE ~CanSend
  BY <1>1, <1>3, DownStep
<1> QED
  BY <1>2, <1>3

\* The client is interrupted.
LEMMA InterruptStep ==
    ASSUME IInv, IInv', faults < ManyFaults, NEW r, InterruptForReason(r)
    PROVE  DatabaseStep
<1>1. CASE realtime # "none"
  BY <1>1, CloseStep DEF InterruptForReason
<1>2. CASE realtime = "none"
  <2>1. ~CanSend
    BY <1>2 DEF IInv, Link, LinkOK, SendsAreSafe
  <2>2. ~CanSend' /\ faults' = faults
    BY <1>2 DEF InterruptForReason, CanSend
  <2> QED
    BY <2>1, <2>2, DownStep
<1> QED
  BY <1>1, <1>2

\* A retry asks for a token, and its answer opens a connection.
LEMMA OpenStep ==
    ASSUME IInv, IInv', Retry \/ OnToken
    PROVE  DatabaseStep
<1>1. CASE Retry
  <2>1. ~CanSend
    BY <1>1 DEF Retry, IInv, Link, LinkOK, ReconnectIsScheduled, CanSend
  <2>2. ~CanSend' /\ faults' = faults
    BY <1>1 DEF Retry, CanSend
  <2> QED
    BY <2>1, <2>2, DownStep
<1>2. CASE OnToken
  <2> DEFINE e == Head(events)
  <2>1. UNCHANGED <<up, down, faults>>
    BY <1>2 DEF OnToken, wire
  <2>2. CASE e.attempt = attempt /\ e.error
    <3>1. events # <<>> /\ e.kind = "fetched" /\ events \in Seq(Event)
      BY <1>2 DEF OnToken, IInv, RestTypes
    <3>2. 1 \in DOMAIN events /\ e = events[1]
      BY <3>1, Taken
    <3>3. Awaited(fetches, events, attempt)
      BY <2>2, <3>1, <3>2 DEF Awaited
    <3>4. ~CanSend
      BY <3>3 DEF IInv, Expected, CanSend
    <3>5. ~CanSend'
      BY <1>2, <2>2 DEF OnToken, CanSend
    <3> QED
      BY <2>1, <3>4, <3>5, DownStep
  <2>3. CASE e.attempt = attempt /\ ~e.error /\ state = "gettingToken"
    <3>1. ~CanSend /\ ~CanSend'
      BY <1>2, <2>3 DEF OnToken, CanSend
    <3> QED
      BY <2>1, <3>1, DownStep
  <2>4. CASE e.attempt # attempt \/ (~e.error /\ state # "gettingToken")
    <3>1. state' = state
      BY <1>2, <2>4 DEF OnToken
    <3> QED
      BY <2>1, <3>1, IdleStep
  <2> QED
    BY <2>2, <2>3, <2>4
<1> QED
  BY <1>1, <1>2

\* The server's handshake.
LEMMA OnReadyStep ==
    ASSUME IInv, IInv', OnReady
    PROVE  DatabaseStep
<1>1. ~CanSend
  BY DEF OnReady, IInv, Link, LinkOK, SendsAreSafe, CanSend
<1>2. Conn = "down" /\ up = <<>> /\ down = <<>> /\ Sent(up) = <<>> /\ Replied(down) = <<>>
  BY <1>1, DownLink
<1>3. UNCHANGED <<down, faults>> /\ Replied(down)' = Replied(down)
  BY DEF OnReady, Replied
<1>4. CASE authToken = Nil
  <2>1. Conn' = "connected" /\ Sent(up)' = <<>>
    BY <1>2, <1>4 DEF OnReady, Conn, CanSend, Sent
  <2> QED
    BY <1>2, <1>3, <2>1, LinkOpens DEF DatabaseStep
<1>5. CASE authToken # Nil
  <2> DEFINE x == Authenticate(authToken, TRUE)
  <2>1. x \in Request /\ x.kind = "auth" /\ x.restore
    BY <1>5 DEF IInv, RestTypes, Authenticate, Request
  <2>2. Conn' = "authenticating" /\ up' = Append(<<>>, x)
    BY <1>2, <1>5 DEF OnReady, Conn, CanSend
  <2> HIDE DEF x
  <2>3. <<>> \in Seq(Request)
    OBVIOUS
  <2>4. Sent(Append(<<>>, x)) = Append(Sent(<<>>), TokenRequest(x.restore))
    BY <2>1, <2>3, SentMore
  <2>5. Sent(up)' = <<TokenRequest(TRUE)>>
    BY <2>1, <2>2, <2>4, NothingSent DEF TokenRequest, Sent
  <2> QED
    BY <1>2, <1>3, <2>2, <2>5, LinkConnects DEF DatabaseStep
<1> QED
  BY <1>4, <1>5

\* Firebase Auth's token is sent.
LEMMA RefreshStep ==
    ASSUME IInv, IInv', faults < ManyFaults, RefreshAuthToken
    PROVE  DatabaseStep
<1> DEFINE t == Head(events).token
           x == IF t = Nil THEN Unauth ELSE Authenticate(t, FALSE)
<1>1. /\ UNCHANGED <<state, down>>
      /\ up' = IF CanSend THEN Append(up, x) ELSE up
      /\ faults' = IF CanSend /\ t # Nil THEN faults + 1 ELSE faults
  BY DEF RefreshAuthToken
<1>2. t \in Token \cup {Nil}
  <2>1. events \in Seq(Event) /\ events # <<>> /\ Head(events).kind = "changed"
    BY DEF RefreshAuthToken, IInv, RestTypes
  <2>2. Head(events) \in Event
    BY <2>1, Taken
  <2> QED
    BY <2>1, <2>2 DEF Event
<1>3. up \in Seq(Request)
  BY DEF IInv, Link, LinkTypes
<1> HIDE DEF t
<1>4. CASE ~CanSend
  BY <1>1, <1>4, IdleStep
<1>5. CASE CanSend /\ t = Nil
  <2>1. x \in Request /\ x.kind # "auth"
    BY <1>5 DEF Unauth, Request
  <2> HIDE DEF x
  <2>2. Sent(Append(up, x)) = Sent(up)
    BY <1>3, <2>1, SentMore
  <2>3. Sent(up)' = Sent(up) /\ Conn' = Conn /\ Replied(down)' = Replied(down) /\ faults' = faults
    BY <1>1, <1>5, <2>2 DEF Conn, CanSend, Sent, Replied
  <2> QED
    BY <2>3, LinkStutters DEF DatabaseStep
<1>6. CASE CanSend /\ t # Nil
  <2>1. x \in Request /\ x.kind = "auth" /\ x.restore = FALSE
    BY <1>2, <1>6 DEF Authenticate, Request
  <2> HIDE DEF x
  <2>2. Sent(Append(up, x)) = Append(Sent(up), TokenRequest(FALSE))
    BY <1>3, <2>1, SentMore
  <2>3. /\ Sent(up)' = Append(Sent(up), TokenRequest(FALSE)) /\ Conn' = Conn
        /\ Replied(down)' = Replied(down) /\ faults' = faults + 1
    BY <1>1, <1>6, <2>2 DEF Conn, CanSend, Sent, Replied
  <2> QED
    BY <1>6, <2>3, UpLink, LinkChanges DEF DatabaseStep
<1> QED
  BY <1>4, <1>5, <1>6

\* What is on the wire was sent over a connection that can be used.
LEMMA WireUp ==
    ASSUME IInv, up # <<>> \/ down # <<>> \/ session # Nil
    PROVE  CanSend
BY DEF IInv, Link, LinkOK, NothingLeft

\* The client hears of a token.
LEMMA ReceiveStep ==
    ASSUME IInv, IInv', faults < ManyFaults, Receive
    PROVE  DatabaseStep
<1> DEFINE m == Head(down)
<1>1. down \in Seq(Message) /\ down # <<>> /\ up \in Seq(Request) /\ CanSend
  BY WireUp DEF Receive, ReceiveAuth, OnAuthRevoked, IInv, Link, LinkTypes
<1>2. CASE OnAuthRevoked
  BY <1>2, CloseStep DEF OnAuthRevoked
<1>3. CASE ReceiveAuth
  <2>1. m \in Message /\ m.kind = "auth"
    BY <1>1, <1>3, Taken DEF ReceiveAuth
  <2>2. m.ok \in BOOLEAN /\ m.restore \in BOOLEAN
    BY <2>1 DEF Message
  <2>3. /\ Replied(down) # <<>> /\ Head(Replied(down)) = TokenReply(m.ok, m.restore)
        /\ Replied(Tail(down)) = Tail(Replied(down))
    BY <1>1, <2>1, RepliedLess
  <2>4. CASE m.ok
    <3>1. /\ state' = "connected" /\ down' = Tail(down) /\ UNCHANGED <<up, faults>>
      BY <1>3, <2>4 DEF ReceiveAuth
    <3>2. Sent(up) \in Seq([kind : {"auth"}, restore : BOOLEAN])
      <4>1. Unauth \in Request
        BY DEF Request
      <4> QED
        BY <1>1, <4>1, SentMore
    <3>3. /\ Head(Replied(down)) = TokenReply(TRUE, m.restore)
          /\ Conn' = "connected" /\ Replied(down)' = Tail(Replied(down))
          /\ Sent(up)' = Sent(up) /\ faults' = faults
      BY <2>2, <2>3, <2>4, <3>1 DEF Conn, CanSend, Sent, Replied
    <3> HIDE DEF m
    <3> QED
      BY <2>2, <2>3, <3>2, <3>3, LinkAccepted DEF DatabaseStep
  <2>5. CASE ~m.ok
    <3>1. OnDisconnect(reasons, TRUE)
      BY <1>3, <2>5 DEF ReceiveAuth
    <3> QED
      BY <3>1, CloseStep
  <2> QED
    BY <2>4, <2>5
<1> QED
  BY <1>2, <1>3 DEF Receive

\* The server takes a request.
LEMMA ServeStep ==
    ASSUME IInv, IInv', faults < ManyFaults, Serve
    PROVE  DatabaseStep
<1> DEFINE m == Head(up)
<1>1. down \in Seq(Message) /\ up # <<>> /\ up \in Seq(Request)
  BY DEF Serve, IInv, Link, LinkTypes
<1>2. m \in Request
  BY <1>1, Taken
<1>3. up' = Tail(up) /\ UNCHANGED <<state, faults>>
  BY DEF Serve, link
<1>4. CASE m.kind = "unauth"
  <2>1. down' = down /\ Sent(Tail(up)) = Sent(up)
    BY <1>1, <1>4, SentLess DEF Serve
  <2>2. Sent(up)' = Sent(up) /\ Conn' = Conn /\ Replied(down)' = Replied(down)
    BY <1>3, <2>1 DEF Conn, CanSend, Sent, Replied
  <2> QED
    BY <1>3, <2>2, LinkStutters DEF DatabaseStep
<1>5. CASE m.kind # "unauth"
  <2> DEFINE ok == m.token.epoch = epoch
             x  == Reply(ok, m)
  <2>1. m.kind = "auth" /\ m.token \in Token /\ m.restore \in BOOLEAN
    BY <1>2, <1>5 DEF Request, Unauth
  <2>2. down' = Append(down, x)
    BY <1>5 DEF Serve
  <2>3. ok \in BOOLEAN
    OBVIOUS
  <2> HIDE DEF ok, m
  <2>4. x \in Message /\ x.kind = "auth" /\ x.ok = ok /\ x.restore = m.restore
    BY <2>1, <2>3 DEF Reply, Message
  <2> HIDE DEF x
  <2>5. /\ Replied(Append(down, x)) = Append(Replied(down), TokenReply(ok, m.restore))
        /\ Replied(down) \in Seq([kind : {"auth"}, ok : BOOLEAN, restore : BOOLEAN])
    BY <1>1, <2>4, RepliedMore
  <2>6. /\ Sent(up) # <<>> /\ Head(Sent(up)) = TokenRequest(m.restore)
        /\ Sent(Tail(up)) = Tail(Sent(up))
    BY <1>1, <2>1, SentLess DEF m
  <2>7. TokenReply(ok, m.restore) \in [kind : {"auth"}, ok : BOOLEAN, restore : BOOLEAN]
    BY <2>1, <2>3 DEF TokenReply
  <2>8. /\ Sent(up)' = Tail(Sent(up)) /\ Conn' = Conn
        /\ Replied(down)' = Append(Replied(down), TokenReply(ok, m.restore))
    BY <1>3, <2>2, <2>5, <2>6 DEF Conn, CanSend, Sent, Replied
  <2> QED
    BY <1>3, <2>1, <2>3, <2>5, <2>6, <2>7, <2>8, LinkServes DEF DatabaseStep
<1> QED
  BY <1>4, <1>5

\* The server forgets the connection's user.
LEMMA RevokeStep ==
    ASSUME IInv, IInv', Revoke
    PROVE  DatabaseStep
<1> DEFINE x == Revoked(session)
<1>1. /\ down \in Seq(Message) /\ session \in Token /\ down' = Append(down, x)
      /\ UNCHANGED <<state, up, faults>>
  BY DEF Revoke, IInv, Link, LinkTypes, link
<1>2. x \in Message /\ x.kind # "auth"
  BY <1>1 DEF Revoked, Message
<1> HIDE DEF x
<1>3. Replied(Append(down, x)) = Replied(down)
  BY <1>1, <1>2, RepliedMore
<1>4. Sent(up)' = Sent(up) /\ Conn' = Conn /\ Replied(down)' = Replied(down)
  BY <1>1, <1>3 DEF Conn, CanSend, Sent, Replied
<1> QED
  BY <1>1, <1>4, LinkStutters DEF DatabaseStep

\* A step is a step of RealtimeDatabase, or none.
LEMMA LinkStep ==
    ASSUME IInv, IInv', faults < ManyFaults, [Next]_vars
    PROVE  DatabaseStep
<1>1. CASE UNCHANGED vars
  BY <1>1, IdleStep DEF vars, link, wire
<1>2. CASE Open \/ GoOnline \/ Nudge
  BY <1>2, IdleStep DEF Open, GoOnline, Nudge, ResumeForReason, wire
<1>3. CASE GoOffline \/ OnKill
  BY <1>3, InterruptStep DEF GoOffline, OnKill
<1>4. CASE ConnectFails \/ Lose
  BY <1>4, CloseStep DEF ConnectFails, Lose
<1>5. CASE (\E u \in Users : SignIn(u)) \/ SignOut \/ Renew \/ Expire
  BY <1>5, IdleStep DEF SignIn, SignOut, Renew, Expire, link, wire
<1>6. CASE Answer \/ (\E i \in DOMAIN fetches : FetchFails(i))
  BY <1>6, IdleStep DEF Answer, AnswerCached, AnswerRefreshed, FetchFails, link, wire
<1> QED
  BY <1>1, <1>2, <1>3, <1>4, <1>5, <1>6, OpenStep, OnReadyStep, RefreshStep, ReceiveStep,
     ServeStep, RevokeStep DEF Next

\* A connection that is not opened yet.
LEMMA LinkInit == Init => Database!Init
<1> SUFFICES ASSUME Init PROVE Database!Init
  OBVIOUS
<1>1. Conn = "down" /\ Sent(up) = <<>> /\ Replied(down) = <<>> /\ faults = 0
  BY NothingSent DEF Init, Conn, CanSend
<1>2. Database!Write = {} /\ \A v : [l \in {} |-> v] = <<>>
  BY DEF Database!Write
<1> QED
  BY <1>1, <1>2 DEF Database!Init, Conn, Sent, Replied, Only

\* The connection is the one RealtimeDatabase has, in every run that has fewer faults
\* than RealtimeDatabase is told of: nothing is sent before the token that opens it, the
\* answers to tokens come in their order, and what closes it takes all that was on it.
THEOREM LinkIsDatabases == Spec /\ [](faults < ManyFaults) => IsDatabaseLink
<1>1. IInv /\ IInv' /\ faults < ManyFaults /\ [Next]_vars => [Database!Next]_(Database!vars)
  BY LinkStep DEF DatabaseStep
<1> QED
  BY <1>1, LinkInit, Inductive, PTL DEF Spec, IsDatabaseLink, Database!Spec

============================================================================
