------------------------ MODULE RealtimeDatabase_proofs ------------------------
(***************************************************************************)
(* Proofs about RealtimeDatabase for any number of clients, locations,       *)
(* writes, reads and faults: the tree of visible writes and the queue of     *)
(* puts never drift apart, and the client keeps the promise of RemoteWrites. *)
(***************************************************************************)
EXTENDS RealtimeDatabase, SequenceTheorems, TLAPS

Ack == [write : Write, ok : BOOLEAN]

Types ==
    /\ conn \in [Clients -> {"down", "authenticating", "connected"}]
    /\ issued \in [Clients -> 0..MaxWrites]
    /\ observed \in [Clients -> 0..MaxReads]
    /\ writes \in [Clients -> SUBSET Write]
    /\ outstanding \in [Clients -> SUBSET Write]
    /\ toAck \in [Clients -> SUBSET Ack]
    /\ listens \in [Clients -> SUBSET Read]
    /\ up \in [Clients -> Seq(Request)]
    /\ down \in [Clients -> Seq(Response)]
    /\ db \in [Locs -> Write \cup {Nil}]
    /\ status \in [Write -> Statuses]
    /\ applied \subseteq Write

\* The writes of the puts, or of the replies to puts, in a sequence of messages,
\* and that no write occurs twice.
PutsIn(s) == {s[i].write : i \in {j \in 1 .. Len(s) : s[j].kind = "put"}}

Once(s) ==
    \A i, j \in 1 .. Len(s) :
        s[i].kind = "put" /\ s[j].kind = "put" /\ s[i].write = s[j].write => i = j

\* No message asks for, or answers, the token that precedes restoring.
NoRestore(s) == \A i \in 1 .. Len(s) : s[i].kind = "auth" => ~s[i].restore

\* A put is on the connection, with requests u and responses r, once, and only
\* while it is in the set o of the outstanding ones.
PutsOnce(u, r, o) ==
    /\ PutsIn(u) \cup PutsIn(r) \subseteq o
    /\ PutsIn(u) \cap PutsIn(r) = {}
    /\ Once(u)
    /\ Once(r)

\* A success that the client will hear of, or holds back, is the server's.
SuccessIsReal(r, held, done) ==
    /\ \A i \in 1 .. Len(r) : r[i].kind = "put" /\ r[i].ok => r[i].write \in done
    /\ \A a \in held : a.ok => a.write \in done

\* The restoring token is the first message of a connection, and nothing is put
\* before it is answered.
Phase(state, u, r) ==
    /\ state = "down" => u = <<>> /\ r = <<>>
    /\ state = "connected" => NoRestore(u) /\ NoRestore(r)
    /\ state = "authenticating" =>
          /\ PutsIn(u) = {} /\ PutsIn(r) = {}
          /\ \/ /\ r = <<>>
                /\ u # <<>> /\ Head(u) = Auth(TRUE) /\ NoRestore(Tail(u))
             \/ /\ r # <<>>
                /\ Head(r).kind = "auth" /\ Head(r).restore
                /\ NoRestore(u) /\ NoRestore(Tail(r))

\* The acknowledgements and puts a client keeps are its visible writes.
Visible(c, shown, o, held) ==
    /\ \A w \in shown : w.client = c
    /\ shown = o \cup Written(held)
    /\ o \cap Written(held) = {}

\* A write is pending exactly while its client shows it, and not before it is
\* issued.
StatusOK ==
    \A w \in Write :
        /\ status[w] = "pending" <=> w \in writes[w.client]
        /\ w.n > issued[w.client] => status[w] = "new"

\* The invariant of one client.
Client(c) ==
    /\ Visible(c, writes[c], outstanding[c], toAck[c])
    /\ PutsOnce(up[c], down[c], outstanding[c])
    /\ SuccessIsReal(down[c], toAck[c], applied)
    /\ Phase(conn[c], up[c], down[c])

IInv == Types /\ StatusOK /\ \A c \in Clients : Client(c)

----------------------------------------------------------------------------
(* Sequences of messages *)

\* Appending a message.
LEMMA AppendMessage ==
    ASSUME NEW S, NEW s \in Seq(S), NEW x \in S
    PROVE  /\ Append(s, x) \in Seq(S)
           /\ PutsIn(Append(s, x)) =
                 PutsIn(s) \cup (IF x.kind = "put" THEN {x.write} ELSE {})
           /\ Once(s) /\ (x.kind = "put" => x.write \notin PutsIn(s)) => Once(Append(s, x))
           /\ NoRestore(s) /\ (x.kind = "auth" => ~x.restore) => NoRestore(Append(s, x))
<1> DEFINE t == Append(s, x)
<1>1. /\ t \in Seq(S) /\ Len(t) = Len(s) + 1 /\ t[Len(t)] = x
      /\ \A i \in 1 .. Len(s) : t[i] = s[i]
      /\ Len(s) \in Nat
  OBVIOUS
<1> HIDE DEF t
<1>2. 1 .. Len(t) = (1 .. Len(s)) \cup {Len(t)}
  BY <1>1
<1>3. PutsIn(t) = PutsIn(s) \cup (IF x.kind = "put" THEN {x.write} ELSE {})
  BY <1>1, <1>2 DEF PutsIn
<1>4. ASSUME Once(s), x.kind = "put" => x.write \notin PutsIn(s) PROVE Once(t)
  BY <1>1, <1>2, <1>4 DEF Once, PutsIn
<1>5. ASSUME NoRestore(s), x.kind = "auth" => ~x.restore PROVE NoRestore(t)
  BY <1>1, <1>2, <1>5 DEF NoRestore
<1> QED
  BY <1>1, <1>3, <1>4, <1>5 DEF t

\* Taking the first message.
LEMMA TailMessage ==
    ASSUME NEW S, NEW s \in Seq(S), s # <<>>
    PROVE  /\ Head(s) \in S /\ Tail(s) \in Seq(S)
           /\ PutsIn(Tail(s)) \subseteq PutsIn(s)
           /\ Head(s).kind = "put" => Head(s).write \in PutsIn(s)
           /\ Once(s) => /\ Once(Tail(s))
                         /\ Head(s).kind = "put" => Head(s).write \notin PutsIn(Tail(s))
           /\ NoRestore(s) => /\ NoRestore(Tail(s))
                              /\ Head(s).kind = "auth" => ~Head(s).restore
<1> DEFINE t == Tail(s)
<1>1. /\ Head(s) = s[1] /\ s[1] \in S /\ 1 \in 1 .. Len(s)
      /\ t \in Seq(S) /\ Len(t) = Len(s) - 1
      /\ \A i \in 1 .. Len(t) : t[i] = s[i + 1] /\ i + 1 \in 1 .. Len(s) /\ i + 1 # 1
  OBVIOUS
<1> HIDE DEF t
<1>2. PutsIn(t) \subseteq PutsIn(s)
  BY <1>1 DEF PutsIn
<1>3. Head(s).kind = "put" => Head(s).write \in PutsIn(s)
  BY <1>1 DEF PutsIn
<1>4. ASSUME Once(s)
      PROVE  Once(t) /\ (Head(s).kind = "put" => Head(s).write \notin PutsIn(t))
  <2>1. \A i, j \in 1 .. Len(t) : i + 1 = j + 1 => i = j
    OBVIOUS
  <2>2. ASSUME NEW i \in 1 .. Len(t), NEW j \in 1 .. Len(t),
               t[i].kind = "put", t[j].kind = "put", t[i].write = t[j].write
        PROVE  i = j
    <3>1. i + 1 = j + 1
      BY <1>1, <1>4, <2>2 DEF Once
    <3> QED
      BY <2>1, <3>1
  <2>3. ASSUME Head(s).kind = "put", NEW i \in 1 .. Len(t), t[i].kind = "put"
        PROVE  t[i].write # Head(s).write
    BY <1>1, <1>4, <2>3 DEF Once
  <2> QED
    BY <2>2, <2>3 DEF Once, PutsIn
<1>5. ASSUME NoRestore(s)
      PROVE  NoRestore(t) /\ (Head(s).kind = "auth" => ~Head(s).restore)
  BY <1>1, <1>5 DEF NoRestore
<1> QED
  BY <1>1, <1>2, <1>3, <1>4, <1>5 DEF t

\* Joining two sequences.
LEMMA JoinMessages ==
    ASSUME NEW S, NEW s \in Seq(S), NEW t \in Seq(S)
    PROVE  /\ s \o t \in Seq(S)
           /\ PutsIn(s \o t) = PutsIn(s) \cup PutsIn(t)
           /\ Once(s) /\ Once(t) /\ PutsIn(s) \cap PutsIn(t) = {} => Once(s \o t)
           /\ NoRestore(s) /\ NoRestore(t) => NoRestore(s \o t)
<1> DEFINE u == s \o t
<1>1. /\ u \in Seq(S) /\ Len(u) = Len(s) + Len(t) /\ Len(s) \in Nat /\ Len(t) \in Nat
      /\ \A i \in 1 .. Len(s) : u[i] = s[i] /\ i \in 1 .. Len(u)
      /\ \A i \in 1 .. Len(t) : u[Len(s) + i] = t[i] /\ Len(s) + i \in 1 .. Len(u)
  OBVIOUS
<1> HIDE DEF u
<1>2. \A k \in 1 .. Len(u) :
          \/ k \in 1 .. Len(s) /\ u[k] = s[k]
          \/ k - Len(s) \in 1 .. Len(t) /\ u[k] = t[k - Len(s)]
  <2> SUFFICES ASSUME NEW k \in 1 .. Len(u), k > Len(s)
               PROVE  k - Len(s) \in 1 .. Len(t) /\ u[k] = t[k - Len(s)]
    BY <1>1
  <2>1. k - Len(s) \in 1 .. Len(t) /\ k = Len(s) + (k - Len(s))
    BY <1>1
  <2> QED
    BY <1>1, <2>1
<1>3. PutsIn(u) = PutsIn(s) \cup PutsIn(t)
  <2>1. PutsIn(u) \subseteq PutsIn(s) \cup PutsIn(t)
    BY <1>2 DEF PutsIn
  <2>2. PutsIn(s) \subseteq PutsIn(u)
    BY <1>1 DEF PutsIn
  <2>3. PutsIn(t) \subseteq PutsIn(u)
    BY <1>1 DEF PutsIn
  <2> QED
    BY <2>1, <2>2, <2>3
<1>4. ASSUME Once(s), Once(t), PutsIn(s) \cap PutsIn(t) = {} PROVE Once(u)
  <2> SUFFICES ASSUME NEW i \in 1 .. Len(u), NEW j \in 1 .. Len(u),
                      u[i].kind = "put", u[j].kind = "put", u[i].write = u[j].write
               PROVE  i = j
    BY DEF Once
  <2>1. CASE i \in 1 .. Len(s) /\ u[i] = s[i] /\ j \in 1 .. Len(s) /\ u[j] = s[j]
    BY <1>4, <2>1 DEF Once
  <2>2. CASE /\ i - Len(s) \in 1 .. Len(t) /\ u[i] = t[i - Len(s)]
             /\ j - Len(s) \in 1 .. Len(t) /\ u[j] = t[j - Len(s)]
    <3>1. i - Len(s) = j - Len(s)
      BY <1>4, <2>2 DEF Once
    <3> QED
      BY <1>1, <3>1
  <2>3. \A k \in 1 .. Len(s) : s[k].kind = "put" => s[k].write \in PutsIn(s)
    BY DEF PutsIn
  <2>4. \A k \in 1 .. Len(t) : t[k].kind = "put" => t[k].write \in PutsIn(t)
    BY DEF PutsIn
  <2> QED
    BY <1>2, <1>4, <2>1, <2>2, <2>3, <2>4
<1>5. ASSUME NoRestore(s), NoRestore(t) PROVE NoRestore(u)
  BY <1>2, <1>5 DEF NoRestore
<1> QED
  BY <1>1, <1>3, <1>4, <1>5 DEF u

\* What is sent again: listens, and puts that are outstanding, each once.
LEMMA RestoredOK ==
    ASSUME Types, NEW c \in Clients, NEW q \in Restored(c)
    PROVE  q \in Seq(Request) /\ PutsIn(q) \subseteq outstanding[c] /\ Once(q) /\ NoRestore(q)
<1>1. PICK r \in InOrder(listens[c], MaxReads), p \in InOrder(outstanding[c], MaxWrites) :
          q = SentAgain(r, p)
  BY DEF Restored
<1> DEFINE L == [i \in DOMAIN r |-> Listen(r[i])]
           P == [i \in DOMAIN p |-> Put(p[i])]
<1>2. listens[c] \subseteq Read /\ outstanding[c] \subseteq Write
  BY DEF Types
<1>3. L \in Seq(Request) /\ Len(L) \in Nat /\ \A i \in 1 .. Len(L) : L[i].kind = "listen"
  <2>1. PICK m \in 0 .. MaxReads : r \in [1 .. m -> listens[c]]
    BY DEF InOrder, SeqOf
  <2>2. m \in Nat
    BY <2>1, BoundsAreNatural
  <2>3. L \in [1 .. m -> Request] /\ \A i \in 1 .. m : L[i].kind = "listen"
    BY <1>2, <2>1 DEF Request, Listen
  <2> HIDE DEF L
  <2> QED
    BY <2>2, <2>3
<1>4. /\ P \in Seq(Request) /\ Len(P) \in Nat
      /\ \A i \in 1 .. Len(P) : P[i].kind = "put" /\ P[i].write \in outstanding[c]
      /\ \A i, j \in 1 .. Len(P) : i < j => P[i].write.n < P[j].write.n
  <2>1. PICK m \in 0 .. MaxWrites : p \in [1 .. m -> outstanding[c]]
    BY DEF InOrder, SeqOf
  <2>2. m \in Nat
    BY <2>1, BoundsAreNatural
  <2>3. /\ P \in [1 .. m -> Request]
        /\ \A i \in 1 .. m : P[i].kind = "put" /\ P[i].write = p[i] /\ p[i] \in outstanding[c]
    BY <1>2, <2>1 DEF Request, Put
  <2>4. \A i, j \in 1 .. m : i < j => p[i].n < p[j].n
    BY <2>1 DEF InOrder, Ordered
  <2> HIDE DEF P
  <2> QED
    BY <2>2, <2>3, <2>4
<1>5. q = L \o P
  BY <1>1 DEF SentAgain
<1> HIDE DEF L, P
<1>6. PutsIn(L) = {} /\ Once(L) /\ NoRestore(L)
  BY <1>3 DEF PutsIn, Once, NoRestore
<1>7. PutsIn(P) \subseteq outstanding[c] /\ NoRestore(P)
  BY <1>4 DEF PutsIn, NoRestore
<1>8. Once(P)
  <2> SUFFICES ASSUME NEW i \in 1 .. Len(P), NEW j \in 1 .. Len(P), P[i].write = P[j].write
               PROVE  i = j
    BY DEF Once
  <2>1. P[i].write.n \in Int /\ P[j].write.n \in Int
    BY <1>2, <1>4 DEF Write
  <2>2. ~(i < j) /\ ~(j < i)
    BY <1>4, <2>1
  <2> QED
    BY <2>2
<1> QED
  BY <1>3, <1>4, <1>5, <1>6, <1>7, <1>8, JoinMessages

----------------------------------------------------------------------------
(* The invariant *)

\* The initial state satisfies the invariant.
LEMMA InitInv == Init => IInv
<1> SUFFICES ASSUME Init PROVE IInv
  OBVIOUS
<1>1. PutsIn(<<>>) = {} /\ Once(<<>>)
  BY DEF PutsIn, Once
<1>2. Types
  BY BoundsAreNatural DEF Init, Types, Statuses
<1>3. StatusOK
  BY DEF Init, StatusOK, Write
<1>4. ASSUME NEW c \in Clients PROVE Client(c)
  <2>1. writes[c] = {} /\ outstanding[c] = {} /\ toAck[c] = {} /\ up[c] = <<>> /\ down[c] = <<>>
        /\ conn[c] = "down"
    BY DEF Init
  <2> QED
    BY <1>1, <2>1 DEF Client, Visible, Written, PutsOnce, SuccessIsReal, Phase
<1> QED
  BY <1>2, <1>3, <1>4 DEF IInv

\* A step of one client keeps the invariant if it keeps it for this client,
\* leaves the others alone and takes back nothing the server applied.
LEMMA OtherClients ==
    ASSUME IInv, NEW c \in Clients, Types', StatusOK', Client(c)', applied \subseteq applied',
           \A d \in Clients \ {c} :
               /\ conn'[d] = conn[d]
               /\ writes'[d] = writes[d] /\ outstanding'[d] = outstanding[d]
               /\ toAck'[d] = toAck[d] /\ up'[d] = up[d] /\ down'[d] = down[d]
    PROVE  IInv'
<1>1. ASSUME NEW d \in Clients \ {c} PROVE Client(d)'
  <2>1. Client(d)
    BY DEF IInv
  <2>2. SuccessIsReal(down[d], toAck[d], applied')
    BY <2>1 DEF Client, SuccessIsReal
  <2> QED
    BY <1>1, <2>1, <2>2 DEF Client
<1> QED
  BY <1>1 DEF IInv

----------------------------------------------------------------------------
(* The phases of a connection *)

\* A request that neither puts nor restores can be added on any connection.
LEMMA PhaseRequest ==
    ASSUME NEW state \in {"authenticating", "connected"},
           NEW u \in Seq(Request), NEW r \in Seq(Response), Phase(state, u, r),
           NEW x \in Request, x.kind # "put", x.kind = "auth" => ~x.restore
    PROVE  Phase(state, Append(u, x), r)
<1>1. PutsIn(Append(u, x)) = PutsIn(u) /\ (NoRestore(u) => NoRestore(Append(u, x)))
  <2>1. PutsIn(Append(u, x)) = PutsIn(u) \cup (IF x.kind = "put" THEN {x.write} ELSE {})
    BY AppendMessage
  <2>2. NoRestore(u) => NoRestore(Append(u, x))
    BY AppendMessage
  <2> QED
    BY <2>1, <2>2
<1>2. Append(u, x) # <<>>
  OBVIOUS
<1>3. ASSUME u # <<>>
      PROVE  /\ Head(Append(u, x)) = Head(u)
             /\ NoRestore(Tail(u)) => NoRestore(Tail(Append(u, x)))
  <2>1. Head(Append(u, x)) = Head(u) /\ Tail(Append(u, x)) = Append(Tail(u), x)
        /\ Tail(u) \in Seq(Request)
    BY <1>3
  <2> QED
    BY <2>1, AppendMessage
<1> QED
  BY <1>1, <1>2, <1>3 DEF Phase

\* Only the answer to a token can be the first response before restoring.
LEMMA PhaseReceive ==
    ASSUME NEW state \in {"down", "authenticating", "connected"},
           NEW u \in Seq(Request), NEW r \in Seq(Response), Phase(state, u, r),
           r # <<>>, Head(r).kind # "auth"
    PROVE  state = "connected" /\ Phase(state, u, Tail(r))
<1>1. state = "connected"
  BY DEF Phase
<1>2. NoRestore(Tail(r))
  BY <1>1, TailMessage DEF Phase
<1> QED
  BY <1>1, <1>2 DEF Phase

\* A request that neither puts nor restores is answered without either.
LEMMA PhaseServe ==
    ASSUME NEW state \in {"down", "authenticating", "connected"},
           NEW u \in Seq(Request), NEW r \in Seq(Response), Phase(state, u, r),
           u # <<>>, Head(u) # Auth(TRUE),
           NEW t \in Seq(Response), state = "authenticating" => PutsIn(t) = {}, NoRestore(t)
    PROVE  Phase(state, Tail(u), r \o t)
<1>1. /\ PutsIn(Tail(u)) \subseteq PutsIn(u)
      /\ NoRestore(u) => NoRestore(Tail(u))
  BY TailMessage
<1>2. /\ r \o t \in Seq(Response)
      /\ PutsIn(r \o t) = PutsIn(r) \cup PutsIn(t)
      /\ NoRestore(r) => NoRestore(r \o t)
  BY JoinMessages
<1>3. CASE state = "connected"
  BY <1>1, <1>2, <1>3 DEF Phase
<1>4. CASE state = "authenticating"
  <2>1. /\ r # <<>>
        /\ Head(r).kind = "auth" /\ Head(r).restore
        /\ NoRestore(u) /\ NoRestore(Tail(r)) /\ PutsIn(u) = {} /\ PutsIn(r) = {}
    BY <1>4 DEF Phase
  <2>2. /\ r \o t # <<>> /\ Head(r \o t) = Head(r) /\ Tail(r \o t) = Tail(r) \o t
        /\ Tail(r) \in Seq(Response)
    BY <2>1
  <2>3. NoRestore(Tail(r) \o t)
    BY <2>1, <2>2, JoinMessages
  <2> QED
    BY <1>1, <1>2, <1>4, <2>1, <2>2, <2>3 DEF Phase
<1>5. CASE state = "down"
  BY <1>5 DEF Phase
<1> QED
  BY <1>3, <1>4, <1>5

----------------------------------------------------------------------------
(* Every action keeps the invariant and the promise *)

\* The step is one of RemoteWrites, or changes nothing of it.
Keeps == Promise!Next \/ UNCHANGED <<status, applied, db>>

\* A step of one client that leaves its writes alone.
LEMMA ConnectionStep ==
    ASSUME IInv, NEW c \in Clients, Types',
           UNCHANGED <<issued, writes, outstanding, toAck, status, applied>>,
           PutsOnce(up'[c], down'[c], outstanding[c]),
           SuccessIsReal(down'[c], toAck[c], applied),
           Phase(conn'[c], up'[c], down'[c]),
           \A d \in Clients \ {c} :
               conn'[d] = conn[d] /\ up'[d] = up[d] /\ down'[d] = down[d]
    PROVE  IInv'
<1>1. StatusOK'
  BY DEF IInv, StatusOK
<1>2. Client(c)'
  BY DEF IInv, Client
<1> QED
  BY <1>1, <1>2, OtherClients

\* A request that neither puts nor restores.
LEMMA RequestStep ==
    ASSUME IInv, NEW c \in Clients, conn[c] # "down",
           NEW x \in Request, x.kind # "put", x.kind = "auth" => ~x.restore
    PROVE  /\ [up EXCEPT ![c] = Append(@, x)] \in [Clients -> Seq(Request)]
           /\ PutsOnce(Append(up[c], x), down[c], outstanding[c])
           /\ Phase(conn[c], Append(up[c], x), down[c])
<1>1. up[c] \in Seq(Request) /\ down[c] \in Seq(Response)
      /\ conn[c] \in {"authenticating", "connected"}
  BY DEF IInv, Types
<1>2. PutsOnce(up[c], down[c], outstanding[c]) /\ Phase(conn[c], up[c], down[c])
  BY DEF IInv, Client
<1>3. Phase(conn[c], Append(up[c], x), down[c])
  BY <1>1, <1>2, PhaseRequest
<1>4. PutsIn(Append(up[c], x)) = PutsIn(up[c]) \cup (IF x.kind = "put" THEN {x.write} ELSE {})
  BY <1>1, AppendMessage
<1>5. Once(up[c]) => Once(Append(up[c], x))
  BY <1>1, AppendMessage
<1>6. Append(up[c], x) \in Seq(Request)
  BY <1>1
<1>7. [up EXCEPT ![c] = Append(@, x)] \in [Clients -> Seq(Request)]
  BY <1>6 DEF IInv, Types
<1> QED
  BY <1>2, <1>3, <1>4, <1>5, <1>7 DEF PutsOnce

\* observeSingleEvent sends at most a listen.
LEMMA ObserveInv ==
    ASSUME IInv, NEW c \in Clients, NEW l \in Locs, Observe(c, l)
    PROVE  IInv' /\ Keeps
<1> DEFINE r == [n |-> observed[c] + 1, loc |-> l]
<1>1. observed[c] \in 0 .. MaxReads /\ observed[c] < MaxReads /\ MaxReads \in Nat
  BY BoundsAreNatural DEF IInv, Types, Observe
<1>2. r \in Read /\ observed[c] + 1 \in 0 .. MaxReads
  BY <1>1 DEF Read
<1>3. Listen(r) \in Request /\ Listen(r).kind = "listen"
  BY <1>2 DEF Request, Listen
<1>4. UNCHANGED <<conn, issued, writes, outstanding, toAck, down, db, status, applied>>
  BY DEF Observe
<1>5. observed' \in [Clients -> 0 .. MaxReads]
  BY <1>2 DEF IInv, Types, Observe
<1>6. listens' \in [Clients -> SUBSET Read]
  <2>1. listens \in [Clients -> SUBSET Read] /\ listens[c] \cup {r} \subseteq Read
    BY <1>2 DEF IInv, Types
  <2>2. listens' = listens \/ listens' = [listens EXCEPT ![c] = @ \cup {r}]
    BY DEF Observe
  <2> HIDE DEF r
  <2> QED
    BY <2>1, <2>2
<1>7. CASE conn[c] = "down"
  <2>1. up' = up
    BY <1>7 DEF Observe
  <2>2. Types'
    BY <1>4, <1>5, <1>6, <2>1 DEF IInv, Types
  <2> QED
    BY <1>4, <2>1, <2>2, ConnectionStep DEF IInv, Client, Keeps
<1>8. CASE conn[c] # "down"
  <2>1. up' = [up EXCEPT ![c] = Append(@, Listen(r))]
    BY <1>8 DEF Observe
  <2> HIDE DEF r
  <2>2. /\ up' \in [Clients -> Seq(Request)]
        /\ PutsOnce(Append(up[c], Listen(r)), down[c], outstanding[c])
        /\ Phase(conn[c], Append(up[c], Listen(r)), down[c])
    BY <1>3, <1>8, <2>1, RequestStep
  <2>3. up'[c] = Append(up[c], Listen(r)) /\ \A d \in Clients \ {c} : up'[d] = up[d]
    BY <2>1 DEF IInv, Types
  <2>4. Types'
    BY <1>4, <1>5, <1>6, <2>2 DEF IInv, Types
  <2>5. SuccessIsReal(down[c], toAck[c], applied)
    BY DEF IInv, Client
  <2> QED
    BY <1>4, <2>2, <2>3, <2>4, <2>5, ConnectionStep DEF Keeps
<1> QED
  BY <1>7, <1>8

\* A new token is sent without restoring.
LEMMA ChangeTokenInv ==
    ASSUME IInv, NEW c \in Clients, ChangeToken(c)
    PROVE  IInv' /\ Keeps
<1>1. UNCHANGED <<conn, issued, observed, writes, outstanding, toAck, listens, down,
                  db, status, applied>>
  BY DEF ChangeToken
<1>2. SuccessIsReal(down[c], toAck[c], applied)
  BY DEF IInv, Client
<1>3. conn[c] # "down" /\ up' = [up EXCEPT ![c] = Append(@, Auth(FALSE))]
  BY DEF ChangeToken
<1>4. Auth(FALSE) \in Request /\ Auth(FALSE).kind = "auth" /\ ~Auth(FALSE).restore
  BY DEF Request, Auth
<1>5. /\ up' \in [Clients -> Seq(Request)]
      /\ PutsOnce(Append(up[c], Auth(FALSE)), down[c], outstanding[c])
      /\ Phase(conn[c], Append(up[c], Auth(FALSE)), down[c])
  BY <1>3, <1>4, RequestStep
<1>6. up'[c] = Append(up[c], Auth(FALSE)) /\ \A d \in Clients \ {c} : up'[d] = up[d]
  BY <1>3 DEF IInv, Types
<1>7. Types'
  BY <1>1, <1>5 DEF IInv, Types
<1> QED
  BY <1>1, <1>2, <1>5, <1>6, <1>7, ConnectionStep DEF Keeps

\* Answering observers keeps the type of the listens.
LEMMA FireListens ==
    ASSUME Types, NEW c \in Clients, NEW l, NEW v, Fire(c, l, v)
    PROVE  listens' \in [Clients -> SUBSET Read]
<1>1. listens \in [Clients -> SUBSET Read] /\ listens[c] \ At(listens[c], l) \subseteq Read
  BY DEF Types
<1>2. listens' = listens \/ listens' = [listens EXCEPT ![c] = @ \ At(@, l)]
  BY DEF Fire
<1> QED
  BY <1>1, <1>2

\* A write is new, and is visible and outstanding from then on.
LEMMA SetInv ==
    ASSUME IInv, NEW c \in Clients, NEW l \in Locs, Set(c, l)
    PROVE  IInv' /\ Keeps
<1> DEFINE w == [client |-> c, n |-> issued[c] + 1, loc |-> l]
<1>1. issued[c] \in 0 .. MaxWrites /\ issued[c] < MaxWrites /\ MaxWrites \in Nat
  BY BoundsAreNatural DEF IInv, Types, Set
<1>2. /\ w \in Write /\ w.client = c /\ w.n = issued[c] + 1
      /\ issued[c] + 1 \in 0 .. MaxWrites
  BY <1>1 DEF Write
<1>3. Put(w) \in Request /\ Put(w).kind = "put" /\ Put(w).write = w
  BY <1>2 DEF Request, Put
<1>4. /\ issued' = [issued EXCEPT ![c] = issued[c] + 1]
      /\ writes' = [writes EXCEPT ![c] = @ \cup {w}]
      /\ outstanding' = [outstanding EXCEPT ![c] = @ \cup {w}]
      /\ status' = [status EXCEPT ![w] = "pending"]
      /\ up' = IF conn[c] = "connected" THEN [up EXCEPT ![c] = Append(@, Put(w))] ELSE up
      /\ UNCHANGED <<conn, observed, toAck, down, db, applied>>
  BY DEF Set
<1>5. listens' \in [Clients -> SUBSET Read]
  BY FireListens DEF IInv, Set
<1> HIDE DEF w
<1>6. /\ up \in [Clients -> Seq(Request)] /\ up[c] \in Seq(Request)
      /\ issued \in [Clients -> 0 .. MaxWrites]
      /\ writes \in [Clients -> SUBSET Write] /\ outstanding \in [Clients -> SUBSET Write]
      /\ status \in [Write -> Statuses]
  BY DEF IInv, Types
<1>7. up' \in [Clients -> Seq(Request)]
  <2>1. Append(up[c], Put(w)) \in Seq(Request)
    BY <1>3, <1>6
  <2>2. up' = up \/ up' = [up EXCEPT ![c] = Append(@, Put(w))]
    BY <1>4
  <2> QED
    BY <1>6, <2>1, <2>2
<1>8. Types'
  <2>1. issued' \in [Clients -> 0 .. MaxWrites]
    BY <1>2, <1>4, <1>6
  <2>2. writes' \in [Clients -> SUBSET Write] /\ outstanding' \in [Clients -> SUBSET Write]
    BY <1>2, <1>4, <1>6
  <2>3. status' \in [Write -> Statuses]
    BY <1>4, <1>6 DEF Statuses
  <2> QED
    BY <1>4, <1>5, <1>7, <2>1, <2>2, <2>3 DEF IInv, Types
<1>9. status[w] = "new" /\ w \notin writes[c]
  <2>1. w.n > issued[w.client]
    BY <1>1, <1>2
  <2> QED
    BY <1>2, <2>1 DEF IInv, StatusOK
<1>10. StatusOK'
  <2> SUFFICES ASSUME NEW x \in Write
               PROVE  /\ status'[x] = "pending" <=> x \in writes'[x.client]
                      /\ x.n > issued'[x.client] => status'[x] = "new"
    BY DEF StatusOK
  <2>1. x.n \in Nat /\ x.client \in Clients
    BY BoundsAreNatural DEF Write
  <2>2. CASE x = w
    BY <1>1, <1>2, <1>4, <1>6, <2>2
  <2>3. CASE x # w
    <3>1. status'[x] = status[x] /\ (x \in writes'[x.client] <=> x \in writes[x.client])
      BY <1>4, <1>6, <2>1, <2>3
    <3>2. x.n > issued'[x.client] => x.n > issued[x.client]
      BY <1>1, <1>4, <1>6, <2>1
    <3> QED
      BY <3>1, <3>2 DEF IInv, StatusOK
  <2> QED
    BY <2>2, <2>3
<1>11. Client(c)
  BY DEF IInv
<1>12. Visible(c, writes[c] \cup {w}, outstanding[c] \cup {w}, toAck[c])
  BY <1>2, <1>9, <1>11 DEF Client, Visible
<1>13. w \notin PutsIn(up[c]) /\ w \notin PutsIn(down[c])
  BY <1>9, <1>11 DEF Client, Visible, PutsOnce
<1>14. ASSUME conn[c] = "connected" PROVE Client(c)'
  <2>1. up'[c] = Append(up[c], Put(w))
    BY <1>4, <1>6, <1>14
  <2>2. PutsIn(up'[c]) = PutsIn(up[c]) \cup {w}
    <3>1. PutsIn(Append(up[c], Put(w))) =
             PutsIn(up[c]) \cup (IF Put(w).kind = "put" THEN {Put(w).write} ELSE {})
      BY <1>3, <1>6, AppendMessage
    <3> QED
      BY <1>3, <2>1, <3>1
  <2>3. Once(up[c]) => Once(up'[c])
    <3>1. Once(up[c]) /\ (Put(w).kind = "put" => Put(w).write \notin PutsIn(up[c]))
             => Once(Append(up[c], Put(w)))
      BY <1>3, <1>6, AppendMessage
    <3> QED
      BY <1>3, <1>13, <2>1, <3>1
  <2>4. NoRestore(up[c]) => NoRestore(up'[c])
    <3>1. NoRestore(up[c]) /\ (Put(w).kind = "auth" => ~Put(w).restore)
             => NoRestore(Append(up[c], Put(w)))
      BY <1>3, <1>6, AppendMessage
    <3> QED
      BY <1>3, <2>1, <3>1
  <2>5. PutsOnce(up'[c], down[c], outstanding[c] \cup {w})
    BY <1>11, <1>13, <2>2, <2>3 DEF Client, PutsOnce
  <2>6. Phase(conn[c], up'[c], down[c])
    BY <1>11, <1>14, <2>4 DEF Client, Phase
  <2> QED
    BY <1>4, <1>6, <1>11, <1>12, <2>5, <2>6 DEF Client
<1>15. ASSUME conn[c] # "connected" PROVE Client(c)'
  <2>1. PutsOnce(up[c], down[c], outstanding[c] \cup {w})
    BY <1>11 DEF Client, PutsOnce
  <2> QED
    BY <1>4, <1>6, <1>11, <1>12, <1>15, <2>1 DEF Client
<1>16. IInv'
  <2>1. \A d \in Clients \ {c} : /\ writes'[d] = writes[d] /\ outstanding'[d] = outstanding[d]
                                 /\ up'[d] = up[d]
    BY <1>4, <1>6
  <2>2. Client(c)'
    BY <1>14, <1>15
  <2> QED
    BY <1>4, <1>8, <1>10, <2>1, <2>2, OtherClients
<1>17. Promise!Issue(w)
  BY <1>4, <1>9 DEF Promise!Issue
<1> QED
  BY <1>2, <1>16, <1>17 DEF Keeps, Promise!Next

\* A connection starts with the token, or with what is sent again.
LEMMA ConnectInv ==
    ASSUME IInv, NEW c \in Clients, Connect(c)
    PROVE  IInv' /\ Keeps
<1>1. UNCHANGED <<issued, observed, writes, outstanding, toAck, listens, down,
                  db, status, applied>>
  BY DEF Connect
<1>2. down[c] = <<>> /\ SuccessIsReal(down[c], toAck[c], applied)
  BY DEF IInv, Client, Phase, Connect
<1>3. PutsIn(<<>>) = {} /\ Once(<<>>) /\ NoRestore(<<>>)
  BY DEF PutsIn, Once, NoRestore
<1>4. up \in [Clients -> Seq(Request)]
      /\ conn \in [Clients -> {"down", "authenticating", "connected"}]
  BY DEF IInv, Types
<1>5. CASE /\ conn' = [conn EXCEPT ![c] = "authenticating"]
           /\ up' = [up EXCEPT ![c] = <<Auth(TRUE)>>]
  <2> DEFINE q == <<Auth(TRUE)>>
  <2>1. q \in Seq(Request) /\ q # <<>> /\ Len(q) = 1 /\ q[1].kind = "auth"
        /\ Head(q) = Auth(TRUE) /\ Tail(q) = <<>>
    <3> DEFINE a == Auth(TRUE)
    <3>1. a \in Request /\ a.kind = "auth"
      BY DEF Request, Auth
    <3> HIDE DEF a
    <3>2. /\ <<a>> \in Seq(Request) /\ <<a>> # <<>> /\ Len(<<a>>) = 1 /\ <<a>>[1] = a
          /\ Head(<<a>>) = a /\ Tail(<<a>>) = <<>>
      BY <3>1
    <3> QED
      BY <3>1, <3>2 DEF a
  <2>2. up' = [up EXCEPT ![c] = q] /\ conn' = [conn EXCEPT ![c] = "authenticating"]
    BY <1>5
  <2> HIDE DEF q
  <2>3. PutsIn(q) = {} /\ Once(q)
    BY <2>1 DEF PutsIn, Once
  <2>4. PutsOnce(q, down[c], outstanding[c]) /\ Phase("authenticating", q, down[c])
    BY <1>2, <1>3, <2>1, <2>3 DEF PutsOnce, Phase
  <2>5. Types'
    BY <1>1, <1>4, <2>1, <2>2 DEF IInv, Types
  <2> QED
    BY <1>1, <1>2, <1>4, <2>2, <2>4, <2>5, ConnectionStep DEF Keeps
<1>6. CASE /\ conn' = [conn EXCEPT ![c] = "connected"]
           /\ \E q \in Restored(c) : up' = [up EXCEPT ![c] = q]
  <2>1. PICK q \in Restored(c) : up' = [up EXCEPT ![c] = q]
    BY <1>6
  <2>2. conn' = [conn EXCEPT ![c] = "connected"]
    BY <1>6
  <2>3. q \in Seq(Request) /\ PutsIn(q) \subseteq outstanding[c] /\ Once(q) /\ NoRestore(q)
    BY RestoredOK DEF IInv
  <2>4. PutsOnce(q, down[c], outstanding[c]) /\ Phase("connected", q, down[c])
    BY <1>2, <1>3, <2>3 DEF PutsOnce, Phase
  <2>5. Types'
    BY <1>1, <1>4, <2>1, <2>2, <2>3 DEF IInv, Types
  <2> QED
    BY <1>1, <1>2, <1>4, <2>1, <2>2, <2>4, <2>5, ConnectionStep DEF Keeps
<1> QED
  BY <1>5, <1>6 DEF Connect

\* A lost connection takes its messages with it, and nothing else.
LEMMA DisconnectedInv ==
    ASSUME IInv, NEW c \in Clients, Disconnected(c), UNCHANGED <<db, status, applied>>
    PROVE  IInv' /\ Keeps
<1>1. UNCHANGED <<issued, observed, writes, outstanding, toAck, listens>>
  BY DEF Disconnected
<1>2. /\ conn' = [conn EXCEPT ![c] = "down"]
      /\ up' = [up EXCEPT ![c] = <<>>]
      /\ down' = [down EXCEPT ![c] = <<>>]
  BY DEF Disconnected
<1>3. /\ conn'[c] = "down" /\ up'[c] = <<>> /\ down'[c] = <<>>
      /\ \A d \in Clients \ {c} : conn'[d] = conn[d] /\ up'[d] = up[d] /\ down'[d] = down[d]
  BY <1>2 DEF IInv, Types
<1>4. Types'
  BY <1>1, <1>2 DEF IInv, Types
<1>5. PutsOnce(<<>>, <<>>, outstanding[c]) /\ Phase("down", <<>>, <<>>)
  BY DEF PutsOnce, PutsIn, Once, Phase
<1>6. SuccessIsReal(<<>>, toAck[c], applied)
  BY DEF IInv, Client, SuccessIsReal
<1> QED
  BY <1>1, <1>3, <1>4, <1>5, <1>6, ConnectionStep DEF Keeps

\* The writes that end with the process are the ones it shows.
LEMMA KillInv ==
    ASSUME IInv, NEW c \in Clients, Kill(c)
    PROVE  IInv' /\ Keeps
<1>1. /\ conn' = [conn EXCEPT ![c] = "down"]
      /\ writes' = [writes EXCEPT ![c] = {}]
      /\ outstanding' = [outstanding EXCEPT ![c] = {}]
      /\ toAck' = [toAck EXCEPT ![c] = {}]
      /\ listens' = [listens EXCEPT ![c] = {}]
      /\ up' = [up EXCEPT ![c] = <<>>]
      /\ down' = [down EXCEPT ![c] = <<>>]
      /\ status' = [w \in Write |-> IF w \in writes[c] THEN "lost" ELSE status[w]]
      /\ UNCHANGED <<issued, observed, db, applied>>
  BY DEF Kill
<1>2. Types
  BY DEF IInv
<1>3. Types'
  <2>1. status' \in [Write -> Statuses]
    BY <1>1, <1>2 DEF Types, Statuses
  <2> QED
    BY <1>1, <1>2, <2>1 DEF Types
<1>4. \A w \in writes[c] : w \in Write /\ w.client = c /\ status[w] = "pending"
  BY <1>2 DEF IInv, Types, StatusOK, Client, Visible
<1>5. StatusOK'
  <2> SUFFICES ASSUME NEW w \in Write
               PROVE  /\ status'[w] = "pending" <=> w \in writes'[w.client]
                      /\ w.n > issued[w.client] => status'[w] = "new"
    BY <1>1 DEF StatusOK
  <2>1. w.client \in Clients
    BY DEF Write
  <2>2. CASE w \in writes[c]
    BY <1>1, <1>2, <1>4, <2>2 DEF IInv, StatusOK, Types
  <2>3. CASE w \notin writes[c]
    BY <1>1, <1>2, <2>1, <2>3 DEF IInv, StatusOK, Types
  <2> QED
    BY <2>2, <2>3
<1>6. Client(c)'
  <2>1. conn'[c] = "down" /\ writes'[c] = {} /\ outstanding'[c] = {} /\ toAck'[c] = {}
        /\ up'[c] = <<>> /\ down'[c] = <<>>
    BY <1>1, <1>2 DEF Types
  <2>2. Visible(c, {}, {}, {}) /\ PutsOnce(<<>>, <<>>, {}) /\ SuccessIsReal(<<>>, {}, applied')
        /\ Phase("down", <<>>, <<>>)
    BY DEF Visible, Written, PutsOnce, PutsIn, Once, SuccessIsReal, Phase
  <2> QED
    BY <2>1, <2>2 DEF Client
<1>7. IInv'
  <2>1. \A d \in Clients \ {c} :
           /\ conn'[d] = conn[d]
           /\ writes'[d] = writes[d] /\ outstanding'[d] = outstanding[d]
           /\ toAck'[d] = toAck[d] /\ up'[d] = up[d] /\ down'[d] = down[d]
    BY <1>1, <1>2 DEF Types
  <2> QED
    BY <1>1, <1>3, <1>5, <1>6, <2>1, OtherClients
<1>8. Promise!Resolve
  BY <1>1, <1>4 DEF Promise!Resolve
<1> QED
  BY <1>7, <1>8 DEF Keeps, Promise!Next

----------------------------------------------------------------------------
(* The server *)

\* One message.
LEMMA OneMessage ==
    ASSUME NEW S, NEW x \in S
    PROVE  /\ <<x>> \in Seq(S)
           /\ PutsIn(<<x>>) = IF x.kind = "put" THEN {x.write} ELSE {}
           /\ Once(<<x>>)
           /\ (x.kind = "auth" => ~x.restore) => NoRestore(<<x>>)
<1> DEFINE t == <<x>>
<1>1. t \in Seq(S) /\ Len(t) = 1 /\ t[1] = x
  OBVIOUS
<1> HIDE DEF t
<1>2. 1 .. Len(t) = {1}
  BY <1>1
<1>3. PutsIn(t) = IF x.kind = "put" THEN {x.write} ELSE {}
  BY <1>1, <1>2 DEF PutsIn
<1>4. Once(t) /\ ((x.kind = "auth" => ~x.restore) => NoRestore(t))
  BY <1>1, <1>2 DEF Once, NoRestore
<1> QED
  BY <1>1, <1>3, <1>4 DEF t

\* The successes in a longer sequence of responses.
LEMMA JoinSuccess ==
    ASSUME NEW s \in Seq(Response), NEW t \in Seq(Response), NEW held, NEW done, NEW more,
           SuccessIsReal(s, held, done), SuccessIsReal(t, {}, more), done \subseteq more
    PROVE  SuccessIsReal(s \o t, held, more)
<1> DEFINE u == s \o t
<1>1. \A k \in 1 .. Len(u) :
          \/ k \in 1 .. Len(s) /\ u[k] = s[k]
          \/ k - Len(s) \in 1 .. Len(t) /\ u[k] = t[k - Len(s)]
  OBVIOUS
<1> HIDE DEF u
<1>2. SuccessIsReal(u, held, more)
  BY <1>1 DEF SuccessIsReal
<1> QED
  BY <1>2 DEF u

\* An answer keeps the invariant if its puts are the request's.
LEMMA AnswerStep ==
    ASSUME IInv, NEW c \in Clients, NEW t \in Seq(Response), up[c] # <<>>, Answer(c, t),
           db' \in [Locs -> Write \cup {Nil}], applied' \subseteq Write, applied \subseteq applied',
           PutsIn(t) \subseteq PutsIn(up[c]) \ PutsIn(Tail(up[c])), Once(t),
           SuccessIsReal(t, {}, applied'),
           Phase(conn[c], Tail(up[c]), down[c] \o t)
    PROVE  IInv'
<1>1. /\ up' = [up EXCEPT ![c] = Tail(@)] /\ down' = [down EXCEPT ![c] = @ \o t]
      /\ UNCHANGED <<conn, issued, observed, writes, outstanding, toAck, listens, status>>
  BY DEF Answer, client
<1>2. up[c] \in Seq(Request) /\ down[c] \in Seq(Response) /\ Types /\ Client(c)
  BY DEF IInv, Types
<1>3. /\ Tail(up[c]) \in Seq(Request)
      /\ PutsIn(Tail(up[c])) \subseteq PutsIn(up[c])
      /\ Once(up[c]) => Once(Tail(up[c]))
  BY <1>2, TailMessage
<1>4. /\ down[c] \o t \in Seq(Response)
      /\ PutsIn(down[c] \o t) = PutsIn(down[c]) \cup PutsIn(t)
      /\ Once(down[c]) /\ Once(t) /\ PutsIn(down[c]) \cap PutsIn(t) = {} => Once(down[c] \o t)
  BY <1>2, JoinMessages
<1>5. PutsOnce(Tail(up[c]), down[c] \o t, outstanding[c])
  <2>1. PutsOnce(up[c], down[c], outstanding[c])
    BY <1>2 DEF Client
  <2> QED
    BY <1>3, <1>4, <2>1 DEF PutsOnce
<1>6. SuccessIsReal(down[c] \o t, toAck[c], applied')
  BY <1>2, JoinSuccess DEF Client
<1>7. Types'
  <2>1. up' \in [Clients -> Seq(Request)] /\ down' \in [Clients -> Seq(Response)]
    BY <1>1, <1>2, <1>3, <1>4 DEF Types
  <2> QED
    BY <1>1, <1>2, <2>1 DEF Types
<1>8. /\ up'[c] = Tail(up[c]) /\ down'[c] = down[c] \o t
      /\ \A d \in Clients \ {c} : up'[d] = up[d] /\ down'[d] = down[d]
  BY <1>1, <1>2 DEF Types
<1>9. StatusOK'
  BY <1>1 DEF IInv, StatusOK
<1>10. Client(c)'
  BY <1>1, <1>2, <1>5, <1>6, <1>8 DEF Client
<1> QED
  BY <1>1, <1>7, <1>8, <1>9, <1>10, OtherClients

\* A token is answered before anything is restored.
LEMMA ServeAuthInv ==
    ASSUME IInv, NEW c \in Clients, ServeAuth(c)
    PROVE  IInv' /\ Keeps
<1>1. up[c] # <<>> /\ Head(up[c]).kind = "auth" /\ UNCHANGED <<db, applied>>
  BY DEF ServeAuth
<1>2. PICK ok \in BOOLEAN : Answer(c, <<AuthReply(ok, Head(up[c]).restore)>>)
  BY DEF ServeAuth
<1> DEFINE x == AuthReply(ok, Head(up[c]).restore)
           t == <<x>>
<1>3. /\ up[c] \in Seq(Request) /\ down[c] \in Seq(Response)
      /\ conn[c] \in {"down", "authenticating", "connected"}
      /\ db \in [Locs -> Write \cup {Nil}] /\ applied \subseteq Write
      /\ Phase(conn[c], up[c], down[c])
  BY DEF IInv, Types, Client
<1>4. Head(up[c]) \in Request /\ (NoRestore(up[c]) => ~Head(up[c]).restore)
  BY <1>1, <1>3, TailMessage
<1>5. Head(up[c]).restore \in BOOLEAN /\ Head(up[c]) = Auth(Head(up[c]).restore)
  BY <1>1, <1>4 DEF Request, Auth, Put, Listen
<1>6. x \in Response /\ x.kind = "auth" /\ x.restore = Head(up[c]).restore
  BY <1>5 DEF Response, AuthReply
<1>7. Answer(c, t) /\ status' = status
  BY <1>2 DEF Answer
<1> HIDE DEF x
<1>8. t \in Seq(Response) /\ PutsIn(t) = {} /\ Once(t) /\ (~x.restore => NoRestore(t))
  BY <1>6, OneMessage
<1>9. SuccessIsReal(t, {}, applied')
  <2>1. Len(t) = 1 /\ t[1] = x
    OBVIOUS
  <2> HIDE DEF t
  <2> QED
    BY <1>6, <2>1 DEF SuccessIsReal
<1>10. Phase(conn[c], Tail(up[c]), down[c] \o t)
  <2>1. CASE ~Head(up[c]).restore
    <3>1. Head(up[c]) # Auth(TRUE)
      BY <2>1 DEF Auth
    <3> HIDE DEF t
    <3> QED
      BY <1>1, <1>3, <1>6, <1>8, <2>1, <3>1, PhaseServe
  <2>2. CASE Head(up[c]).restore
    <3>1. conn[c] = "authenticating" /\ ~NoRestore(up[c]) /\ PutsIn(up[c]) = {}
      BY <1>1, <1>3, <1>4, <2>2 DEF Phase
    <3>2. down[c] = <<>> /\ NoRestore(Tail(up[c]))
      BY <1>3, <3>1 DEF Phase
    <3>3. down[c] \o t = t /\ t # <<>> /\ Head(t) = x /\ Tail(t) = <<>>
      BY <1>8, <3>2
    <3>4. NoRestore(<<>>)
      BY DEF NoRestore
    <3>5. PutsIn(Tail(up[c])) = {}
      BY <1>1, <1>3, <3>1, TailMessage
    <3> HIDE DEF t
    <3> QED
      BY <1>6, <1>8, <2>2, <3>1, <3>2, <3>3, <3>4, <3>5 DEF Phase
  <2> QED
    BY <1>5, <2>1, <2>2
<1> HIDE DEF t
<1>11. IInv'
  BY <1>1, <1>3, <1>7, <1>8, <1>9, <1>10, AnswerStep
<1> QED
  BY <1>1, <1>7, <1>11 DEF Keeps

\* The data sent to a listener is a message of the server.
LEMMA DataIsResponse ==
    ASSUME NEW l \in Locs, NEW v \in Write \cup {Nil}
    PROVE  Data(l, v) \in Response /\ Data(l, v).kind = "data"
<1>1. Data(l, v) \in {Data(k, x) : k \in Locs, x \in Write \cup {Nil}}
  OBVIOUS
<1>2. Data(l, v).kind = "data"
  BY DEF Data
<1> QED
  BY <1>1, <1>2 DEF Response

\* The answer to a listen is a message of the server.
LEMMA ListenReplyIsResponse ==
    ASSUME NEW r \in Read, NEW ok \in BOOLEAN
    PROVE  ListenReply(r, ok) \in Response /\ ListenReply(r, ok).kind = "listen"
<1>1. ListenReply(r, ok) \in {ListenReply(x, b) : x \in Read, b \in BOOLEAN}
  OBVIOUS
<1>2. ListenReply(r, ok).kind = "listen"
  BY DEF ListenReply
<1> QED
  BY <1>1, <1>2 DEF Response

\* A listen is answered with data and a reply, or a refusal.
LEMMA ServeListenInv ==
    ASSUME IInv, NEW c \in Clients, NEW accept \in BOOLEAN, ServeListen(c, accept)
    PROVE  IInv' /\ Keeps
<1> DEFINE r == Head(up[c]).read
           t == IF accept THEN <<Data(r.loc, db[r.loc]), ListenReply(r, TRUE)>>
                ELSE <<ListenReply(r, FALSE)>>
<1>1. up[c] # <<>> /\ Head(up[c]).kind = "listen" /\ UNCHANGED <<db, applied>>
  BY DEF ServeListen
<1>2. Answer(c, t) /\ status' = status
  BY DEF ServeListen, Answer
<1>3. /\ up[c] \in Seq(Request) /\ down[c] \in Seq(Response)
      /\ conn[c] \in {"down", "authenticating", "connected"}
      /\ db \in [Locs -> Write \cup {Nil}] /\ applied \subseteq Write
      /\ Phase(conn[c], up[c], down[c])
  BY DEF IInv, Types, Client
<1>4. Head(up[c]) \in Request
  BY <1>1, <1>3, TailMessage
<1>5. r \in Read /\ Head(up[c]) # Auth(TRUE)
  BY <1>1, <1>4 DEF Request, Auth, Put, Listen
<1>6. db[r.loc] \in Write \cup {Nil} /\ r.loc \in Locs
  BY <1>3, <1>5 DEF Read
<1>7. /\ Data(r.loc, db[r.loc]) \in Response /\ Data(r.loc, db[r.loc]).kind = "data"
      /\ \A ok \in BOOLEAN : /\ ListenReply(r, ok) \in Response
                             /\ ListenReply(r, ok).kind = "listen"
  BY <1>5, <1>6, DataIsResponse, ListenReplyIsResponse
<1>8. t \in Seq(Response)
      /\ \A i \in 1 .. Len(t) : t[i].kind \in {"data", "listen"}
  <2> DEFINE a == Data(r.loc, db[r.loc])
             y == ListenReply(r, TRUE)
             z == ListenReply(r, FALSE)
  <2>1. /\ t = <<a, y>> \/ t = <<z>>
        /\ a \in Response /\ y \in Response /\ z \in Response
        /\ a.kind = "data" /\ y.kind = "listen" /\ z.kind = "listen"
    BY <1>7
  <2> HIDE DEF a, y, z, t
  <2>2. CASE t = <<a, y>>
    <3>1. <<a, y>> \in Seq(Response) /\ Len(<<a, y>>) = 2 /\ <<a, y>>[1] = a /\ <<a, y>>[2] = y
      BY <2>1
    <3>2. \A i \in 1 .. 2 : i = 1 \/ i = 2
      OBVIOUS
    <3> QED
      BY <2>1, <2>2, <3>1, <3>2
  <2>3. CASE t = <<z>>
    <3>1. <<z>> \in Seq(Response) /\ Len(<<z>>) = 1 /\ <<z>>[1] = z
      BY <2>1
    <3> QED
      BY <2>1, <2>3, <3>1
  <2> QED
    BY <2>1, <2>2, <2>3
<1> HIDE DEF t
<1>9. PutsIn(t) = {} /\ Once(t) /\ NoRestore(t) /\ SuccessIsReal(t, {}, applied')
  BY <1>8 DEF PutsIn, Once, NoRestore, SuccessIsReal
<1>10. Phase(conn[c], Tail(up[c]), down[c] \o t)
  BY <1>1, <1>3, <1>5, <1>8, <1>9, PhaseServe
<1>11. IInv'
  BY <1>1, <1>2, <1>3, <1>8, <1>9, <1>10, AnswerStep
<1> QED
  BY <1>1, <1>2, <1>11 DEF Keeps

\* A put takes effect while its write is pending, and is answered once.
LEMMA ServePutInv ==
    ASSUME IInv, NEW c \in Clients, NEW accept \in BOOLEAN, ServePut(c, accept)
    PROVE  IInv' /\ Keeps
<1> DEFINE w == Head(up[c]).write
           x == PutReply(w, accept)
           t == <<x>>
<1>1. /\ up[c] # <<>> /\ Head(up[c]).kind = "put"
      /\ db' = IF accept THEN [db EXCEPT ![w.loc] = w] ELSE db
      /\ applied' = IF accept THEN applied \cup {w} ELSE applied
  BY DEF ServePut
<1>2. Answer(c, t) /\ status' = status
  BY DEF ServePut, Answer
<1>3. /\ up[c] \in Seq(Request) /\ down[c] \in Seq(Response)
      /\ conn[c] \in {"down", "authenticating", "connected"}
      /\ db \in [Locs -> Write \cup {Nil}] /\ applied \subseteq Write
      /\ Client(c)
  BY DEF IInv, Types
<1>4. /\ Head(up[c]) \in Request
      /\ Head(up[c]).kind = "put" => w \in PutsIn(up[c])
      /\ Once(up[c]) /\ Head(up[c]).kind = "put" => w \notin PutsIn(Tail(up[c]))
  BY <1>1, <1>3, TailMessage
<1>5. w \in Write /\ Head(up[c]) # Auth(TRUE)
  BY <1>1, <1>4 DEF Request, Auth, Put, Listen
<1>6. x \in Response /\ x.kind = "put" /\ x.write = w /\ x.ok = accept
  BY <1>5 DEF Response, PutReply
<1> HIDE DEF w, x
<1>7. w \in PutsIn(up[c]) /\ w \notin PutsIn(Tail(up[c])) /\ w \in writes[c]
  BY <1>1, <1>3, <1>4 DEF Client, PutsOnce, Visible
<1>8. status[w] = "pending"
  BY <1>3, <1>5, <1>7 DEF IInv, StatusOK, Client, Visible
<1>9. conn[c] = "connected"
  BY <1>1, <1>3, <1>7 DEF Client, Phase
<1>10. t \in Seq(Response) /\ PutsIn(t) = {w} /\ Once(t) /\ NoRestore(t)
  BY <1>6, OneMessage
<1>11. SuccessIsReal(t, {}, applied')
  <2>1. Len(t) = 1 /\ t[1] = x
    OBVIOUS
  <2> HIDE DEF t
  <2> QED
    BY <1>1, <1>6, <2>1 DEF SuccessIsReal
<1> HIDE DEF t
<1>12. Phase(conn[c], Tail(up[c]), down[c] \o t)
  BY <1>1, <1>3, <1>5, <1>9, <1>10, PhaseServe DEF w, Client
<1>13. /\ db' \in [Locs -> Write \cup {Nil}]
       /\ applied' \subseteq Write /\ applied \subseteq applied'
  BY <1>1, <1>3, <1>5
<1>14. IInv'
  BY <1>1, <1>2, <1>7, <1>10, <1>11, <1>12, <1>13, AnswerStep
<1>15. accept => Promise!Effect(w)
  BY <1>1, <1>2, <1>8 DEF Promise!Effect
<1>16. ~accept => UNCHANGED <<status, applied, db>>
  BY <1>1, <1>2
<1> QED
  BY <1>5, <1>14, <1>15, <1>16 DEF Keeps, Promise!Next

----------------------------------------------------------------------------
(* Responses *)

\* Taking a response.
LEMMA TakeResponse ==
    ASSUME IInv, NEW c \in Clients, down[c] # <<>>
    PROVE  /\ Head(down[c]) \in Response
           /\ [down EXCEPT ![c] = Tail(@)] \in [Clients -> Seq(Response)]
           /\ PutsOnce(up[c], Tail(down[c]), outstanding[c])
           /\ SuccessIsReal(Tail(down[c]), toAck[c], applied)
           /\ Head(down[c]).kind # "auth" => Phase(conn[c], up[c], Tail(down[c]))
           /\ Head(down[c]).kind = "put" =>
                 LET w == Head(down[c]).write
                 IN  /\ w \notin PutsIn(up[c]) /\ w \notin PutsIn(Tail(down[c]))
                     /\ Head(down[c]).ok => w \in applied
<1> DEFINE r == down[c]
<1>1. /\ r \in Seq(Response) /\ up[c] \in Seq(Request) /\ down \in [Clients -> Seq(Response)]
      /\ conn[c] \in {"down", "authenticating", "connected"} /\ r # <<>>
  BY DEF IInv, Types
<1>2. /\ PutsOnce(up[c], r, outstanding[c]) /\ SuccessIsReal(r, toAck[c], applied)
      /\ Phase(conn[c], up[c], r)
  BY DEF IInv, Client
<1>3. /\ Head(r) \in Response /\ Tail(r) \in Seq(Response)
      /\ PutsIn(Tail(r)) \subseteq PutsIn(r)
      /\ Head(r).kind = "put" => Head(r).write \in PutsIn(r)
      /\ Once(r) => /\ Once(Tail(r))
                    /\ Head(r).kind = "put" => Head(r).write \notin PutsIn(Tail(r))
  BY <1>1, TailMessage
<1>4. /\ Head(r) = r[1] /\ 1 \in 1 .. Len(r)
      /\ \A i \in 1 .. Len(Tail(r)) : Tail(r)[i] = r[i + 1] /\ i + 1 \in 1 .. Len(r)
  BY <1>1
<1>5. Head(r).kind # "auth" => Phase(conn[c], up[c], Tail(r))
  BY <1>1, <1>2, PhaseReceive
<1>6. PutsOnce(up[c], Tail(r), outstanding[c])
  BY <1>2, <1>3 DEF PutsOnce
<1>7. SuccessIsReal(Tail(r), toAck[c], applied)
  BY <1>2, <1>4 DEF SuccessIsReal
<1>8. ASSUME Head(r).kind = "put"
      PROVE  /\ Head(r).write \notin PutsIn(up[c]) /\ Head(r).write \notin PutsIn(Tail(r))
             /\ Head(r).ok => Head(r).write \in applied
  <2>1. Head(r).ok => Head(r).write \in applied
    BY <1>2, <1>4, <1>8 DEF SuccessIsReal
  <2> QED
    BY <1>2, <1>3, <1>8, <2>1 DEF PutsOnce
<1>9. [down EXCEPT ![c] = Tail(@)] \in [Clients -> Seq(Response)]
  BY <1>1, <1>3
<1> QED
  BY <1>3, <1>5, <1>6, <1>7, <1>8, <1>9

\* An accepted token restores what an authenticating connection lacks.
LEMMA ReceiveAuthInv ==
    ASSUME IInv, NEW c \in Clients, ReceiveAuth(c)
    PROVE  IInv' /\ Keeps
<1> DEFINE m == Head(down[c])
<1>1. down[c] # <<>> /\ m.kind = "auth" /\ UNCHANGED <<db, status, applied>>
  BY DEF ReceiveAuth, Receives
<1>2. CASE ~m.ok
  BY <1>1, <1>2, DisconnectedInv DEF ReceiveAuth
<1>3. CASE m.ok
  <2>1. /\ conn' = [conn EXCEPT ![c] = "connected"]
        /\ down' = [down EXCEPT ![c] = Tail(@)]
        /\ UNCHANGED <<issued, observed, writes, outstanding, toAck, listens>>
    BY <1>3 DEF ReceiveAuth
  <2>2. /\ down[c] \in Seq(Response) /\ up[c] \in Seq(Request)
        /\ up \in [Clients -> Seq(Request)] /\ down \in [Clients -> Seq(Response)]
        /\ conn \in [Clients -> {"down", "authenticating", "connected"}]
        /\ Types /\ Phase(conn[c], up[c], down[c])
    BY DEF IInv, Types, Client
  <2>3. /\ NoRestore(down[c]) => NoRestore(Tail(down[c])) /\ ~m.restore
        /\ PutsIn(Tail(down[c])) \subseteq PutsIn(down[c])
    BY <1>1, <2>2, TailMessage
  <2>4. /\ down' \in [Clients -> Seq(Response)]
        /\ PutsOnce(up[c], Tail(down[c]), outstanding[c])
        /\ SuccessIsReal(Tail(down[c]), toAck[c], applied)
    BY <1>1, <2>1, TakeResponse
  <2>5. CASE m.restore
    <3>1. PICK q \in Restored(c) : up' = [up EXCEPT ![c] = @ \o q]
      BY <1>3, <2>5 DEF ReceiveAuth
    <3>2. q \in Seq(Request) /\ PutsIn(q) \subseteq outstanding[c] /\ Once(q) /\ NoRestore(q)
      BY <2>2, RestoredOK
    <3>3. /\ PutsIn(up[c]) = {} /\ PutsIn(down[c]) = {}
          /\ NoRestore(up[c]) /\ NoRestore(Tail(down[c]))
      BY <1>1, <2>2, <2>3, <2>5 DEF Phase
    <3>4. /\ up[c] \o q \in Seq(Request)
          /\ PutsIn(up[c] \o q) = PutsIn(up[c]) \cup PutsIn(q)
          /\ Once(up[c]) /\ Once(q) /\ PutsIn(up[c]) \cap PutsIn(q) = {} => Once(up[c] \o q)
          /\ NoRestore(up[c]) /\ NoRestore(q) => NoRestore(up[c] \o q)
      BY <2>2, <3>2, JoinMessages
    <3>5. PutsOnce(up[c] \o q, Tail(down[c]), outstanding[c])
      BY <2>3, <2>4, <3>2, <3>3, <3>4 DEF PutsOnce
    <3>6. Phase("connected", up[c] \o q, Tail(down[c]))
      BY <3>2, <3>3, <3>4 DEF Phase
    <3>7. Types'
      <4>1. up' \in [Clients -> Seq(Request)]
        BY <2>2, <3>1, <3>4
      <4> QED
        BY <1>1, <2>1, <2>2, <2>4, <4>1 DEF Types
    <3>8. /\ up'[c] = up[c] \o q /\ down'[c] = Tail(down[c]) /\ conn'[c] = "connected"
          /\ \A d \in Clients \ {c} : conn'[d] = conn[d] /\ up'[d] = up[d] /\ down'[d] = down[d]
      BY <2>1, <2>2, <3>1
    <3> QED
      BY <1>1, <2>1, <2>4, <3>5, <3>6, <3>7, <3>8, ConnectionStep DEF Keeps
  <2>6. CASE ~m.restore
    <3>1. up' = up
      BY <1>3, <2>6 DEF ReceiveAuth
    <3>2. conn[c] = "connected"
      BY <1>1, <2>2, <2>6 DEF Phase
    <3>3. Phase("connected", up[c], Tail(down[c]))
      BY <2>2, <2>3, <3>2 DEF Phase
    <3>4. Types'
      BY <1>1, <2>1, <2>2, <2>4, <3>1 DEF Types
    <3>5. /\ up'[c] = up[c] /\ down'[c] = Tail(down[c]) /\ conn'[c] = "connected"
          /\ \A d \in Clients \ {c} : conn'[d] = conn[d] /\ up'[d] = up[d] /\ down'[d] = down[d]
      BY <2>1, <2>2, <3>1
    <3> QED
      BY <1>1, <2>1, <2>4, <3>3, <3>4, <3>5, ConnectionStep DEF Keeps
  <2> QED
    BY <2>5, <2>6
<1> QED
  BY <1>2, <1>3

\* Data answers observers and disturbs no write.
LEMMA ReceiveDataInv ==
    ASSUME IInv, NEW c \in Clients, ReceiveData(c)
    PROVE  IInv' /\ Keeps
<1>1. /\ down[c] # <<>> /\ Head(down[c]).kind = "data"
      /\ down' = [down EXCEPT ![c] = Tail(@)]
      /\ UNCHANGED <<conn, issued, observed, writes, outstanding, toAck, up, db, status, applied>>
  BY DEF ReceiveData, Receives
<1>2. listens' \in [Clients -> SUBSET Read]
  BY FireListens DEF IInv, ReceiveData
<1>3. /\ down' \in [Clients -> Seq(Response)]
      /\ PutsOnce(up[c], Tail(down[c]), outstanding[c])
      /\ SuccessIsReal(Tail(down[c]), toAck[c], applied)
      /\ Phase(conn[c], up[c], Tail(down[c]))
  BY <1>1, TakeResponse
<1>4. Types'
  BY <1>1, <1>2, <1>3 DEF IInv, Types
<1>5. down'[c] = Tail(down[c]) /\ \A d \in Clients \ {c} : down'[d] = down[d]
  BY <1>1 DEF IInv, Types
<1> QED
  BY <1>1, <1>3, <1>4, <1>5, ConnectionStep DEF Keeps

\* Completions of visible writes: what they report is true.
LEMMA CompleteStep ==
    ASSUME IInv, NEW c \in Clients, NEW acks \in SUBSET Ack,
           Written(acks) \subseteq writes[c], \A a \in acks : a.ok => a.write \in applied,
           status' = Completed(acks), writes' = [writes EXCEPT ![c] = @ \ Written(acks)],
           UNCHANGED <<issued, db, applied>>
    PROVE  /\ StatusOK' /\ Keeps
           /\ status' \in [Write -> Statuses] /\ writes' \in [Clients -> SUBSET Write]
<1>1. status \in [Write -> Statuses] /\ writes \in [Clients -> SUBSET Write]
  BY DEF IInv, Types
<1>2. \A w \in Write : \/ w \in Written(acks) /\ status'[w] \in {"ok", "error"}
                       \/ w \notin Written(acks) /\ status'[w] = status[w]
  <2> SUFFICES ASSUME NEW w \in Write
               PROVE  \/ w \in Written(acks) /\ status'[w] \in {"ok", "error"}
                      \/ w \notin Written(acks) /\ status'[w] = status[w]
    OBVIOUS
  <2>1. w \in Written(acks) <=> \E a \in acks : a.write = w
    BY DEF Written
  <2>2. status'[w] = IF \E a \in acks : a.write = w
                     THEN IF [write |-> w, ok |-> TRUE] \in acks THEN "ok" ELSE "error"
                     ELSE status[w]
    BY DEF Completed
  <2> QED
    BY <2>1, <2>2
<1>3. \A w \in Write : w \in Written(acks) /\ status'[w] = "ok" => w \in applied
  <2> SUFFICES ASSUME NEW w \in Write, w \in Written(acks), status'[w] = "ok"
               PROVE  w \in applied
    OBVIOUS
  <2>1. \E a \in acks : a.write = w
    BY DEF Written
  <2>2. status'[w] = IF [write |-> w, ok |-> TRUE] \in acks THEN "ok" ELSE "error"
    BY <2>1 DEF Completed
  <2> DEFINE b == [write |-> w, ok |-> TRUE]
  <2>3. b \in acks /\ b.ok /\ b.write = w
    BY <2>2
  <2> HIDE DEF b
  <2> QED
    BY <2>3
<1>4. \A w \in writes[c] : w \in Write /\ w.client = c /\ status[w] = "pending"
  BY <1>1 DEF IInv, StatusOK, Client, Visible
<1>5. status' \in [Write -> Statuses] /\ writes' \in [Clients -> SUBSET Write]
  BY <1>1 DEF Completed, Statuses
<1>6. StatusOK'
  <2> SUFFICES ASSUME NEW w \in Write
               PROVE  /\ status'[w] = "pending" <=> w \in writes'[w.client]
                      /\ w.n > issued[w.client] => status'[w] = "new"
    BY DEF StatusOK
  <2>1. w.client \in Clients
    BY DEF Write
  <2>2. CASE w \in Written(acks)
    BY <1>1, <1>2, <1>4, <2>2 DEF IInv, StatusOK
  <2>3. CASE w \notin Written(acks)
    <3>1. w \in writes'[w.client] <=> w \in writes[w.client]
      BY <1>1, <2>1, <2>3
    <3> QED
      BY <1>2, <2>3, <3>1 DEF IInv, StatusOK
  <2> QED
    BY <2>2, <2>3
<1>7. Promise!Resolve
  <2>1. DOMAIN status' = Write
    BY <1>5
  <2> QED
    BY <1>2, <1>3, <1>4, <2>1 DEF Promise!Resolve
<1> QED
  BY <1>5, <1>6, <1>7 DEF Keeps, Promise!Next

\* The last response to a listen completes what is held back.
LEMMA ReceiveListenInv ==
    ASSUME IInv, NEW c \in Clients, ReceiveListen(c)
    PROVE  IInv' /\ Keeps
<1> DEFINE m == Head(down[c])
           F == IF unacked[c] = 1 THEN toAck[c] ELSE {}
<1>1. /\ down[c] # <<>> /\ m.kind = "listen"
      /\ listens' = (IF m.ok THEN listens ELSE [listens EXCEPT ![c] = @ \ {m.read}])
      /\ toAck' = [toAck EXCEPT ![c] = @ \ F]
      /\ writes' = [writes EXCEPT ![c] = @ \ Written(F)]
      /\ status' = Completed(F)
      /\ down' = [down EXCEPT ![c] = Tail(@)]
      /\ UNCHANGED <<conn, issued, observed, outstanding, up, db, applied>>
  BY DEF ReceiveListen, Receives
<1>2. F = {} \/ F = toAck[c]
  OBVIOUS
<1> HIDE DEF F
<1>3. Types /\ Client(c)
  BY DEF IInv
<1>4. F \in SUBSET Ack /\ F \subseteq toAck[c]
  BY <1>2, <1>3 DEF Types
<1>5. Written(F) \subseteq writes[c] /\ \A a \in F : a.ok => a.write \in applied
  BY <1>3, <1>4 DEF Client, Visible, Written, SuccessIsReal
<1>6. /\ StatusOK' /\ Keeps
      /\ status' \in [Write -> Statuses] /\ writes' \in [Clients -> SUBSET Write]
  BY <1>1, <1>4, <1>5, CompleteStep
<1>7. /\ down' \in [Clients -> Seq(Response)]
      /\ PutsOnce(up[c], Tail(down[c]), outstanding[c])
      /\ SuccessIsReal(Tail(down[c]), toAck[c], applied)
      /\ Phase(conn[c], up[c], Tail(down[c]))
  BY <1>1, TakeResponse
<1>8. Visible(c, writes[c] \ Written(F), outstanding[c], toAck[c] \ F)
  <2>1. Visible(c, writes[c], outstanding[c], toAck[c])
    BY <1>3 DEF Client
  <2>2. CASE F = {}
    <3>1. Written(F) = {} /\ toAck[c] \ F = toAck[c]
      BY <2>2 DEF Written
    <3>2. writes[c] \ Written(F) = writes[c]
      BY <3>1
    <3> QED
      BY <2>1, <3>1, <3>2
  <2>3. CASE F = toAck[c]
    <3>1. Written(toAck[c] \ F) = {} /\ writes[c] \ Written(F) = outstanding[c]
      BY <2>1, <2>3 DEF Visible, Written
    <3> QED
      BY <2>1, <3>1 DEF Visible
  <2> QED
    BY <1>2, <2>2, <2>3
<1>9. SuccessIsReal(Tail(down[c]), toAck[c] \ F, applied)
  BY <1>7 DEF SuccessIsReal
<1>10. /\ writes'[c] = writes[c] \ Written(F) /\ toAck'[c] = toAck[c] \ F
       /\ down'[c] = Tail(down[c])
       /\ \A d \in Clients \ {c} : /\ writes'[d] = writes[d] /\ toAck'[d] = toAck[d]
                                   /\ down'[d] = down[d]
  BY <1>1, <1>3 DEF Types
<1>11. Client(c)'
  BY <1>1, <1>7, <1>8, <1>9, <1>10 DEF Client
<1>12. Types'
  <2>1. toAck' \in [Clients -> SUBSET Ack] /\ listens' \in [Clients -> SUBSET Read]
    BY <1>1, <1>3 DEF Types
  <2> QED
    BY <1>1, <1>3, <1>6, <1>7, <2>1 DEF Types
<1> QED
  BY <1>1, <1>6, <1>10, <1>11, <1>12, OtherClients

\* The response to a put completes it, or is held back.
LEMMA ReceivePutInv ==
    ASSUME IInv, NEW c \in Clients, ReceivePut(c)
    PROVE  IInv' /\ Keeps
<1> DEFINE m == Head(down[c])
           ack == [write |-> m.write, ok |-> m.ok]
<1>1. /\ down[c] # <<>> /\ m.kind = "put"
      /\ down' = [down EXCEPT ![c] = Tail(@)]
      /\ UNCHANGED <<conn, issued, observed, listens, up, db, applied>>
  BY DEF ReceivePut, Receives
<1>2. Types /\ Client(c)
  BY DEF IInv
<1>3. /\ m \in Response
      /\ down' \in [Clients -> Seq(Response)]
      /\ PutsOnce(up[c], Tail(down[c]), outstanding[c])
      /\ SuccessIsReal(Tail(down[c]), toAck[c], applied)
      /\ Phase(conn[c], up[c], Tail(down[c]))
      /\ m.write \notin PutsIn(up[c]) /\ m.write \notin PutsIn(Tail(down[c]))
      /\ m.ok => m.write \in applied
  BY <1>1, TakeResponse
<1>4. m.write \in Write /\ m.ok \in BOOLEAN
  BY <1>1, <1>3 DEF Response, AuthReply, PutReply, ListenReply, Data
<1>5. ack \in Ack /\ ack.write = m.write /\ ack.ok = m.ok
  BY <1>4 DEF Ack
<1>6. down'[c] = Tail(down[c]) /\ \A d \in Clients \ {c} : down'[d] = down[d]
  BY <1>1, <1>2 DEF Types
<1>7. CASE m.write \notin outstanding[c]
  <2>1. UNCHANGED <<outstanding, toAck, writes, status>>
    BY <1>7 DEF ReceivePut
  <2>2. Types'
    BY <1>1, <1>2, <1>3, <2>1 DEF Types
  <2> QED
    BY <1>1, <1>3, <1>6, <2>1, <2>2, ConnectionStep DEF Keeps
<1>8. CASE m.write \in outstanding[c]
  <2>1. outstanding' = [outstanding EXCEPT ![c] = @ \ {m.write}]
    BY <1>8 DEF ReceivePut
  <2>2. PutsOnce(up[c], Tail(down[c]), outstanding[c] \ {m.write})
    BY <1>3 DEF PutsOnce
  <2>3. Visible(c, writes[c], outstanding[c], toAck[c]) /\ m.write \in writes[c]
    BY <1>2, <1>8 DEF Client, Visible
  <2>4. /\ outstanding'[c] = outstanding[c] \ {m.write}
        /\ \A d \in Clients \ {c} : outstanding'[d] = outstanding[d]
        /\ outstanding' \in [Clients -> SUBSET Write]
    BY <1>2, <2>1 DEF Types
  <2>5. CASE unacked[c] = 0
    <3>1. /\ writes' = [writes EXCEPT ![c] = @ \ {m.write}]
          /\ status' = Completed({ack}) /\ toAck' = toAck
      BY <1>8, <2>5 DEF ReceivePut
    <3> HIDE DEF ack
    <3>2. Written({ack}) = {m.write}
      BY <1>5 DEF Written
    <3>3. /\ StatusOK' /\ Keeps
          /\ status' \in [Write -> Statuses] /\ writes' \in [Clients -> SUBSET Write]
      <4>1. {ack} \in SUBSET Ack /\ \A a \in {ack} : a.ok => a.write \in applied
        BY <1>3, <1>5
      <4>2. Written({ack}) \subseteq writes[c]
            /\ writes' = [writes EXCEPT ![c] = @ \ Written({ack})]
        BY <2>3, <3>1, <3>2
      <4>3. UNCHANGED <<issued, db, applied>>
        BY <1>1
      <4> HIDE DEF m
      <4> QED
        BY <3>1, <4>1, <4>2, <4>3, CompleteStep
    <3>4. Visible(c, writes[c] \ {m.write}, outstanding[c] \ {m.write}, toAck[c])
      BY <1>8, <2>3 DEF Visible
    <3>5. /\ writes'[c] = writes[c] \ {m.write}
          /\ \A d \in Clients \ {c} : writes'[d] = writes[d]
      BY <1>2, <3>1 DEF Types
    <3>6. Client(c)'
      BY <1>1, <1>3, <1>6, <2>2, <2>4, <3>1, <3>4, <3>5 DEF Client
    <3>7. Types'
      BY <1>1, <1>2, <1>3, <2>4, <3>1, <3>3 DEF Types
    <3> QED
      BY <1>1, <1>6, <2>4, <3>1, <3>3, <3>5, <3>6, <3>7, OtherClients
  <2>6. CASE unacked[c] # 0
    <3>1. toAck' = [toAck EXCEPT ![c] = @ \cup {ack}] /\ UNCHANGED <<writes, status>>
      BY <1>8, <2>6 DEF ReceivePut
    <3> HIDE DEF ack
    <3>2. Written(toAck[c] \cup {ack}) = Written(toAck[c]) \cup {m.write}
      BY <1>5 DEF Written
    <3>3. Visible(c, writes[c], outstanding[c] \ {m.write}, toAck[c] \cup {ack})
      BY <1>8, <2>3, <3>2 DEF Visible
    <3>4. SuccessIsReal(Tail(down[c]), toAck[c] \cup {ack}, applied)
      BY <1>3, <1>5 DEF SuccessIsReal
    <3>5. /\ toAck'[c] = toAck[c] \cup {ack}
          /\ \A d \in Clients \ {c} : toAck'[d] = toAck[d]
          /\ toAck' \in [Clients -> SUBSET Ack]
      BY <1>2, <1>5, <3>1 DEF Types
    <3>6. Client(c)'
      BY <1>1, <1>3, <1>6, <2>2, <2>4, <3>1, <3>3, <3>4, <3>5 DEF Client
    <3>7. StatusOK' /\ Types'
      BY <1>1, <1>2, <1>3, <2>4, <3>1, <3>5 DEF IInv, StatusOK, Types
    <3> QED
      BY <1>1, <1>6, <2>4, <3>1, <3>5, <3>6, <3>7, OtherClients DEF Keeps
  <2> QED
    BY <2>5, <2>6
<1> QED
  BY <1>7, <1>8

----------------------------------------------------------------------------
(* The theorems *)

\* One step.
LEMMA StepInv == IInv /\ [Next]_vars => IInv' /\ Keeps
<1> SUFFICES ASSUME IInv, [Next]_vars PROVE IInv' /\ Keeps
  OBVIOUS
<1>1. CASE UNCHANGED vars
  BY <1>1 DEF IInv, Types, StatusOK, Client, vars, client, Keeps
<1>2. ASSUME NEW c \in Clients, App(c) PROVE IInv' /\ Keeps
  BY <1>2, SetInv, ObserveInv, ChangeTokenInv DEF App
<1>3. ASSUME NEW c \in Clients, Disconnect(c) PROVE IInv' /\ Keeps
  BY <1>3, DisconnectedInv DEF Disconnect
<1>4. ASSUME NEW c \in Clients, Serve(c) PROVE IInv' /\ Keeps
  BY <1>4, ServeAuthInv, ServePutInv, ServeListenInv DEF Serve
<1>5. ASSUME NEW c \in Clients, Receive(c) PROVE IInv' /\ Keeps
  BY <1>5, ReceiveAuthInv, ReceiveDataInv, ReceiveListenInv, ReceivePutInv DEF Receive
<1> QED
  BY <1>1, <1>2, <1>3, <1>4, <1>5, ConnectInv, KillInv DEF Next

\* The invariant holds in every reachable state.
THEOREM Invariance == Spec => []IInv
<1> QED
  BY InitInv, StepInv, PTL DEF Spec

\* The tree of visible writes and the queue of puts (FWriteTree, and
\* outstandingPuts with putsToAck in FPersistentConnection) never drift apart.
THEOREM WritesMatch == Spec => []PendingMatches
<1>1. IInv => PendingMatches
  BY DEF IInv, Client, Visible, PendingMatches
<1> QED
  BY <1>1, Invariance, PTL

\* The client keeps the promise of setValue, whatever connections are lost: a
\* write takes effect only between its call and its completion, and a success
\* that is reported is the server's.
THEOREM PromiseKept == Spec => KeepsPromise
<1>1. Init => Promise!Init
  BY DEF Init, Promise!Init
<1>2. IInv /\ [Next]_vars => [Promise!Next]_(Promise!avars)
  BY StepInv DEF Keeps, Promise!avars
<1> QED
  BY <1>1, <1>2, Invariance, PTL DEF Spec, KeepsPromise, Promise!Spec

================================================================================
