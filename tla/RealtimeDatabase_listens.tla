----------------------- MODULE RealtimeDatabase_listens -----------------------
(***************************************************************************)
(* Proofs about what a client of RealtimeDatabase reads, for any number of   *)
(* clients, writes and reads.  The count of unanswered listens is what is on *)
(* the connection, so it never becomes negative.  Puts are applied and       *)
(* answered in the order of their numbers, so nothing older than what was    *)
(* acknowledged is at the server or on its way to the client.  The cache of  *)
(* the write tree (WriteTree) shows the latest visible write, whatever the   *)
(* order in which the writes are completed.                                 *)
(***************************************************************************)
EXTENDS RealtimeDatabase_proofs, WriteTree, FiniteSetTheorems, FunctionTheorems,
        WellFoundedInduction

\* The listens, or the answers to listens, in a sequence of messages.
Places(s) == {i \in DOMAIN s : s[i].kind = "listen"}
Heard(s)  == Cardinality(Places(s))

\* The count of a client is right.
Counted(c) == unacked[c] = Heard(up[c]) + Heard(down[c])

LInv == IInv /\ unacked \in [Clients -> Nat] /\ \A c \in Clients : Counted(c)

----------------------------------------------------------------------------
(* Counting *)

\* A sequence has a number of listens.
LEMMA HeardIsNatural ==
    ASSUME NEW S, NEW s \in Seq(S)
    PROVE  IsFiniteSet(Places(s)) /\ Heard(s) \in Nat
<1>1. Len(s) \in Nat /\ DOMAIN s = 1 .. Len(s)
  OBVIOUS
<1>2. IsFiniteSet(1 .. Len(s))
  BY <1>1, FS_Interval
<1>3. Places(s) \in SUBSET (1 .. Len(s))
  BY <1>1 DEF Places
<1>4. IsFiniteSet(Places(s))
  BY <1>2, <1>3, FS_Subset
<1> QED
  BY <1>4, FS_CardinalityType DEF Heard

\* An empty sequence has none.
LEMMA NoneHeard == Heard(<<>>) = 0
<1>1. Places(<<>>) = {}
  BY DEF Places
<1> QED
  BY <1>1, FS_EmptySet DEF Heard

\* A message more.
LEMMA HeardAppend ==
    ASSUME NEW S, NEW s \in Seq(S), NEW x \in S
    PROVE  Heard(Append(s, x)) = Heard(s) + IF x.kind = "listen" THEN 1 ELSE 0
<1> DEFINE t == Append(s, x)
<1>1. /\ t \in Seq(S) /\ DOMAIN t = (1 .. Len(s)) \cup {Len(s) + 1} /\ t[Len(s) + 1] = x
      /\ \A i \in 1 .. Len(s) : t[i] = s[i]
      /\ Len(s) \in Nat /\ DOMAIN s = 1 .. Len(s)
  OBVIOUS
<1> HIDE DEF t
<1>2. Len(s) + 1 \notin Places(s)
  BY <1>1 DEF Places
<1>3. IsFiniteSet(Places(s)) /\ Heard(s) \in Nat
  BY HeardIsNatural
<1>4. CASE x.kind = "listen"
  <2>1. Places(t) = Places(s) \cup {Len(s) + 1}
    BY <1>1, <1>4 DEF Places
  <2>2. Cardinality(Places(s) \cup {Len(s) + 1}) = Cardinality(Places(s)) + 1
    BY <1>2, <1>3, FS_AddElement
  <2> QED
    BY <1>4, <2>1, <2>2 DEF Heard, t
<1>5. CASE x.kind # "listen"
  <2>1. Places(t) = Places(s)
    BY <1>1, <1>5 DEF Places
  <2> QED
    BY <1>3, <1>5, <2>1 DEF Heard, t
<1> QED
  BY <1>4, <1>5

\* Two sequences joined.
LEMMA HeardJoin ==
    ASSUME NEW S, NEW s \in Seq(S), NEW t \in Seq(S)
    PROVE  Heard(s \o t) = Heard(s) + Heard(t)
<1> DEFINE u == s \o t
           shifted == {i \in (Len(s) + 1) .. (Len(s) + Len(t)) : t[i - Len(s)].kind = "listen"}
           f == [i \in Places(t) |-> Len(s) + i]
<1>1. /\ u \in Seq(S) /\ DOMAIN u = 1 .. (Len(s) + Len(t))
      /\ DOMAIN s = 1 .. Len(s) /\ DOMAIN t = 1 .. Len(t)
      /\ Len(s) \in Nat /\ Len(t) \in Nat
      /\ \A i \in 1 .. Len(s) : u[i] = s[i]
      /\ \A i \in (Len(s) + 1) .. (Len(s) + Len(t)) : u[i] = t[i - Len(s)]
  OBVIOUS
<1> HIDE DEF u
<1>2. Places(u) = Places(s) \cup shifted
  BY <1>1 DEF Places
<1>3. Places(s) \cap shifted = {}
  BY <1>1 DEF Places
<1>4. IsFiniteSet(Places(s)) /\ IsFiniteSet(Places(t)) /\ Heard(s) \in Nat /\ Heard(t) \in Nat
  BY HeardIsNatural
<1>5. f \in Bijection(Places(t), shifted)
  <2>1. \A i \in Places(t) : i \in Int /\ Len(s) + i \in shifted
    BY <1>1 DEF Places
  <2>2. f \in [Places(t) -> shifted]
    BY <2>1
  <2>3. \A i, j \in Places(t) : f[i] = f[j] => i = j
    BY <1>1, <2>1
  <2>4. ASSUME NEW k \in shifted PROVE \E i \in Places(t) : f[i] = k
    <3>1. k - Len(s) \in Places(t) /\ Len(s) + (k - Len(s)) = k
      BY <1>1 DEF Places
    <3> QED
      BY <3>1
  <2> HIDE DEF f, shifted
  <2> QED
    BY <2>2, <2>3, <2>4, Fun_IsBij
<1> HIDE DEF shifted, f
<1>6. IsFiniteSet(shifted) /\ Cardinality(shifted) = Heard(t)
  <2>1. ExistsBijection(Places(t), shifted)
    BY <1>5, Fun_ExistsBij
  <2> QED
    BY <1>4, <2>1, FS_Bijection DEF Heard
<1>7. Cardinality(Places(s) \cup shifted) = Heard(s) + Heard(t) - Cardinality({})
  BY <1>3, <1>4, <1>6, FS_Union DEF Heard
<1> QED
  BY <1>2, <1>4, <1>7, FS_EmptySet DEF Heard, u

\* The first message taken.
LEMMA HeardTail ==
    ASSUME NEW S, NEW s \in Seq(S), s # <<>>
    PROVE  /\ Head(s) \in S /\ Tail(s) \in Seq(S)
           /\ Heard(s) = Heard(Tail(s)) + IF Head(s).kind = "listen" THEN 1 ELSE 0
<1>1. Head(s) \in S /\ Tail(s) \in Seq(S) /\ s = <<Head(s)>> \o Tail(s)
  OBVIOUS
<1>2. <<Head(s)>> = Append(<<>>, Head(s)) /\ <<>> \in Seq(S) /\ <<Head(s)>> \in Seq(S)
  BY <1>1
<1>3. Heard(<<Head(s)>>) = Heard(<<>>) + IF Head(s).kind = "listen" THEN 1 ELSE 0
  BY <1>1, <1>2, HeardAppend
<1>4. Heard(s) = Heard(<<Head(s)>>) + Heard(Tail(s))
  BY <1>1, <1>2, HeardJoin
<1>5. Heard(Tail(s)) \in Nat
  BY <1>1, HeardIsNatural
<1> QED
  BY <1>1, <1>3, <1>4, <1>5, NoneHeard

\* What is sent again has every listen of the client once.
LEMMA HeardRestored ==
    ASSUME Types, NEW c \in Clients, NEW q \in Restored(c)
    PROVE  Heard(q) = Cardinality(listens[c]) /\ Cardinality(listens[c]) \in Nat
<1>1. PICK r \in InOrder(listens[c], MaxReads), p \in InOrder(outstanding[c], MaxWrites) :
          q = SentAgain(r, p)
  BY DEF Restored
<1> DEFINE L == [i \in DOMAIN r |-> Listen(r[i])]
           P == [i \in DOMAIN p |-> Put(p[i])]
<1>2. listens[c] \subseteq Read /\ outstanding[c] \subseteq Write
  BY DEF Types
<1>3. PICK m \in 0 .. MaxReads : r \in [1 .. m -> listens[c]]
  BY DEF InOrder, SeqOf
<1>4. PICK k \in 0 .. MaxWrites : p \in [1 .. k -> outstanding[c]]
  BY DEF InOrder, SeqOf
<1>5. m \in Nat /\ k \in Nat
  BY BoundsAreNatural, <1>3, <1>4
<1>6. L \in [1 .. m -> Request] /\ \A i \in 1 .. m : L[i].kind = "listen"
  BY <1>2, <1>3 DEF Request, Listen
<1>7. P \in [1 .. k -> Request] /\ \A i \in 1 .. k : P[i].kind = "put"
  BY <1>2, <1>4 DEF Request, Put
<1>8. q = L \o P
  BY <1>1 DEF SentAgain
<1>9. Cardinality(listens[c]) = m
  <2>1. /\ {r[i] : i \in DOMAIN r} = listens[c]
        /\ \A i, j \in 1 .. m : i < j => r[i].n < r[j].n
    BY <1>1, <1>3 DEF InOrder, Ordered, ToSet
  <2>2. \A i \in 1 .. m : r[i].n \in Int
    BY <1>2, <1>3 DEF Read
  <2>3. \A i, j \in 1 .. m : r[i] = r[j] => i = j
    <3> SUFFICES ASSUME NEW i \in 1 .. m, NEW j \in 1 .. m, r[i] = r[j]
                 PROVE  ~(i < j) /\ ~(j < i)
      BY <1>5
    <3> QED
      BY <2>1, <2>2
  <2>4. \A x \in listens[c] : \E i \in 1 .. m : r[i] = x
    BY <1>3, <2>1
  <2>5. r \in Bijection(1 .. m, listens[c])
    BY <1>3, <2>3, <2>4, Fun_IsBij
  <2>6. ExistsBijection(1 .. m, listens[c])
    BY <2>5, Fun_ExistsBij
  <2> QED
    BY <1>5, <2>6, FS_CountingElements
<1> HIDE DEF L, P
<1>10. L \in Seq(Request) /\ P \in Seq(Request) /\ DOMAIN L = 1 .. m /\ DOMAIN P = 1 .. k
  BY <1>5, <1>6, <1>7
<1>11. Heard(L) = m
  <2>1. Places(L) = 1 .. m
    BY <1>6, <1>10 DEF Places
  <2> QED
    BY <1>5, <2>1, FS_Interval DEF Heard
<1>12. Heard(P) = 0
  <2>1. Places(P) = {}
    BY <1>7, <1>10 DEF Places
  <2> QED
    BY <2>1, FS_EmptySet DEF Heard
<1> QED
  BY <1>5, <1>8, <1>9, <1>10, <1>11, <1>12, HeardJoin

----------------------------------------------------------------------------
(* Every step keeps the count *)

\* Initially nothing is on a connection.
LEMMA InitCount == Init => LInv
<1> SUFFICES ASSUME Init PROVE LInv
  OBVIOUS
<1>1. unacked \in [Clients -> Nat]
  BY DEF Init
<1>2. ASSUME NEW c \in Clients PROVE Counted(c)
  <2>1. unacked[c] = 0 /\ up[c] = <<>> /\ down[c] = <<>>
    BY DEF Init
  <2> QED
    BY <2>1, NoneHeard DEF Counted
<1> QED
  BY <1>1, <1>2, InitInv DEF LInv

\* A step of one client that counts right for this client.
LEMMA CountStep ==
    ASSUME LInv, IInv', NEW c \in Clients, NEW n, unacked' = [unacked EXCEPT ![c] = n],
           n = Heard(up'[c]) + Heard(down'[c]),
           \A d \in Clients \ {c} : up'[d] = up[d] /\ down'[d] = down[d]
    PROVE  LInv'
<1>1. Heard(up'[c]) \in Nat /\ Heard(down'[c]) \in Nat
  <2>1. up'[c] \in Seq(Request) /\ down'[c] \in Seq(Response)
    BY DEF IInv, Types
  <2> QED
    BY <2>1, HeardIsNatural
<1>2. unacked' \in [Clients -> Nat]
  BY <1>1 DEF LInv
<1>3. ASSUME NEW d \in Clients PROVE Counted(d)'
  <2>1. CASE d = c
    BY <2>1 DEF LInv, Counted
  <2>2. CASE d # c
    BY <2>2 DEF LInv, Counted
  <2> QED
    BY <2>1, <2>2
<1> QED
  BY <1>2, <1>3 DEF LInv

\* What is known of the connection of a client.
LEMMA ConnectionFacts ==
    ASSUME LInv, NEW c \in Clients
    PROVE  /\ unacked \in [Clients -> Nat] /\ unacked[c] \in Nat
           /\ up \in [Clients -> Seq(Request)] /\ up[c] \in Seq(Request)
           /\ down \in [Clients -> Seq(Response)] /\ down[c] \in Seq(Response)
           /\ Heard(up[c]) \in Nat /\ Heard(down[c]) \in Nat
           /\ unacked[c] = Heard(up[c]) + Heard(down[c])
           /\ unacked = [unacked EXCEPT ![c] = unacked[c]]
<1>1. /\ up \in [Clients -> Seq(Request)] /\ up[c] \in Seq(Request)
      /\ down \in [Clients -> Seq(Response)] /\ down[c] \in Seq(Response)
      /\ unacked \in [Clients -> Nat] /\ unacked[c] = Heard(up[c]) + Heard(down[c])
  BY DEF LInv, IInv, Types, Counted
<1>2. Heard(up[c]) \in Nat /\ Heard(down[c]) \in Nat
  BY <1>1, HeardIsNatural
<1>3. unacked = [unacked EXCEPT ![c] = unacked[c]]
  BY <1>1
<1> QED
  BY <1>1, <1>2, <1>3

\* A request more.
LEMMA CountRequest ==
    ASSUME LInv, IInv', NEW c \in Clients, NEW x \in Request,
           up' = [up EXCEPT ![c] = Append(@, x)], down' = down,
           unacked' = IF x.kind = "listen" THEN [unacked EXCEPT ![c] = @ + 1] ELSE unacked
    PROVE  LInv'
<1> DEFINE n == unacked[c] + IF x.kind = "listen" THEN 1 ELSE 0
<1>1. /\ up'[c] = Append(up[c], x)
      /\ \A d \in Clients \ {c} : up'[d] = up[d]
  BY ConnectionFacts
<1>2. Heard(up'[c]) = Heard(up[c]) + IF x.kind = "listen" THEN 1 ELSE 0
  BY <1>1, ConnectionFacts, HeardAppend
<1>3. n = Heard(up'[c]) + Heard(down'[c])
  BY <1>2, ConnectionFacts
<1>4. unacked' = [unacked EXCEPT ![c] = n]
  <2>1. x.kind # "listen" => n = unacked[c]
    BY ConnectionFacts
  <2>2. x.kind = "listen" => n = unacked[c] + 1
    OBVIOUS
  <2> HIDE DEF n
  <2> QED
    BY <2>1, <2>2, ConnectionFacts
<1> HIDE DEF n
<1> QED
  BY <1>1, <1>3, <1>4, CountStep

\* Nothing on the connection changes.
LEMMA CountStays ==
    ASSUME LInv, IInv', UNCHANGED <<up, down, unacked>>
    PROVE  LInv'
BY DEF LInv, Counted

\* observeSingleEvent counts the listen it sends.
LEMMA ObserveCount ==
    ASSUME LInv, IInv', NEW c \in Clients, NEW l \in Locs, Observe(c, l)
    PROVE  LInv'
<1> DEFINE r == [n |-> observed[c] + 1, loc |-> l]
<1>1. r \in Read
  BY BoundsAreNatural DEF LInv, IInv, Types, Observe, Read
<1>2. Listen(r) \in Request /\ Listen(r).kind = "listen"
  BY <1>1 DEF Request, Listen
<1>3. down' = down
  BY DEF Observe
<1>4. CASE conn[c] = "down"
  BY <1>3, <1>4, CountStays DEF Observe
<1>5. CASE conn[c] # "down"
  <2>1. /\ up' = [up EXCEPT ![c] = Append(@, Listen(r))]
        /\ unacked' = [unacked EXCEPT ![c] = @ + 1]
    BY <1>5 DEF Observe
  <2> QED
    BY <1>2, <1>3, <2>1, CountRequest
<1> QED
  BY <1>4, <1>5

\* A put is not counted.
LEMMA SetCount ==
    ASSUME LInv, IInv', NEW c \in Clients, NEW l \in Locs, Set(c, l)
    PROVE  LInv'
<1> DEFINE w == [client |-> c, n |-> issued[c] + 1, loc |-> l]
<1>1. w \in Write
  BY BoundsAreNatural DEF LInv, IInv, Types, Set, Write
<1>2. Put(w) \in Request /\ Put(w).kind = "put"
  BY <1>1 DEF Request, Put
<1>3. /\ down' = down /\ unacked' = unacked
      /\ up' = IF conn[c] = "connected" THEN [up EXCEPT ![c] = Append(@, Put(w))] ELSE up
  BY DEF Set
<1> HIDE DEF w
<1>4. CASE conn[c] = "connected"
  BY <1>2, <1>3, <1>4, CountRequest
<1>5. CASE conn[c] # "connected"
  BY <1>3, <1>5, CountStays
<1> QED
  BY <1>4, <1>5

\* A token is not counted.
LEMMA ChangeTokenCount ==
    ASSUME LInv, IInv', NEW c \in Clients, ChangeToken(c)
    PROVE  LInv'
<1>1. Auth(FALSE) \in Request /\ Auth(FALSE).kind = "auth"
  BY DEF Request, Auth
<1>2. /\ up' = [up EXCEPT ![c] = Append(@, Auth(FALSE))]
      /\ down' = down /\ unacked' = unacked
  BY DEF ChangeToken
<1> QED
  BY <1>1, <1>2, CountRequest

\* A new connection counts from nothing.
LEMMA ConnectCount ==
    ASSUME LInv, IInv', NEW c \in Clients, Connect(c)
    PROVE  LInv'
<1>1. down' = down /\ up[c] = <<>> /\ down[c] = <<>>
  BY DEF Connect, LInv, IInv, Client, Phase
<1>2. unacked[c] = 0
  BY <1>1, ConnectionFacts, NoneHeard
<1>3. CASE up' = [up EXCEPT ![c] = <<Auth(TRUE)>>] /\ UNCHANGED unacked
  <2> DEFINE a == Auth(TRUE)
  <2>1. a \in Request /\ a.kind = "auth"
    BY DEF Request, Auth
  <2> HIDE DEF a
  <2>2. up'[c] = <<a>> /\ \A d \in Clients \ {c} : up'[d] = up[d]
    BY <1>3, ConnectionFacts DEF a
  <2>3. Heard(up'[c]) = 0
    <3>1. <<a>> = Append(<<>>, a) /\ <<>> \in Seq(Request)
      BY <2>1
    <3>2. Heard(<<a>>) = Heard(<<>>) + IF a.kind = "listen" THEN 1 ELSE 0
      BY <2>1, <3>1, HeardAppend
    <3> QED
      BY <2>1, <2>2, <3>2, NoneHeard
  <2>4. unacked' = [unacked EXCEPT ![c] = unacked[c]]
    BY <1>3, ConnectionFacts
  <2>5. unacked[c] = Heard(up'[c]) + Heard(down'[c])
    BY <1>1, <1>2, <2>3, NoneHeard
  <2>6. \A d \in Clients \ {c} : up'[d] = up[d] /\ down'[d] = down[d]
    BY <1>1, <2>2
  <2> QED
    BY <2>4, <2>5, <2>6, CountStep
<1>4. CASE /\ \E q \in Restored(c) : up' = [up EXCEPT ![c] = q]
           /\ unacked' = [unacked EXCEPT ![c] = @ + Cardinality(listens[c])]
  <2>1. PICK q \in Restored(c) : up' = [up EXCEPT ![c] = q]
    BY <1>4
  <2>2. up'[c] = q /\ \A d \in Clients \ {c} : up'[d] = up[d]
    BY <2>1, ConnectionFacts
  <2>3. Heard(q) = Cardinality(listens[c]) /\ Cardinality(listens[c]) \in Nat
    BY HeardRestored DEF LInv, IInv
  <2>4. unacked' = [unacked EXCEPT ![c] = Heard(q)]
    <3>1. unacked[c] + Cardinality(listens[c]) = Heard(q)
      BY <1>2, <2>3
    <3> QED
      BY <1>4, <3>1
  <2>5. Heard(q) = Heard(up'[c]) + Heard(down'[c])
    BY <1>1, <2>2, <2>3, NoneHeard
  <2> QED
    BY <1>1, <2>2, <2>4, <2>5, CountStep
<1> QED
  BY <1>3, <1>4 DEF Connect

\* With the connection its count goes.
LEMMA DropCount ==
    ASSUME LInv, IInv', NEW c \in Clients, unacked' = [unacked EXCEPT ![c] = 0],
           up' = [up EXCEPT ![c] = <<>>], down' = [down EXCEPT ![c] = <<>>]
    PROVE  LInv'
<1>1. /\ up'[c] = <<>> /\ down'[c] = <<>>
      /\ \A d \in Clients \ {c} : up'[d] = up[d] /\ down'[d] = down[d]
  BY ConnectionFacts
<1>2. 0 = Heard(up'[c]) + Heard(down'[c])
  BY <1>1, NoneHeard
<1> QED
  BY <1>1, <1>2, CountStep

\* The server's answer has the listens of the request.
LEMMA AnswerCount ==
    ASSUME LInv, IInv', NEW c \in Clients, NEW t \in Seq(Response), up[c] # <<>>, Answer(c, t),
           Heard(t) = IF Head(up[c]).kind = "listen" THEN 1 ELSE 0
    PROVE  LInv'
<1>1. /\ up' = [up EXCEPT ![c] = Tail(@)] /\ down' = [down EXCEPT ![c] = @ \o t]
      /\ unacked' = unacked
  BY DEF Answer, client
<1>2. /\ up'[c] = Tail(up[c]) /\ down'[c] = down[c] \o t
      /\ \A d \in Clients \ {c} : up'[d] = up[d] /\ down'[d] = down[d]
  BY <1>1, ConnectionFacts
<1>3. Heard(down'[c]) = Heard(down[c]) + Heard(t)
  BY <1>2, ConnectionFacts, HeardJoin
<1>4. /\ Tail(up[c]) \in Seq(Request)
      /\ Heard(up[c]) = Heard(up'[c]) + IF Head(up[c]).kind = "listen" THEN 1 ELSE 0
  BY <1>2, ConnectionFacts, HeardTail
<1>5. Heard(up'[c]) \in Nat
  BY <1>2, <1>4, HeardIsNatural
<1>6. unacked[c] = Heard(up'[c]) + Heard(down'[c])
  BY <1>3, <1>4, <1>5, ConnectionFacts
<1>7. unacked' = [unacked EXCEPT ![c] = unacked[c]]
  BY <1>1, ConnectionFacts
<1> QED
  BY <1>2, <1>6, <1>7, CountStep

\* One message alone.
LEMMA HeardOne ==
    ASSUME NEW S, NEW x \in S
    PROVE  <<x>> \in Seq(S) /\ Heard(<<x>>) = IF x.kind = "listen" THEN 1 ELSE 0
<1>1. <<x>> = Append(<<>>, x) /\ <<>> \in Seq(S) /\ <<x>> \in Seq(S)
  OBVIOUS
<1>2. Heard(Append(<<>>, x)) = Heard(<<>>) + IF x.kind = "listen" THEN 1 ELSE 0
  BY <1>1, HeardAppend
<1> QED
  BY <1>1, <1>2, NoneHeard

\* The server keeps the count.
LEMMA ServeCount ==
    ASSUME LInv, IInv', NEW c \in Clients, Serve(c)
    PROVE  LInv'
<1> DEFINE m == Head(up[c])
<1>1. up[c] # <<>> => m \in Request
  BY ConnectionFacts, HeardTail
<1>2. CASE ServeAuth(c)
  <2>1. PICK ok \in BOOLEAN : Answer(c, <<AuthReply(ok, m.restore)>>)
    BY <1>2 DEF ServeAuth
  <2>2. up[c] # <<>> /\ m.kind = "auth" /\ m \in Request
    BY <1>1, <1>2 DEF ServeAuth
  <2>3. m.restore \in BOOLEAN
    BY <2>2 DEF Request, Auth, Put, Listen
  <2> DEFINE x == AuthReply(ok, m.restore)
  <2>4. x \in Response /\ x.kind = "auth"
    BY <2>3 DEF Response, AuthReply
  <2> HIDE DEF x
  <2>5. <<x>> \in Seq(Response) /\ Heard(<<x>>) = 0
    BY <2>4, HeardOne
  <2> QED
    BY <2>1, <2>2, <2>5, AnswerCount DEF x
<1>3. ASSUME NEW accept \in BOOLEAN, ServePut(c, accept) PROVE LInv'
  <2>1. up[c] # <<>> /\ m.kind = "put" /\ Answer(c, <<PutReply(m.write, accept)>>)
    BY <1>3 DEF ServePut
  <2>2. m.write \in Write
    BY <1>1, <2>1 DEF Request, Auth, Put, Listen
  <2> DEFINE x == PutReply(m.write, accept)
  <2>3. x \in Response /\ x.kind = "put"
    BY <2>2 DEF Response, PutReply
  <2> HIDE DEF x
  <2>4. <<x>> \in Seq(Response) /\ Heard(<<x>>) = 0
    BY <2>3, HeardOne
  <2> QED
    BY <2>1, <2>4, AnswerCount DEF x
<1>4. ASSUME NEW accept \in BOOLEAN, ServeListen(c, accept) PROVE LInv'
  <2> DEFINE r == m.read
  <2>1. /\ up[c] # <<>> /\ m.kind = "listen"
        /\ Answer(c, IF accept THEN <<Data(r.loc, db[r.loc]), ListenReply(r, TRUE)>>
                     ELSE <<ListenReply(r, FALSE)>>)
    BY <1>4 DEF ServeListen
  <2>2. r \in Read
    BY <1>1, <2>1 DEF Request, Auth, Put, Listen
  <2>3. r.loc \in Locs /\ db[r.loc] \in Write \cup {Nil}
    BY <2>2 DEF Read, LInv, IInv, Types
  <2> DEFINE a == Data(r.loc, db[r.loc])
             y == ListenReply(r, TRUE)
             z == ListenReply(r, FALSE)
  <2>4. /\ a \in Response /\ y \in Response /\ z \in Response
        /\ a.kind = "data" /\ y.kind = "listen" /\ z.kind = "listen"
    BY <2>2, <2>3, DataIsResponse, ListenReplyIsResponse
  <2>5. Answer(c, IF accept THEN <<a, y>> ELSE <<z>>)
    BY <2>1
  <2> HIDE DEF a, y, z
  <2>6. <<z>> \in Seq(Response) /\ Heard(<<z>>) = 1
    BY <2>4, HeardOne
  <2>7. <<a, y>> \in Seq(Response) /\ Heard(<<a, y>>) = 1
    <3>1. <<a>> \in Seq(Response) /\ Heard(<<a>>) = 0
      BY <2>4, HeardOne
    <3> DEFINE t == Append(<<a>>, y)
    <3>2. <<a, y>> = t
      OBVIOUS
    <3>3. Heard(t) = Heard(<<a>>) + IF y.kind = "listen" THEN 1 ELSE 0
      BY <2>4, <3>1, HeardAppend
    <3> HIDE DEF t
    <3>4. Heard(t) = 1
      BY <2>4, <3>1, <3>3
    <3>5. <<a, y>> \in Seq(Response)
      BY <2>4
    <3> QED
      BY <3>2, <3>4, <3>5
  <2>8. CASE accept
    BY <2>1, <2>5, <2>7, <2>8, AnswerCount
  <2>9. CASE ~accept
    BY <2>1, <2>5, <2>6, <2>9, AnswerCount
  <2> QED
    BY <2>8, <2>9
<1> QED
  BY <1>2, <1>3, <1>4 DEF Serve

\* A response taken, with what is sent and counted on receiving it.
LEMMA ResponseCount ==
    ASSUME LInv, IInv', NEW c \in Clients, down[c] # <<>>, NEW q \in Seq(Request),
           down' = [down EXCEPT ![c] = Tail(@)],
           up' = [up EXCEPT ![c] = @ \o q],
           unacked' = [unacked EXCEPT ![c] =
                          @ + Heard(q) - IF Head(down[c]).kind = "listen" THEN 1 ELSE 0]
    PROVE  LInv'
<1>1. /\ up'[c] = up[c] \o q /\ down'[c] = Tail(down[c])
      /\ \A d \in Clients \ {c} : up'[d] = up[d] /\ down'[d] = down[d]
  BY ConnectionFacts
<1>2. Heard(up'[c]) = Heard(up[c]) + Heard(q) /\ Heard(q) \in Nat
  BY <1>1, ConnectionFacts, HeardJoin, HeardIsNatural
<1>3. /\ Tail(down[c]) \in Seq(Response)
      /\ Heard(down[c]) = Heard(down'[c]) + IF Head(down[c]).kind = "listen" THEN 1 ELSE 0
  BY <1>1, ConnectionFacts, HeardTail
<1>4. Heard(down'[c]) \in Nat
  BY <1>1, <1>3, HeardIsNatural
<1> DEFINE n == unacked[c] + Heard(q) - IF Head(down[c]).kind = "listen" THEN 1 ELSE 0
<1>5. n = Heard(up'[c]) + Heard(down'[c])
  BY <1>2, <1>3, <1>4, ConnectionFacts
<1>6. unacked' = [unacked EXCEPT ![c] = n]
  OBVIOUS
<1> HIDE DEF n
<1> QED
  BY <1>1, <1>5, <1>6, CountStep

\* A response taken without sending anything.
LEMMA SilentCount ==
    ASSUME LInv, IInv', NEW c \in Clients, down[c] # <<>>,
           down' = [down EXCEPT ![c] = Tail(@)], up' = up,
           unacked' = IF Head(down[c]).kind = "listen" THEN [unacked EXCEPT ![c] = @ - 1]
                      ELSE unacked
    PROVE  LInv'
<1>1. <<>> \in Seq(Request) /\ up[c] \o <<>> = up[c]
  BY ConnectionFacts
<1>2. up' = [up EXCEPT ![c] = up[c] \o <<>>]
  BY <1>1, ConnectionFacts
<1>3. unacked' = [unacked EXCEPT ![c] =
                     @ + Heard(<<>>) - IF Head(down[c]).kind = "listen" THEN 1 ELSE 0]
  <2>1. unacked[c] + 0 - 1 = unacked[c] - 1 /\ unacked[c] + 0 - 0 = unacked[c]
    BY ConnectionFacts
  <2>2. CASE Head(down[c]).kind = "listen"
    BY <2>1, <2>2, NoneHeard
  <2>3. CASE Head(down[c]).kind # "listen"
    BY <2>1, <2>3, ConnectionFacts, NoneHeard
  <2> QED
    BY <2>2, <2>3
<1> QED
  BY <1>1, <1>2, <1>3, ResponseCount

\* Each response keeps the count.
LEMMA ReceiveCount ==
    ASSUME LInv, IInv', NEW c \in Clients, Receive(c)
    PROVE  LInv'
<1> DEFINE m == Head(down[c])
<1>1. CASE ReceiveAuth(c)
  <2>1. down[c] # <<>> /\ m.kind = "auth"
    BY <1>1 DEF ReceiveAuth, Receives
  <2>2. CASE ~m.ok
    BY <1>1, <2>2, DropCount DEF ReceiveAuth, Disconnected
  <2>3. CASE m.ok /\ m.restore
    <3>1. PICK q \in Restored(c) : up' = [up EXCEPT ![c] = @ \o q]
      BY <1>1, <2>3 DEF ReceiveAuth
    <3>2. /\ down' = [down EXCEPT ![c] = Tail(@)]
          /\ unacked' = [unacked EXCEPT ![c] = @ + Cardinality(listens[c])]
      BY <1>1, <2>3 DEF ReceiveAuth
    <3>3. Heard(q) = Cardinality(listens[c]) /\ Heard(q) \in Nat /\ q \in Seq(Request)
      BY HeardRestored, RestoredOK DEF LInv, IInv
    <3>4. unacked' = [unacked EXCEPT ![c] = @ + Heard(q) - 0]
      <4>1. unacked[c] + Cardinality(listens[c]) = unacked[c] + Heard(q) - 0
        BY <3>3, ConnectionFacts
      <4> QED
        BY <3>2, <4>1
    <3> QED
      BY <2>1, <3>1, <3>2, <3>3, <3>4, ResponseCount
  <2>4. CASE m.ok /\ ~m.restore
    <3>1. down' = [down EXCEPT ![c] = Tail(@)] /\ up' = up /\ unacked' = unacked
      BY <1>1, <2>4 DEF ReceiveAuth
    <3> QED
      BY <2>1, <3>1, SilentCount
  <2> QED
    BY <2>2, <2>3, <2>4
<1>2. CASE ReceiveData(c)
  <2>1. /\ down[c] # <<>> /\ m.kind = "data"
        /\ down' = [down EXCEPT ![c] = Tail(@)] /\ up' = up /\ unacked' = unacked
    BY <1>2 DEF ReceiveData, Receives
  <2> QED
    BY <2>1, SilentCount
<1>3. CASE ReceiveListen(c)
  <2>1. /\ down[c] # <<>> /\ m.kind = "listen"
        /\ down' = [down EXCEPT ![c] = Tail(@)] /\ up' = up
        /\ unacked' = [unacked EXCEPT ![c] = @ - 1]
    BY <1>3 DEF ReceiveListen, Receives
  <2> QED
    BY <2>1, SilentCount
<1>4. CASE ReceivePut(c)
  <2>1. /\ down[c] # <<>> /\ m.kind = "put"
        /\ down' = [down EXCEPT ![c] = Tail(@)] /\ up' = up /\ unacked' = unacked
    BY <1>4 DEF ReceivePut, Receives
  <2> QED
    BY <2>1, SilentCount
<1> QED
  BY <1>1, <1>2, <1>3, <1>4 DEF Receive

\* Every step keeps the count.
LEMMA StepCount == LInv /\ [Next]_vars => LInv'
<1> SUFFICES ASSUME LInv, [Next]_vars PROVE LInv'
  OBVIOUS
<1>1. IInv'
  BY StepInv DEF LInv
<1>2. CASE UNCHANGED vars
  BY <1>1, <1>2, CountStays DEF vars, client
<1>3. ASSUME NEW c \in Clients, App(c) PROVE LInv'
  BY <1>1, <1>3, SetCount, ObserveCount, ChangeTokenCount DEF App
<1>4. ASSUME NEW c \in Clients, Disconnect(c) PROVE LInv'
  BY <1>1, <1>4, DropCount DEF Disconnect, Disconnected
<1>5. ASSUME NEW c \in Clients, Kill(c) PROVE LInv'
  BY <1>1, <1>5, DropCount DEF Kill
<1> QED
  BY <1>1, <1>2, <1>3, <1>4, <1>5, ConnectCount, ServeCount, ReceiveCount DEF Next

\* unackedListensCount (FPersistentConnection) is what is on the connection, so
\* the assertion that it is not negative holds, whatever was lost.
THEOREM CountIsRight == Spec => []ListensAreCounted
<1>1. LInv => ListensAreCounted
  BY DEF LInv, Counted, Heard, Places, ListensAreCounted
<1> QED
  BY <1>1, InitCount, StepCount, PTL DEF Spec

----------------------------------------------------------------------------
(* The types of the variables that the other invariants do not speak of *)

Got == [loc : Locs, value : Write \cup {Nil}]

TInv == LInv /\ got \in [Clients -> Got \cup {Nil}] /\ faults \in Nat

\* The client's latest visible write hides the server's value.
LEMMA ShownIsLatest ==
    ASSUME NEW ws \in SUBSET Write, NEW l \in Locs, NEW v
    PROVE  LET mine == {w \in ws : w.loc = l}
               s == Shown(ws, l, v)
           IN  /\ mine = {} => s = v
               /\ mine # {} => s \in mine /\ \A w \in mine : w.n <= s.n
<1> DEFINE mine == {w \in ws : w.loc = l}
           depths == {MaxWrites - w.n : w \in mine}
<1>1. CASE mine = {}
  BY <1>1 DEF Shown
<1>2. CASE mine # {}
  <2>1. \A w \in mine : w.n \in Nat /\ MaxWrites - w.n \in Nat
    BY BoundsAreNatural DEF Write
  <2>2. depths \subseteq Nat /\ depths # {}
    BY <1>2, <2>1
  <2>3. PICK x \in depths : \A y \in depths : ~(<<y, x>> \in OpToRel(<, Nat))
    BY <2>2, NatLessThanWellFounded, WFMin
  <2>4. \A y \in depths : ~(y < x)
    BY <2>2, <2>3 DEF OpToRel
  <2>5. PICK w \in mine : x = MaxWrites - w.n
    OBVIOUS
  <2>6. ASSUME NEW u \in mine PROVE u.n <= w.n
    <3>1. MaxWrites - u.n \in depths
      OBVIOUS
    <3>2. ~(MaxWrites - u.n < MaxWrites - w.n)
      BY <2>4, <2>5, <3>1
    <3>3. u.n \in Nat /\ w.n \in Nat /\ MaxWrites \in Nat
      BY BoundsAreNatural, <2>1
    <3> QED
      BY <3>2, <3>3
  <2> DEFINE s == CHOOSE u \in mine : \A z \in mine : z.n <= u.n
  <2>7. s \in mine /\ \A z \in mine : z.n <= s.n
    BY <2>6
  <2> HIDE DEF s
  <2>8. Shown(ws, l, v) = s
    BY <1>2 DEF Shown, s
  <2> QED
    BY <1>2, <2>7, <2>8
<1> QED
  BY <1>1, <1>2

\* A write or the server's value is shown.
LEMMA ShownIsValue ==
    ASSUME NEW ws \in SUBSET Write, NEW l \in Locs, NEW v \in Write \cup {Nil}
    PROVE  Shown(ws, l, v) \in Write \cup {Nil}
BY ShownIsLatest

\* An observer is called with a value.
LEMMA FireGot ==
    ASSUME TInv, NEW c \in Clients, NEW l \in Locs, NEW v \in Write \cup {Nil}, Fire(c, l, v)
    PROVE  got' \in [Clients -> Got \cup {Nil}]
<1>1. [loc |-> l, value |-> v] \in Got
  BY DEF Got
<1>2. got' = got \/ got' = [got EXCEPT ![c] = [loc |-> l, value |-> v]]
  BY DEF Fire
<1> QED
  BY <1>1, <1>2 DEF TInv

\* Calls of the app keep these types.
LEMMA AppTypes ==
    ASSUME TInv, NEW c \in Clients, App(c)
    PROVE  got' \in [Clients -> Got \cup {Nil}] /\ faults' \in Nat
<1>1. ASSUME NEW l \in Locs, Set(c, l)
      PROVE  got' \in [Clients -> Got \cup {Nil}] /\ faults' \in Nat
  <2> DEFINE w == [client |-> c, n |-> issued[c] + 1, loc |-> l]
  <2>1. w \in Write
    BY BoundsAreNatural, <1>1 DEF TInv, LInv, IInv, Types, Set, Write
  <2>2. Fire(c, l, w) /\ faults' = faults
    BY <1>1 DEF Set
  <2> HIDE DEF w
  <2> QED
    BY <2>1, <2>2, FireGot DEF TInv
<1>2. ASSUME NEW l \in Locs, Observe(c, l)
      PROVE  got' \in [Clients -> Got \cup {Nil}] /\ faults' \in Nat
  <2> DEFINE v == Shown(writes[c], l, Nil)
  <2>1. v \in Write \cup {Nil}
    BY ShownIsValue DEF TInv, LInv, IInv, Types
  <2>2. /\ got' = got \/ got' = [got EXCEPT ![c] = [loc |-> l, value |-> v]]
        /\ faults' = faults
    BY <1>2 DEF Observe
  <2> HIDE DEF v
  <2>3. [loc |-> l, value |-> v] \in Got
    BY <2>1 DEF Got
  <2> QED
    BY <2>2, <2>3 DEF TInv
<1>3. CASE ChangeToken(c)
  BY <1>3 DEF TInv, ChangeToken, Fault
<1> QED
  BY <1>1, <1>2, <1>3 DEF App

\* Responses keep these types.
LEMMA ReceiveTypes ==
    ASSUME TInv, NEW c \in Clients, Receive(c)
    PROVE  got' \in [Clients -> Got \cup {Nil}] /\ faults' \in Nat
<1>1. CASE ReceiveAuth(c)
  BY <1>1 DEF TInv, ReceiveAuth
<1>2. CASE ReceiveData(c)
  <2> DEFINE m == Head(down[c])
             v == Shown(writes[c], m.loc, m.value)
  <2>1. /\ down[c] # <<>> /\ m.kind = "data" /\ down[c] \in Seq(Response)
        /\ writes[c] \in SUBSET Write
    BY <1>2 DEF ReceiveData, Receives, TInv, LInv, IInv, Types
  <2>2. m \in Response
    BY <2>1, HeardTail
  <2>3. m.loc \in Locs /\ m.value \in Write \cup {Nil}
    BY <2>1, <2>2 DEF Response, Data, AuthReply, PutReply, ListenReply
  <2>4. v \in Write \cup {Nil}
    BY <2>1, <2>3, ShownIsValue
  <2>5. Fire(c, m.loc, v) /\ faults' = faults
    BY <1>2 DEF ReceiveData
  <2> HIDE DEF m, v
  <2> QED
    BY <2>3, <2>4, <2>5, FireGot DEF TInv
<1>3. CASE ReceiveListen(c)
  BY <1>3 DEF TInv, ReceiveListen
<1>4. CASE ReceivePut(c)
  BY <1>4 DEF TInv, ReceivePut
<1> QED
  BY <1>1, <1>2, <1>3, <1>4 DEF Receive

\* Every step keeps these types.
LEMMA StepTypes == TInv /\ [Next]_vars => TInv'
<1> SUFFICES ASSUME TInv, [Next]_vars
             PROVE  got' \in [Clients -> Got \cup {Nil}] /\ faults' \in Nat
  BY StepCount DEF TInv
<1>1. CASE UNCHANGED vars
  BY <1>1 DEF TInv, vars
<1>2. ASSUME NEW c \in Clients, Connect(c) \/ Disconnect(c) \/ Kill(c)
      PROVE  got' \in [Clients -> Got \cup {Nil}] /\ faults' \in Nat
  <2>1. got' = got /\ (faults' = faults \/ faults' = faults + 1)
    BY <1>2 DEF Connect, Disconnect, Kill, Fault
  <2> QED
    BY <2>1 DEF TInv
<1>3. ASSUME NEW c \in Clients, Serve(c)
      PROVE  got' \in [Clients -> Got \cup {Nil}] /\ faults' \in Nat
  <2>1. \E t : Answer(c, t)
    BY <1>3 DEF Serve, ServeAuth, ServePut, ServeListen
  <2> QED
    BY <2>1 DEF TInv, Answer
<1> QED
  BY <1>1, <1>2, <1>3, AppTypes, ReceiveTypes DEF Next

\* Every variable of the client keeps its type; in particular the count of
\* unanswered listens never becomes negative (FPersistentConnection.m:683).
THEOREM TypeCorrect == Spec => []TypeOK
<1>1. Init => TInv
  BY InitCount DEF TInv, Init
<1>2. TInv => TypeOK
  BY DEF TInv, LInv, IInv, Types, Ack, Got, TypeOK
<1> QED
  BY <1>1, <1>2, StepTypes, PTL DEF Spec

----------------------------------------------------------------------------
(* The order of the writes *)

\* The puts, or the answers to puts, are in the order of their numbers.
Ascending(s) ==
    \A i, j \in 1 .. Len(s) :
        i < j /\ s[i].kind = "put" /\ s[j].kind = "put" => s[i].write.n < s[j].write.n

Below(S, T) == \A x \in S, y \in T : x.n < y.n

\* The writes of c that are issued and no longer in its queue.
Settled(c) == {x \in Write : x.client = c /\ status[x] # "new" /\ x \notin outstanding[c]}

\* The puts of a client are applied and answered in the order of their numbers:
\* an authenticated connection has every outstanding one, and what was settled is
\* older.
InTurn(c) ==
    /\ Ascending(down[c]) /\ Ascending(up[c]) /\ Below(PutsIn(down[c]), PutsIn(up[c]))
    /\ conn[c] = "connected" => outstanding[c] \subseteq PutsIn(up[c]) \cup PutsIn(down[c])
    /\ Below(Settled(c), outstanding[c])

\* v can be at the location of x after x was applied: it is x, a later write of
\* its client, or another client's.
Covers(v, x) == v # Nil /\ (v.client = x.client => x.n <= v.n)

\* The writes whose success the client knows, and those it is about to hear of.
Acked(c) == {x \in Write : /\ x.client = c
                           /\ status[x] = "ok" \/ [write |-> x, ok |-> TRUE] \in toAck[c]}
Told(r) == {r[i].write : i \in {j \in 1 .. Len(r) : r[j].kind = "put" /\ r[j].ok}}

\* The data in r is not older than the writes of S.
Current(r, S) ==
    \A x \in S : \A i \in 1 .. Len(r) :
        r[i].kind = "data" /\ r[i].loc = x.loc => Covers(r[i].value, x)

\* Data that follows the answer to a put is not older than the put.
Sequel(r) ==
    \A i, j \in 1 .. Len(r) :
        /\ i < j
        /\ r[i].kind = "put" /\ r[i].ok
        /\ r[j].kind = "data" /\ r[j].loc = r[i].write.loc
        => Covers(r[j].value, r[i].write)

\* Neither the server nor the data on its way to c is older than what c was told.
Fresh(c) ==
    /\ \A x \in Acked(c) \cup Told(down[c]) : Covers(db[x.loc], x)
    /\ Current(down[c], Acked(c))
    /\ Sequel(down[c])

\* What the server holds was written there.
StoreKnown == \A l \in Locs : db[l] # Nil => db[l].loc = l /\ status[db[l]] # "new"

OInv == IInv /\ StoreKnown /\ \A c \in Clients : InTurn(c) /\ Fresh(c)

\* A response added in order.
LEMMA AscendingAppend ==
    ASSUME NEW S, NEW s \in Seq(S), NEW x \in S, Ascending(s),
           x.kind = "put" => \A y \in PutsIn(s) : y.n < x.write.n
    PROVE  Ascending(Append(s, x))
<1> DEFINE t == Append(s, x)
<1>1. /\ Len(t) = Len(s) + 1 /\ t[Len(t)] = x
      /\ \A i \in 1 .. Len(s) : t[i] = s[i]
      /\ Len(s) \in Nat
  OBVIOUS
<1> HIDE DEF t
<1>2. ASSUME NEW i \in 1 .. Len(t), NEW j \in 1 .. Len(t), i < j,
             t[i].kind = "put", t[j].kind = "put"
      PROVE  t[i].write.n < t[j].write.n
  <2>1. i \in 1 .. Len(s) /\ t[i] = s[i]
    BY <1>1, <1>2
  <2>2. CASE j \in 1 .. Len(s)
    BY <1>1, <1>2, <2>1, <2>2 DEF Ascending
  <2>3. CASE j = Len(t)
    <3>1. s[i].write \in PutsIn(s)
      BY <1>2, <2>1 DEF PutsIn
    <3> QED
      BY <1>1, <1>2, <2>1, <2>3, <3>1
  <2> QED
    BY <1>1, <2>2, <2>3
<1> QED
  BY <1>2 DEF Ascending, t

\* The first message taken.
LEMMA AscendingTail ==
    ASSUME NEW S, NEW s \in Seq(S), s # <<>>, Ascending(s)
    PROVE  /\ Ascending(Tail(s))
           /\ Head(s).kind = "put" => Below({Head(s).write}, PutsIn(Tail(s)))
<1> DEFINE t == Tail(s)
<1>1. /\ Head(s) = s[1] /\ 1 \in 1 .. Len(s)
      /\ \A i \in 1 .. Len(t) : t[i] = s[i + 1] /\ i + 1 \in 1 .. Len(s) /\ 1 < i + 1
  OBVIOUS
<1>2. \A i, j \in 1 .. Len(t) : i < j => i + 1 < j + 1
  OBVIOUS
<1> HIDE DEF t
<1>3. Ascending(t)
  BY <1>1, <1>2 DEF Ascending
<1>4. ASSUME Head(s).kind = "put", NEW y \in PutsIn(t) PROVE Head(s).write.n < y.n
  <2>1. PICK i \in 1 .. Len(t) : t[i].kind = "put" /\ y = t[i].write
    BY DEF PutsIn
  <2> QED
    BY <1>1, <1>4, <2>1 DEF Ascending
<1> QED
  BY <1>3, <1>4 DEF t, Below

\* Two sequences joined.
LEMMA AscendingJoin ==
    ASSUME NEW S, NEW s \in Seq(S), NEW t \in Seq(S), Ascending(s), Ascending(t),
           Below(PutsIn(s), PutsIn(t))
    PROVE  Ascending(s \o t)
<1> DEFINE u == s \o t
<1>1. \A k \in 1 .. Len(u) :
          \/ k \in 1 .. Len(s) /\ u[k] = s[k]
          \/ k > Len(s) /\ k - Len(s) \in 1 .. Len(t) /\ u[k] = t[k - Len(s)]
  OBVIOUS
<1>2. Len(s) \in Nat /\ 1 .. Len(u) \subseteq Int
  OBVIOUS
<1> HIDE DEF u
<1>3. ASSUME NEW i \in 1 .. Len(u), NEW j \in 1 .. Len(u), i < j,
             u[i].kind = "put", u[j].kind = "put"
      PROVE  u[i].write.n < u[j].write.n
  <2>1. CASE i \in 1 .. Len(s) /\ u[i] = s[i] /\ j \in 1 .. Len(s) /\ u[j] = s[j]
    BY <1>3, <2>1 DEF Ascending
  <2>2. CASE /\ i \in 1 .. Len(s) /\ u[i] = s[i]
             /\ j - Len(s) \in 1 .. Len(t) /\ u[j] = t[j - Len(s)]
    <3>1. s[i].write \in PutsIn(s) /\ t[j - Len(s)].write \in PutsIn(t)
      BY <1>3, <2>2 DEF PutsIn
    <3> QED
      BY <2>2, <3>1 DEF Below
  <2>3. CASE /\ i > Len(s) /\ i - Len(s) \in 1 .. Len(t) /\ u[i] = t[i - Len(s)]
             /\ j - Len(s) \in 1 .. Len(t) /\ u[j] = t[j - Len(s)]
    <3>1. i - Len(s) < j - Len(s)
      BY <1>2, <1>3
    <3> QED
      BY <1>3, <2>3, <3>1 DEF Ascending
  <2>4. ~(i > Len(s) /\ j \in 1 .. Len(s))
    BY <1>2, <1>3
  <2> QED
    BY <1>1, <2>1, <2>2, <2>3, <2>4
<1> QED
  BY <1>3 DEF Ascending, u

\* At most one message is in order.
LEMMA AscendingShort ==
    /\ Ascending(<<>>)
    /\ \A x : Ascending(<<x>>)
<1>1. Len(<<>>) = 0 /\ \A x : Len(<<x>>) = 1
  OBVIOUS
<1>2. \A i, j \in 1 .. 1 : ~(i < j)
  OBVIOUS
<1> QED
  BY <1>1, <1>2 DEF Ascending

\* What is sent again has every outstanding put in order.
LEMMA RestoredAscending ==
    ASSUME Types, NEW c \in Clients, NEW q \in Restored(c)
    PROVE  Ascending(q) /\ PutsIn(q) = outstanding[c]
<1>1. PICK r \in InOrder(listens[c], MaxReads), p \in InOrder(outstanding[c], MaxWrites) :
          q = SentAgain(r, p)
  BY DEF Restored
<1> DEFINE L == [i \in DOMAIN r |-> Listen(r[i])]
           P == [i \in DOMAIN p |-> Put(p[i])]
<1>2. listens[c] \subseteq Read /\ outstanding[c] \subseteq Write
  BY DEF Types
<1>3. PICK m \in 0 .. MaxReads : r \in [1 .. m -> listens[c]]
  BY DEF InOrder, SeqOf
<1>4. PICK k \in 0 .. MaxWrites : p \in [1 .. k -> outstanding[c]]
  BY DEF InOrder, SeqOf
<1>5. m \in Nat /\ k \in Nat
  BY BoundsAreNatural, <1>3, <1>4
<1>6. L \in [1 .. m -> Request] /\ \A i \in 1 .. m : L[i].kind = "listen"
  BY <1>2, <1>3 DEF Request, Listen
<1>7. /\ P \in [1 .. k -> Request]
      /\ \A i \in 1 .. k : P[i].kind = "put" /\ P[i].write = p[i]
  BY <1>2, <1>4 DEF Request, Put
<1>8. {p[i] : i \in 1 .. k} = outstanding[c] /\ \A i, j \in 1 .. k : i < j => p[i].n < p[j].n
  BY <1>4 DEF InOrder, Ordered, ToSet
<1>9. q = L \o P
  BY <1>1 DEF SentAgain
<1> HIDE DEF L, P
<1>10. /\ L \in Seq(Request) /\ P \in Seq(Request) /\ Len(L) = m /\ Len(P) = k
  BY <1>5, <1>6, <1>7
<1>11. PutsIn(L) = {} /\ Ascending(L)
  BY <1>6, <1>10 DEF PutsIn, Ascending
<1>12. PutsIn(P) = outstanding[c] /\ Ascending(P)
  BY <1>7, <1>8, <1>10 DEF PutsIn, Ascending
<1>13. PutsIn(L \o P) = PutsIn(L) \cup PutsIn(P)
  BY <1>10, JoinMessages
<1>14. Ascending(L \o P)
  BY <1>10, <1>11, <1>12, AscendingJoin DEF Below
<1> QED
  BY <1>9, <1>11, <1>12, <1>13, <1>14

----------------------------------------------------------------------------
(* What responses tell *)

\* Responses with neither data nor successes.
LEMMA NothingTold == Told(<<>>) = {} /\ Sequel(<<>>) /\ \A S : Current(<<>>, S)
<1>1. Len(<<>>) = 0
  OBVIOUS
<1> QED
  BY <1>1 DEF Told, Sequel, Current

\* One response.
LEMMA OneTold ==
    ASSUME NEW x
    PROVE  /\ Told(<<x>>) = (IF x.kind = "put" /\ x.ok THEN {x.write} ELSE {})
           /\ Sequel(<<x>>)
           /\ \A S : (\A y \in S : x.kind = "data" /\ x.loc = y.loc => Covers(x.value, y))
                     => Current(<<x>>, S)
<1> DEFINE t == <<x>>
<1>1. Len(t) = 1 /\ t[1] = x
  OBVIOUS
<1> HIDE DEF t
<1>2. 1 .. Len(t) = {1} /\ ~(1 < 1)
  BY <1>1
<1>3. Told(t) = IF x.kind = "put" /\ x.ok THEN {x.write} ELSE {}
  BY <1>1, <1>2 DEF Told
<1>4. Sequel(t)
  BY <1>2 DEF Sequel
<1>5. \A S : (\A y \in S : x.kind = "data" /\ x.loc = y.loc => Covers(x.value, y))
             => Current(t, S)
  BY <1>1, <1>2 DEF Current
<1> QED
  BY <1>3, <1>4, <1>5 DEF t

\* More responses.
LEMMA JoinTold ==
    ASSUME NEW R, NEW s \in Seq(R), NEW t \in Seq(R)
    PROVE  /\ Told(s \o t) = Told(s) \cup Told(t)
           /\ \A S : Current(s, S) /\ Current(t, S) => Current(s \o t, S)
           /\ Sequel(s) /\ Sequel(t) /\ Current(t, Told(s)) => Sequel(s \o t)
<1> DEFINE u == s \o t
<1>1. /\ \A k \in 1 .. Len(u) :
            \/ k \in 1 .. Len(s) /\ u[k] = s[k]
            \/ k > Len(s) /\ k - Len(s) \in 1 .. Len(t) /\ u[k] = t[k - Len(s)]
      /\ \A k \in 1 .. Len(s) : k \in 1 .. Len(u) /\ u[k] = s[k]
      /\ \A k \in 1 .. Len(t) : Len(s) + k \in 1 .. Len(u) /\ u[Len(s) + k] = t[k]
  OBVIOUS
<1>2. Len(s) \in Nat /\ 1 .. Len(u) \subseteq Int
  OBVIOUS
<1> HIDE DEF u
<1>3. Told(u) = Told(s) \cup Told(t)
  <2>1. ASSUME NEW k \in 1 .. Len(u), u[k].kind = "put", u[k].ok
        PROVE  u[k].write \in Told(s) \cup Told(t)
    <3>1. CASE k \in 1 .. Len(s) /\ u[k] = s[k]
      BY <2>1, <3>1 DEF Told
    <3>2. CASE k - Len(s) \in 1 .. Len(t) /\ u[k] = t[k - Len(s)]
      BY <2>1, <3>2 DEF Told
    <3> QED
      BY <1>1, <3>1, <3>2
  <2>2. Told(s) \subseteq Told(u)
    BY <1>1 DEF Told
  <2>3. Told(t) \subseteq Told(u)
    BY <1>1 DEF Told
  <2>4. Told(u) \subseteq Told(s) \cup Told(t)
    BY <2>1 DEF Told
  <2> QED
    BY <2>2, <2>3, <2>4
<1>4. ASSUME NEW S, Current(s, S), Current(t, S) PROVE Current(u, S)
  <2>1. ASSUME NEW y \in S, NEW k \in 1 .. Len(u), u[k].kind = "data", u[k].loc = y.loc
        PROVE  Covers(u[k].value, y)
    <3>1. CASE k \in 1 .. Len(s) /\ u[k] = s[k]
      BY <1>4, <2>1, <3>1 DEF Current
    <3>2. CASE k - Len(s) \in 1 .. Len(t) /\ u[k] = t[k - Len(s)]
      BY <1>4, <2>1, <3>2 DEF Current
    <3> QED
      BY <1>1, <3>1, <3>2
  <2> QED
    BY <2>1 DEF Current
<1>5. ASSUME Sequel(s), Sequel(t), Current(t, Told(s)) PROVE Sequel(u)
  <2> SUFFICES ASSUME NEW i \in 1 .. Len(u), NEW j \in 1 .. Len(u), i < j,
                      u[i].kind = "put", u[i].ok,
                      u[j].kind = "data", u[j].loc = u[i].write.loc
               PROVE  Covers(u[j].value, u[i].write)
    BY DEF Sequel
  <2>1. CASE i \in 1 .. Len(s) /\ u[i] = s[i] /\ j \in 1 .. Len(s) /\ u[j] = s[j]
    BY <1>5, <2>1 DEF Sequel
  <2>2. CASE /\ i \in 1 .. Len(s) /\ u[i] = s[i]
             /\ j - Len(s) \in 1 .. Len(t) /\ u[j] = t[j - Len(s)]
    <3>1. s[i].write \in Told(s)
      BY <2>2 DEF Told
    <3> QED
      BY <1>5, <2>2, <3>1 DEF Current
  <2>3. CASE /\ i > Len(s) /\ i - Len(s) \in 1 .. Len(t) /\ u[i] = t[i - Len(s)]
             /\ j - Len(s) \in 1 .. Len(t) /\ u[j] = t[j - Len(s)]
    <3>1. i - Len(s) < j - Len(s)
      BY <1>2
    <3> QED
      BY <1>5, <2>3, <3>1 DEF Sequel
  <2>4. ~(i > Len(s) /\ j \in 1 .. Len(s))
    BY <1>2
  <2> QED
    BY <1>1, <2>1, <2>2, <2>3, <2>4
<1> QED
  BY <1>3, <1>4, <1>5 DEF u

\* The first response taken.
LEMMA TailTold ==
    ASSUME NEW R, NEW s \in Seq(R), s # <<>>
    PROVE  /\ Told(Tail(s)) \subseteq Told(s)
           /\ \A S : Current(s, S) =>
                /\ Current(Tail(s), S)
                /\ \A y \in S : Head(s).kind = "data" /\ Head(s).loc = y.loc
                                => Covers(Head(s).value, y)
           /\ Sequel(s) => Sequel(Tail(s))
           /\ Head(s).kind = "put" /\ Head(s).ok =>
                /\ Head(s).write \in Told(s)
                /\ Sequel(s) => Current(Tail(s), {Head(s).write})
<1> DEFINE t == Tail(s)
<1>1. /\ Head(s) = s[1] /\ 1 \in 1 .. Len(s)
      /\ \A i \in 1 .. Len(t) : t[i] = s[i + 1] /\ i + 1 \in 1 .. Len(s) /\ 1 < i + 1
  OBVIOUS
<1>2. \A i, j \in 1 .. Len(t) : i < j => i + 1 < j + 1
  OBVIOUS
<1> HIDE DEF t
<1>3. Told(t) \subseteq Told(s)
  BY <1>1 DEF Told
<1>4. ASSUME NEW S, Current(s, S)
      PROVE  /\ Current(t, S)
             /\ \A y \in S : Head(s).kind = "data" /\ Head(s).loc = y.loc
                             => Covers(Head(s).value, y)
  BY <1>1, <1>4 DEF Current
<1>5. ASSUME Sequel(s) PROVE Sequel(t)
  BY <1>1, <1>2, <1>5 DEF Sequel
<1>6. ASSUME Head(s).kind = "put", Head(s).ok
      PROVE  /\ Head(s).write \in Told(s)
             /\ Sequel(s) => Current(t, {Head(s).write})
  BY <1>1, <1>6 DEF Told, Sequel, Current
<1> QED
  BY <1>3, <1>4, <1>5, <1>6 DEF t

----------------------------------------------------------------------------
(* Every step keeps the order *)

\* The puts of two sequences joined.
LEMMA JoinPuts ==
    ASSUME NEW S, NEW s \in Seq(S), NEW t \in Seq(S)
    PROVE  PutsIn(s \o t) = PutsIn(s) \cup PutsIn(t)
BY JoinMessages

\* A second sequence without puts adds none.
LEMMA JoinNoPuts ==
    ASSUME NEW S, NEW s \in Seq(S), NEW t \in Seq(S), PutsIn(t) = {}
    PROVE  PutsIn(s \o t) = PutsIn(s)
<1>1. PutsIn(s \o t) = PutsIn(s) \cup PutsIn(t)
  BY JoinPuts
<1> QED
  BY <1>1

\* The first message and the others.
LEMMA PutsSplit ==
    ASSUME NEW S, NEW s \in Seq(S), s # <<>>
    PROVE  PutsIn(s) = (IF Head(s).kind = "put" THEN {Head(s).write} ELSE {})
                       \cup PutsIn(Tail(s))
<1>1. <<Head(s)>> \in Seq(S) /\ Tail(s) \in Seq(S) /\ s = <<Head(s)>> \o Tail(s) /\ Head(s) \in S
  OBVIOUS
<1>2. PutsIn(<<Head(s)>>) = IF Head(s).kind = "put" THEN {Head(s).write} ELSE {}
  BY <1>1, OneMessage
<1>3. PutsIn(<<Head(s)>> \o Tail(s)) = PutsIn(<<Head(s)>>) \cup PutsIn(Tail(s))
  <2> DEFINE h == <<Head(s)>>
             t == Tail(s)
  <2>1. h \in Seq(S) /\ t \in Seq(S)
    BY <1>1
  <2> HIDE DEF h, t
  <2>2. PutsIn(h \o t) = PutsIn(h) \cup PutsIn(t)
    BY <2>1, JoinPuts
  <2> QED
    BY <2>2 DEF h, t
<1> QED
  BY <1>1, <1>2, <1>3

\* A write that was issued stays issued.
LEMMA StoreStep ==
    ASSUME Types, StoreKnown, Keeps
    PROVE  StoreKnown' /\ \A x \in Write : status[x] # "new" => status'[x] # "new"
<1>1. status \in [Write -> Statuses] /\ db \in [Locs -> Write \cup {Nil}]
  BY DEF Types
<1>2. \A x \in Write : x.loc \in Locs /\ x # Nil
  BY NilIsNoWrite DEF Write
<1>3. CASE UNCHANGED <<status, applied, db>>
  BY <1>3 DEF StoreKnown
<1>4. CASE Promise!Resolve
  <2>1. \A x \in Write : status[x] # "new" => status'[x] # "new"
    BY <1>4 DEF Promise!Resolve
  <2>2. db' = db
    BY <1>4 DEF Promise!Resolve
  <2>3. \A l \in Locs : db[l] # Nil => db[l] \in Write
    BY <1>1
  <2> QED
    BY <2>1, <2>2, <2>3 DEF StoreKnown
<1>5. ASSUME NEW w \in Write, Promise!Issue(w)
      PROVE  StoreKnown' /\ \A x \in Write : status[x] # "new" => status'[x] # "new"
  <2>1. status' = [status EXCEPT ![w] = "pending"] /\ db' = db
    BY <1>5 DEF Promise!Issue
  <2>2. \A x \in Write : status[x] # "new" => status'[x] # "new"
    BY <1>1, <2>1
  <2>3. \A l \in Locs : db[l] # Nil => db[l] \in Write
    BY <1>1
  <2> QED
    BY <2>1, <2>2, <2>3 DEF StoreKnown
<1>6. ASSUME NEW w \in Write, Promise!Effect(w)
      PROVE  StoreKnown' /\ \A x \in Write : status[x] # "new" => status'[x] # "new"
  <2>1. status[w] = "pending" /\ db' = [db EXCEPT ![w.loc] = w] /\ status' = status
    BY <1>6 DEF Promise!Effect
  <2> QED
    BY <1>1, <1>2, <2>1 DEF StoreKnown
<1> QED
  BY <1>3, <1>4, <1>5, <1>6 DEF Keeps, Promise!Next

\* A value of one client takes nothing from the others.
LEMMA StoreCovers ==
    ASSUME Types, NEW w \in Write, db' = [db EXCEPT ![w.loc] = w],
           NEW x \in Write, Covers(db[x.loc], x),
           x.client = w.client /\ x.loc = w.loc => x.n <= w.n
    PROVE  Covers(db'[x.loc], x)
<1>1. w # Nil /\ w.loc \in Locs /\ x.loc \in Locs /\ db \in [Locs -> Write \cup {Nil}]
  BY NilIsNoWrite DEF Write, Types
<1>2. CASE x.loc = w.loc
  BY <1>1, <1>2 DEF Covers
<1>3. CASE x.loc # w.loc
  BY <1>1, <1>3 DEF Covers
<1> QED
  BY <1>2, <1>3

\* The writes on the connection of a client, and those it holds back, are its own.
LEMMA OwnWrites ==
    ASSUME IInv, NEW c \in Clients
    PROVE  /\ up[c] \in Seq(Request) /\ down[c] \in Seq(Response)
           /\ outstanding[c] \subseteq Write
           /\ PutsIn(up[c]) \subseteq outstanding[c] /\ PutsIn(down[c]) \subseteq outstanding[c]
           /\ Told(down[c]) \subseteq PutsIn(down[c])
           /\ \A w \in outstanding[c] : w.client = c /\ status[w] = "pending" /\ w.n <= issued[c]
           /\ \A w \in Written(toAck[c]) :
                 /\ w \in Write /\ w.client = c /\ status[w] = "pending"
                 /\ w \notin outstanding[c]
<1>1. Types /\ Client(c) /\ StatusOK
  BY DEF IInv
<1>2. outstanding[c] \subseteq writes[c] /\ Written(toAck[c]) \subseteq writes[c]
      /\ outstanding[c] \cap Written(toAck[c]) = {}
  BY <1>1 DEF Client, Visible
<1>3. \A w \in writes[c] : w \in Write /\ w.client = c /\ status[w] = "pending"
  BY <1>1 DEF Types, Client, Visible, StatusOK
<1>4. \A w \in writes[c] : w.n <= issued[c]
  <2> SUFFICES ASSUME NEW w \in writes[c], w.n > issued[c] PROVE FALSE
    <3>1. \A w \in writes[c] : w.n \in Nat
      BY <1>3, BoundsAreNatural DEF Write
    <3>2. issued[c] \in Nat
      BY <1>1, BoundsAreNatural DEF Types
    <3> QED
      BY <3>1, <3>2
  <2> QED
    BY <1>1, <1>3 DEF StatusOK
<1>5. Told(down[c]) \subseteq PutsIn(down[c])
  BY DEF Told, PutsIn
<1> QED
  BY <1>1, <1>2, <1>3, <1>4, <1>5 DEF Types, Client, PutsOnce

\* Acknowledged writes are settled.
LEMMA AckedSettled ==
    ASSUME IInv, NEW c \in Clients
    PROVE  Acked(c) \subseteq Settled(c)
<1> SUFFICES ASSUME NEW x \in Acked(c) PROVE x \in Settled(c)
  OBVIOUS
<1>1. x \in Write /\ x.client = c
  BY DEF Acked
<1>2. CASE status[x] = "ok"
  BY <1>1, <1>2, OwnWrites DEF Settled
<1>3. CASE [write |-> x, ok |-> TRUE] \in toAck[c]
  <2> DEFINE a == [write |-> x, ok |-> TRUE]
  <2>1. a.write = x /\ a \in toAck[c]
    BY <1>3
  <2> HIDE DEF a
  <2>2. x \in Written(toAck[c])
    BY <2>1 DEF Written
  <2> QED
    BY <1>1, <2>2, OwnWrites DEF Settled
<1> QED
  BY <1>2, <1>3 DEF Acked

\* A step of one client.
LEMMA OrderStep ==
    ASSUME OInv, IInv', Keeps, NEW c \in Clients, InTurn(c)', Fresh(c)',
           \A d \in Clients \ {c} :
               /\ conn'[d] = conn[d] /\ outstanding'[d] = outstanding[d]
               /\ toAck'[d] = toAck[d] /\ up'[d] = up[d] /\ down'[d] = down[d],
           \A x \in Write : x.client # c => status'[x] = status[x],
           \/ db' = db
           \/ \E w \in Write : w.client = c /\ db' = [db EXCEPT ![w.loc] = w]
    PROVE  OInv'
<1>1. StoreKnown'
  BY StoreStep DEF OInv, IInv
<1>2. ASSUME NEW d \in Clients \ {c} PROVE InTurn(d)' /\ Fresh(d)'
  <2>1. Settled(d)' = Settled(d) /\ Acked(d)' = Acked(d)
    BY <1>2 DEF Settled, Acked
  <2>2. InTurn(d) /\ Fresh(d)
    BY DEF OInv
  <2>3. InTurn(d)'
    BY <2>1, <2>2 DEF InTurn
  <2>4. ASSUME NEW x \in Acked(d) \cup Told(down[d]) PROVE Covers(db'[x.loc], x)
    <3>1. x \in Write /\ x.client = d
      <4>1. CASE x \in Acked(d)
        BY <4>1 DEF Acked
      <4>2. CASE x \in Told(down[d])
        BY <4>2, OwnWrites DEF OInv
      <4> QED
        BY <4>1, <4>2
    <3>4. Covers(db[x.loc], x)
      BY <2>2 DEF Fresh
    <3>2. CASE db' = db
      BY <3>2, <3>4
    <3>3. ASSUME NEW w \in Write, w.client = c, db' = [db EXCEPT ![w.loc] = w]
          PROVE  Covers(db'[x.loc], x)
      BY <3>1, <3>3, <3>4, StoreCovers DEF OInv, IInv
    <3> QED
      BY <3>2, <3>3
  <2>5. Fresh(d)'
    BY <2>1, <2>2, <2>4 DEF Fresh
  <2> QED
    BY <2>3, <2>5
<1> QED
  BY <1>1, <1>2 DEF OInv

\* A step that changes only the connection of one client.
LEMMA WireStep ==
    ASSUME OInv, IInv', NEW c \in Clients,
           UNCHANGED <<outstanding, toAck, status, db, applied>>,
           \A d \in Clients \ {c} : conn'[d] = conn[d] /\ up'[d] = up[d] /\ down'[d] = down[d],
           Ascending(down'[c]), Ascending(up'[c]), Below(PutsIn(down'[c]), PutsIn(up'[c])),
           conn'[c] = "connected" => outstanding[c] \subseteq PutsIn(up'[c]) \cup PutsIn(down'[c]),
           Told(down'[c]) \subseteq Told(down[c]), Current(down'[c], Acked(c)), Sequel(down'[c])
    PROVE  OInv'
<1>1. Settled(c)' = Settled(c) /\ Acked(c)' = Acked(c)
  BY DEF Settled, Acked
<1>2. InTurn(c) /\ Fresh(c)
  BY DEF OInv
<1>3. InTurn(c)'
  BY <1>1, <1>2 DEF InTurn
<1>4. Fresh(c)'
  BY <1>1, <1>2 DEF Fresh
<1>5. Keeps
  BY DEF Keeps
<1> QED
  BY <1>3, <1>4, <1>5, OrderStep

\* A request that is no put.
LEMMA RequestOrder ==
    ASSUME OInv, IInv', NEW c \in Clients, NEW x \in Request, x.kind # "put",
           up' = [up EXCEPT ![c] = Append(@, x)],
           UNCHANGED <<conn, outstanding, toAck, down, status, db, applied>>
    PROVE  OInv'
<1>1. /\ up'[c] = Append(up[c], x) /\ up[c] \in Seq(Request)
      /\ \A d \in Clients \ {c} : up'[d] = up[d]
  BY DEF OInv, IInv, Types
<1>2. InTurn(c) /\ Fresh(c)
  BY DEF OInv
<1>3. PutsIn(up'[c]) = PutsIn(up[c])
  <2>1. PutsIn(Append(up[c], x)) = PutsIn(up[c]) \cup (IF x.kind = "put" THEN {x.write} ELSE {})
    BY <1>1, AppendMessage
  <2> QED
    BY <1>1, <2>1
<1>4. Ascending(up'[c])
  BY <1>1, <1>2, AscendingAppend DEF InTurn
<1> QED
  BY <1>1, <1>2, <1>3, <1>4, WireStep DEF InTurn, Fresh

\* Nothing of this changes.
LEMMA OrderStays ==
    ASSUME OInv, IInv',
           UNCHANGED <<conn, outstanding, toAck, up, down, status, db, applied>>
    PROVE  OInv'
BY DEF OInv, StoreKnown, InTurn, Fresh, Settled, Acked

\* observeSingleEvent sends at most a listen.
LEMMA ObserveOrder ==
    ASSUME OInv, IInv', NEW c \in Clients, NEW l \in Locs, Observe(c, l)
    PROVE  OInv'
<1> DEFINE r == [n |-> observed[c] + 1, loc |-> l]
<1>1. r \in Read
  BY BoundsAreNatural DEF OInv, IInv, Types, Observe, Read
<1>2. Listen(r) \in Request /\ Listen(r).kind = "listen"
  BY <1>1 DEF Request, Listen
<1>3. UNCHANGED <<conn, outstanding, toAck, down, status, db, applied>>
  BY DEF Observe
<1>4. up' = up \/ up' = [up EXCEPT ![c] = Append(@, Listen(r))]
  BY DEF Observe
<1> HIDE DEF r
<1>5. CASE up' = up
  BY <1>3, <1>5, OrderStays
<1>6. CASE up' = [up EXCEPT ![c] = Append(@, Listen(r))]
  BY <1>2, <1>3, <1>6, RequestOrder
<1> QED
  BY <1>4, <1>5, <1>6

\* A new token is sent after the puts.
LEMMA ChangeTokenOrder ==
    ASSUME OInv, IInv', NEW c \in Clients, ChangeToken(c)
    PROVE  OInv'
<1>1. Auth(FALSE) \in Request /\ Auth(FALSE).kind = "auth"
  BY DEF Request, Auth
<1>2. /\ up' = [up EXCEPT ![c] = Append(@, Auth(FALSE))]
      /\ UNCHANGED <<conn, outstanding, toAck, down, status, db, applied>>
  BY DEF ChangeToken
<1> QED
  BY <1>1, <1>2, RequestOrder

\* A connection has nothing, or every outstanding put in order.
LEMMA ConnectOrder ==
    ASSUME OInv, IInv', NEW c \in Clients, Connect(c)
    PROVE  OInv'
<1>1. UNCHANGED <<outstanding, toAck, down, status, db, applied>>
  BY DEF Connect
<1>2. down[c] = <<>>
  BY DEF OInv, IInv, Client, Phase, Connect
<1>3. PutsIn(<<>>) = {}
  BY DEF PutsIn
<1>4. /\ up \in [Clients -> Seq(Request)]
      /\ conn \in [Clients -> {"down", "authenticating", "connected"}]
  BY DEF OInv, IInv, Types
<1>5. Told(<<>>) = {} /\ Sequel(<<>>) /\ Current(<<>>, Acked(c))
  BY NothingTold
<1>6. CASE /\ conn' = [conn EXCEPT ![c] = "authenticating"]
           /\ up' = [up EXCEPT ![c] = <<Auth(TRUE)>>]
  <2> DEFINE q == <<Auth(TRUE)>>
  <2>1. PutsIn(q) = {} /\ Ascending(q)
    <3>1. Auth(TRUE) \in Request /\ Auth(TRUE).kind # "put"
      BY DEF Request, Auth
    <3>2. PutsIn(q) = IF Auth(TRUE).kind = "put" THEN {Auth(TRUE).write} ELSE {}
      BY <3>1, OneMessage
    <3> QED
      BY <3>1, <3>2, AscendingShort
  <2>2. up' = [up EXCEPT ![c] = q]
    BY <1>6
  <2> HIDE DEF q
  <2>3. /\ up'[c] = q /\ conn'[c] = "authenticating" /\ down'[c] = <<>>
        /\ \A d \in Clients \ {c} : conn'[d] = conn[d] /\ up'[d] = up[d] /\ down'[d] = down[d]
    BY <1>1, <1>2, <1>4, <1>6, <2>2
  <2>4. Below(PutsIn(<<>>), PutsIn(q))
    BY <1>3 DEF Below
  <2> QED
    BY <1>1, <1>2, <1>5, <2>1, <2>3, <2>4, AscendingShort, WireStep
<1>7. ASSUME conn' = [conn EXCEPT ![c] = "connected"],
             NEW q \in Restored(c), up' = [up EXCEPT ![c] = q]
      PROVE  OInv'
  <2>1. /\ up'[c] = q /\ conn'[c] = "connected" /\ down'[c] = <<>>
        /\ \A d \in Clients \ {c} : conn'[d] = conn[d] /\ up'[d] = up[d] /\ down'[d] = down[d]
    BY <1>1, <1>2, <1>4, <1>7
  <2>2. Ascending(q) /\ PutsIn(q) = outstanding[c]
    BY RestoredAscending DEF OInv, IInv
  <2>3. Below(PutsIn(<<>>), PutsIn(q))
    BY <1>3 DEF Below
  <2> QED
    BY <1>1, <1>2, <1>5, <2>1, <2>2, <2>3, AscendingShort, WireStep
<1> QED
  BY <1>6, <1>7 DEF Connect

\* A lost connection takes its puts and data with it.
LEMMA DisconnectedOrder ==
    ASSUME OInv, IInv', NEW c \in Clients, Disconnected(c), UNCHANGED <<db, status, applied>>
    PROVE  OInv'
<1>1. UNCHANGED <<outstanding, toAck, status, db, applied>>
  BY DEF Disconnected
<1>2. /\ conn'[c] = "down" /\ up'[c] = <<>> /\ down'[c] = <<>>
      /\ \A d \in Clients \ {c} : conn'[d] = conn[d] /\ up'[d] = up[d] /\ down'[d] = down[d]
  BY DEF Disconnected, OInv, IInv, Types
<1>3. PutsIn(<<>>) = {} /\ Below({}, {})
  BY DEF PutsIn, Below
<1>4. Told(<<>>) = {} /\ Sequel(<<>>) /\ Current(<<>>, Acked(c))
  BY NothingTold
<1> QED
  BY <1>1, <1>2, <1>3, <1>4, AscendingShort, WireStep

\* The answers of the server to a request that is no put.
LEMMA AnswerOrder ==
    ASSUME OInv, IInv', NEW c \in Clients, NEW t \in Seq(Response), up[c] # <<>>,
           Head(up[c]).kind # "put", Answer(c, t), UNCHANGED <<db, applied>>,
           PutsIn(t) = {}, Ascending(t), Told(t) = {}, Sequel(t),
           Current(t, Acked(c)), Current(t, Told(down[c]))
    PROVE  OInv'
<1>1. /\ UNCHANGED <<conn, outstanding, toAck, status, db, applied>>
      /\ up' = [up EXCEPT ![c] = Tail(@)] /\ down' = [down EXCEPT ![c] = @ \o t]
  BY DEF Answer, client
<1>2. /\ up'[c] = Tail(up[c]) /\ down'[c] = down[c] \o t
      /\ \A d \in Clients \ {c} : up'[d] = up[d] /\ down'[d] = down[d]
      /\ up[c] \in Seq(Request) /\ down[c] \in Seq(Response)
  BY <1>1 DEF OInv, IInv, Types
<1>3. InTurn(c) /\ Fresh(c)
  BY DEF OInv
<1>4. PutsIn(up'[c]) = PutsIn(up[c])
  <2>1. PutsIn(up[c]) = (IF Head(up[c]).kind = "put" THEN {Head(up[c]).write} ELSE {})
                        \cup PutsIn(Tail(up[c]))
    BY <1>2, PutsSplit
  <2> QED
    BY <1>2, <2>1
<1>5. PutsIn(down'[c]) = PutsIn(down[c])
  <2>1. PutsIn(down[c] \o t) = PutsIn(down[c])
    BY <1>2, JoinNoPuts
  <2> QED
    BY <1>2, <2>1
<1>6. Ascending(up'[c])
  BY <1>2, <1>3, AscendingTail DEF InTurn
<1>7. Ascending(down'[c])
  BY <1>2, <1>3, AscendingJoin DEF InTurn, Below
<1>8. /\ Told(down'[c]) = Told(down[c])
      /\ Current(down'[c], Acked(c))
      /\ Sequel(down'[c])
  <2>1. /\ Told(down[c] \o t) = Told(down[c]) \cup Told(t)
        /\ \A S : Current(down[c], S) /\ Current(t, S) => Current(down[c] \o t, S)
        /\ Sequel(down[c]) /\ Sequel(t) /\ Current(t, Told(down[c])) => Sequel(down[c] \o t)
    BY <1>2, JoinTold
  <2> QED
    BY <1>2, <1>3, <2>1 DEF Fresh
<1> QED
  BY <1>1, <1>2, <1>3, <1>4, <1>5, <1>6, <1>7, <1>8, WireStep DEF InTurn

\* The data of a listen is what the server holds.
LEMMA ServeListenOrder ==
    ASSUME OInv, IInv', NEW c \in Clients, NEW accept \in BOOLEAN, ServeListen(c, accept)
    PROVE  OInv'
<1> DEFINE r == Head(up[c]).read
           a == Data(r.loc, db[r.loc])
           y == ListenReply(r, TRUE)
           z == ListenReply(r, FALSE)
<1>1. /\ up[c] # <<>> /\ Head(up[c]).kind = "listen" /\ UNCHANGED <<db, applied>>
      /\ Answer(c, IF accept THEN <<a, y>> ELSE <<z>>)
  BY DEF ServeListen
<1>2. /\ up[c] \in Seq(Request) /\ db \in [Locs -> Write \cup {Nil}] /\ Fresh(c)
      /\ \A x \in Acked(c) \cup Told(down[c]) : Covers(db[x.loc], x)
  BY DEF OInv, IInv, Types, Fresh
<1>3. Head(up[c]) \in Request
  BY <1>1, <1>2, TailMessage
<1>4. r \in Read
  BY <1>1, <1>3 DEF Request, Auth, Put, Listen
<1>5. db[r.loc] \in Write \cup {Nil} /\ r.loc \in Locs
  BY <1>2, <1>4 DEF Read
<1>6. /\ a \in Response /\ y \in Response /\ z \in Response
      /\ a.kind = "data" /\ y.kind = "listen" /\ z.kind = "listen"
  BY <1>4, <1>5, DataIsResponse, ListenReplyIsResponse
<1>7. a.loc = r.loc /\ a.value = db[r.loc]
  BY DEF Data
<1> DEFINE S == Acked(c) \cup Told(down[c])
<1>8. Current(<<a>>, S)
  <2>1. \A x \in S : a.kind = "data" /\ a.loc = x.loc => Covers(a.value, x)
    BY <1>2, <1>7
  <2> HIDE DEF S, a
  <2> QED
    BY <2>1, OneTold
<1> HIDE DEF r, a, y, z
<1>9. \A x \in {a, y, z} :
         /\ <<x>> \in Seq(Response) /\ PutsIn(<<x>>) = {} /\ Told(<<x>>) = {} /\ Sequel(<<x>>)
         /\ Ascending(<<x>>)
  <2> SUFFICES ASSUME NEW x \in {a, y, z}
               PROVE  /\ <<x>> \in Seq(Response) /\ PutsIn(<<x>>) = {} /\ Told(<<x>>) = {}
                      /\ Sequel(<<x>>) /\ Ascending(<<x>>)
    OBVIOUS
  <2>1. x \in Response /\ x.kind # "put"
    BY <1>6
  <2>2. <<x>> \in Seq(Response) /\ PutsIn(<<x>>) = IF x.kind = "put" THEN {x.write} ELSE {}
    BY <2>1, OneMessage
  <2>3. Told(<<x>>) = (IF x.kind = "put" /\ x.ok THEN {x.write} ELSE {}) /\ Sequel(<<x>>)
    BY OneTold
  <2> QED
    BY <2>1, <2>2, <2>3, AscendingShort
<1>10. \A x \in {y, z} : Current(<<x>>, S)
  <2> SUFFICES ASSUME NEW x \in {y, z} PROVE Current(<<x>>, S)
    OBVIOUS
  <2>1. \A w \in S : x.kind = "data" /\ x.loc = w.loc => Covers(x.value, w)
    BY <1>6
  <2> HIDE DEF S
  <2> QED
    BY <2>1, OneTold
<1>11. \A t : Current(t, S) => Current(t, Acked(c)) /\ Current(t, Told(down[c]))
  BY DEF Current
<1>12. Head(up[c]).kind # "put"
  BY <1>1
<1> HIDE DEF S
<1>13. CASE accept
  <2> DEFINE t == <<a>> \o <<y>>
  <2>1. t = <<a, y>>
    <3>1. t \in Seq(Response) /\ Len(t) = 2 /\ t[1] = a /\ t[2] = y
      BY <1>6
    <3>2. <<a, y>> \in Seq(Response) /\ Len(<<a, y>>) = 2 /\ <<a, y>>[1] = a /\ <<a, y>>[2] = y
      BY <1>6
    <3> HIDE DEF t
    <3> QED
      BY <3>1, <3>2, SeqEqual
  <2>2. /\ t \in Seq(Response)
        /\ PutsIn(t) = PutsIn(<<a>>) \cup PutsIn(<<y>>)
        /\ NoRestore(<<a>>) /\ NoRestore(<<y>>) => NoRestore(t)
    <3>1. <<a>> \in Seq(Response) /\ <<y>> \in Seq(Response)
      BY <1>9
    <3> QED
      BY <3>1, JoinMessages
  <2>3. Ascending(t)
    BY <1>9, AscendingJoin DEF Below
  <2>4. /\ Told(t) = Told(<<a>>) \cup Told(<<y>>)
        /\ \A T : Current(<<a>>, T) /\ Current(<<y>>, T) => Current(t, T)
        /\ Sequel(<<a>>) /\ Sequel(<<y>>) /\ Current(<<y>>, Told(<<a>>)) => Sequel(t)
    BY <1>9, JoinTold
  <2>5. Answer(c, t)
    BY <1>1, <1>13, <2>1
  <2> HIDE DEF t
  <2>6. Current(<<y>>, {})
    BY DEF Current
  <2>7. PutsIn(t) = {} /\ Told(t) = {} /\ Sequel(t) /\ Current(t, S)
    BY <1>8, <1>9, <1>10, <2>2, <2>4, <2>6
  <2> QED
    BY <1>1, <1>11, <1>12, <2>2, <2>3, <2>5, <2>7, AnswerOrder
<1>14. CASE ~accept
  <2>1. Answer(c, <<z>>)
    BY <1>1, <1>14
  <2> QED
    BY <1>1, <1>9, <1>10, <1>11, <1>12, <2>1, AnswerOrder
<1> QED
  BY <1>13, <1>14

\* The answer to a token tells of no write.
LEMMA ServeAuthOrder ==
    ASSUME OInv, IInv', NEW c \in Clients, ServeAuth(c)
    PROVE  OInv'
<1> DEFINE m == Head(up[c])
<1>1. PICK ok \in BOOLEAN : Answer(c, <<AuthReply(ok, m.restore)>>)
  BY DEF ServeAuth
<1>2. up[c] # <<>> /\ m.kind = "auth" /\ UNCHANGED <<db, applied>> /\ up[c] \in Seq(Request)
  BY DEF ServeAuth, OInv, IInv, Types
<1>3. m \in Request
  BY <1>2, TailMessage
<1>4. m.restore \in BOOLEAN
  BY <1>2, <1>3 DEF Request, Auth, Put, Listen
<1> DEFINE x == AuthReply(ok, m.restore)
<1>5. x \in Response /\ x.kind = "auth"
  BY <1>4 DEF Response, AuthReply
<1>6. Answer(c, <<x>>) /\ m.kind # "put"
  BY <1>1, <1>2
<1> HIDE DEF x
<1>7. <<x>> \in Seq(Response) /\ PutsIn(<<x>>) = IF x.kind = "put" THEN {x.write} ELSE {}
  BY <1>5, OneMessage
<1>8. /\ Told(<<x>>) = (IF x.kind = "put" /\ x.ok THEN {x.write} ELSE {}) /\ Sequel(<<x>>)
      /\ \A S : (\A y \in S : x.kind = "data" /\ x.loc = y.loc => Covers(x.value, y))
                => Current(<<x>>, S)
  BY OneTold
<1>9. PutsIn(<<x>>) = {} /\ Told(<<x>>) = {} /\ Current(<<x>>, Acked(c))
      /\ Current(<<x>>, Told(down[c]))
  BY <1>5, <1>7, <1>8
<1> QED
  BY <1>2, <1>6, <1>7, <1>8, <1>9, AscendingShort, AnswerOrder

\* A put that is applied is the client's newest so far.
LEMMA ServePutOrder ==
    ASSUME OInv, IInv', Keeps, NEW c \in Clients, NEW accept \in BOOLEAN, ServePut(c, accept)
    PROVE  OInv'
<1> DEFINE w == Head(up[c]).write
           x == PutReply(w, accept)
           t == <<x>>
<1>1. /\ up[c] # <<>> /\ Head(up[c]).kind = "put"
      /\ db' = IF accept THEN [db EXCEPT ![w.loc] = w] ELSE db
      /\ Answer(c, t)
  BY DEF ServePut
<1>2. /\ UNCHANGED <<conn, outstanding, toAck, status>>
      /\ up' = [up EXCEPT ![c] = Tail(@)] /\ down' = [down EXCEPT ![c] = @ \o t]
  BY <1>1 DEF Answer, client
<1>3. /\ up'[c] = Tail(up[c]) /\ down'[c] = down[c] \o t
      /\ \A d \in Clients \ {c} : up'[d] = up[d] /\ down'[d] = down[d]
      /\ up[c] \in Seq(Request) /\ down[c] \in Seq(Response)
  BY <1>2 DEF OInv, IInv, Types
<1>4. InTurn(c) /\ Fresh(c) /\ IInv /\ Types
  BY DEF OInv, IInv
<1>5. PutsIn(up[c]) = {w} \cup PutsIn(up'[c])
  <2>1. PutsIn(up[c]) = (IF Head(up[c]).kind = "put" THEN {Head(up[c]).write} ELSE {})
                        \cup PutsIn(Tail(up[c]))
    BY <1>1, <1>3, PutsSplit
  <2> QED
    BY <1>1, <1>3, <2>1
<1>6. Ascending(up'[c]) /\ Below({w}, PutsIn(up'[c]))
  BY <1>1, <1>3, <1>4, AscendingTail DEF InTurn
<1>7. w \in outstanding[c] /\ w \in Write /\ w.client = c
  BY <1>4, <1>5, OwnWrites
<1>8. x \in Response /\ x.kind = "put" /\ x.write = w /\ x.ok = accept
  BY <1>7 DEF Response, PutReply
<1> HIDE DEF w, x
<1>9. t \in Seq(Response) /\ PutsIn(t) = {w} /\ Ascending(t)
  BY <1>8, OneMessage, AscendingShort
<1>10. /\ Told(t) = (IF accept THEN {w} ELSE {}) /\ Sequel(t)
       /\ \A S : Current(t, S)
  <2>1. /\ Told(t) = (IF x.kind = "put" /\ x.ok THEN {x.write} ELSE {}) /\ Sequel(t)
        /\ \A S : (\A y \in S : x.kind = "data" /\ x.loc = y.loc => Covers(x.value, y))
                  => Current(t, S)
    BY OneTold
  <2> HIDE DEF t
  <2> QED
    BY <1>8, <2>1
<1> HIDE DEF t
<1>11. PutsIn(down'[c]) = PutsIn(down[c]) \cup {w}
  <2>1. PutsIn(down[c] \o t) = PutsIn(down[c]) \cup PutsIn(t)
    BY <1>3, <1>9, JoinMessages
  <2> QED
    BY <1>3, <1>9, <2>1
<1>12. Below(PutsIn(down[c]), {w})
  BY <1>4, <1>5 DEF InTurn, Below
<1>13. Ascending(down'[c])
  BY <1>3, <1>4, <1>9, <1>12, AscendingJoin DEF InTurn
<1>14. Below(PutsIn(down'[c]), PutsIn(up'[c]))
  BY <1>4, <1>5, <1>6, <1>11 DEF InTurn, Below
<1>15. Settled(c)' = Settled(c) /\ Acked(c)' = Acked(c)
  BY <1>2 DEF Settled, Acked
<1>16. InTurn(c)'
  BY <1>2, <1>4, <1>5, <1>6, <1>11, <1>13, <1>14, <1>15 DEF InTurn
<1>17. /\ Told(down'[c]) = Told(down[c]) \cup Told(t)
       /\ Current(down'[c], Acked(c)) /\ Sequel(down'[c])
  <2>1. /\ Told(down[c] \o t) = Told(down[c]) \cup Told(t)
        /\ \A S : Current(down[c], S) /\ Current(t, S) => Current(down[c] \o t, S)
        /\ Sequel(down[c]) /\ Sequel(t) /\ Current(t, Told(down[c])) => Sequel(down[c] \o t)
    BY <1>3, <1>9, JoinTold
  <2> QED
    BY <1>3, <1>4, <1>10, <2>1 DEF Fresh
<1>18. ASSUME NEW u \in Acked(c) \cup Told(down'[c]) PROVE Covers(db'[u.loc], u)
  <2>1. CASE ~accept
    <3>1. u \in Acked(c) \cup Told(down[c]) /\ db' = db
      BY <1>1, <1>10, <1>17, <1>18, <2>1
    <3> QED
      BY <1>4, <3>1 DEF Fresh
  <2>2. CASE accept /\ u = w
    <3>1. db'[w.loc] = w /\ w # Nil
      BY <1>1, <1>4, <1>7, <2>2, NilIsNoWrite DEF Types, Write
    <3>2. w.n <= w.n
      BY <1>7, BoundsAreNatural DEF Write
    <3> QED
      BY <2>2, <3>1, <3>2 DEF Covers
  <2>3. CASE accept /\ u # w
    <3>1. u \in Acked(c) \cup Told(down[c]) /\ db' = [db EXCEPT ![w.loc] = w]
      BY <1>1, <1>10, <1>17, <1>18, <2>3
    <3>2. u \in Write /\ Covers(db[u.loc], u)
      BY <1>4, <3>1, OwnWrites DEF Fresh, Acked
    <3>3. u.n < w.n
      <4>1. CASE u \in Acked(c)
        BY <1>4, <1>7, <4>1, AckedSettled DEF InTurn, Below
      <4>2. CASE u \in Told(down[c])
        BY <1>4, <1>12, <4>2, OwnWrites DEF Below
      <4> QED
        BY <3>1, <4>1, <4>2
    <3>4. u.n <= w.n
      BY <1>7, <3>2, <3>3, BoundsAreNatural DEF Write
    <3> QED
      BY <1>4, <1>7, <3>1, <3>2, <3>4, StoreCovers
  <2> QED
    BY <2>1, <2>2, <2>3
<1>19. Fresh(c)'
  BY <1>15, <1>17, <1>18 DEF Fresh
<1>20. db' = db \/ \E u \in Write : u.client = c /\ db' = [db EXCEPT ![u.loc] = u]
  BY <1>1, <1>7
<1> QED
  BY <1>2, <1>3, <1>16, <1>19, <1>20, OrderStep

\* A write is newer than every write of its client before it.
LEMMA SetOrder ==
    ASSUME OInv, IInv', Keeps, NEW c \in Clients, NEW l \in Locs, Set(c, l)
    PROVE  OInv'
<1> DEFINE w == [client |-> c, n |-> issued[c] + 1, loc |-> l]
<1>1. /\ w \in Write /\ w.client = c /\ w.n = issued[c] + 1 /\ issued[c] \in Nat
      /\ issued[c] < MaxWrites
  BY BoundsAreNatural DEF OInv, IInv, Types, Set, Write
<1>2. Put(w) \in Request /\ Put(w).kind = "put" /\ Put(w).write = w
  BY <1>1 DEF Request, Put
<1>3. /\ outstanding' = [outstanding EXCEPT ![c] = @ \cup {w}]
      /\ status' = [status EXCEPT ![w] = "pending"]
      /\ up' = IF conn[c] = "connected" THEN [up EXCEPT ![c] = Append(@, Put(w))] ELSE up
      /\ UNCHANGED <<conn, toAck, down, db, applied>>
  BY DEF Set
<1> HIDE DEF w
<1>4. InTurn(c) /\ Fresh(c) /\ IInv /\ Types
  BY DEF OInv, IInv
<1>5. /\ outstanding'[c] = outstanding[c] \cup {w}
      /\ \A d \in Clients \ {c} : outstanding'[d] = outstanding[d] /\ up'[d] = up[d]
      /\ status'[w] = "pending" /\ \A x \in Write \ {w} : status'[x] = status[x]
  BY <1>1, <1>3, <1>4 DEF Types
<1>6. status[w] = "new"
  <2>1. w.n > issued[w.client]
    BY <1>1
  <2> QED
    BY <1>1, <1>4, <2>1 DEF IInv, StatusOK
<1>7. \A x \in Write : x.client = c /\ status[x] # "new" => x.n < w.n
  <2> SUFFICES ASSUME NEW x \in Write, x.client = c, status[x] # "new" PROVE x.n < w.n
    OBVIOUS
  <2>1. ~(x.n > issued[c])
    BY <1>4 DEF IInv, StatusOK
  <2>2. x.n \in Nat
    BY BoundsAreNatural DEF Write
  <2> QED
    BY <1>1, <2>1, <2>2
<1>8. \A x \in outstanding[c] : x.n < w.n
  BY <1>4, <1>7, OwnWrites
<1>9. Settled(c)' = Settled(c)
  BY <1>5, <1>6 DEF Settled
<1>10. Acked(c)' = Acked(c)
  <2>1. \A x \in Write : status'[x] = "ok" <=> status[x] = "ok"
    BY <1>5, <1>6
  <2> QED
    BY <1>3, <2>1 DEF Acked
<1>11. Below(Settled(c), outstanding'[c])
  <2>1. Below(Settled(c), outstanding[c]) /\ Below(Settled(c), {w})
    BY <1>4, <1>7 DEF InTurn, Below, Settled
  <2> QED
    BY <1>5, <2>1 DEF Below
<1>12. CASE conn[c] = "connected"
  <2>1. up'[c] = Append(up[c], Put(w)) /\ up[c] \in Seq(Request)
    BY <1>3, <1>4, <1>12 DEF Types
  <2>2. PutsIn(up'[c]) = PutsIn(up[c]) \cup {w}
    <3>1. PutsIn(Append(up[c], Put(w))) =
             PutsIn(up[c]) \cup (IF Put(w).kind = "put" THEN {Put(w).write} ELSE {})
      BY <1>2, <2>1, AppendMessage
    <3> QED
      BY <1>2, <2>1, <3>1
  <2>3. \A x \in PutsIn(up[c]) \cup PutsIn(down[c]) : x.n < w.n
    BY <1>4, <1>8, OwnWrites
  <2>4. Ascending(up'[c])
    <3>1. Ascending(Append(up[c], Put(w)))
      BY <1>2, <1>4, <2>1, <2>3, AscendingAppend DEF InTurn
    <3> QED
      BY <2>1, <3>1
  <2>5. Below(PutsIn(down[c]), PutsIn(up'[c]))
    BY <1>4, <2>2, <2>3 DEF InTurn, Below
  <2>6. InTurn(c)'
    BY <1>3, <1>4, <1>5, <1>9, <1>11, <1>12, <2>2, <2>4, <2>5 DEF InTurn
  <2>7. Fresh(c)'
    BY <1>3, <1>4, <1>10 DEF Fresh
  <2> QED
    BY <1>1, <1>3, <1>5, <2>6, <2>7, OrderStep
<1>13. CASE conn[c] # "connected"
  <2>1. InTurn(c)'
    BY <1>3, <1>4, <1>9, <1>11, <1>13 DEF InTurn
  <2>2. Fresh(c)'
    BY <1>3, <1>4, <1>10 DEF Fresh
  <2> QED
    BY <1>1, <1>3, <1>5, <2>1, <2>2, OrderStep
<1> QED
  BY <1>12, <1>13

\* The order ends with the process; what was completed is still at the server.
LEMMA KillOrder ==
    ASSUME OInv, IInv', Keeps, NEW c \in Clients, Kill(c)
    PROVE  OInv'
<1>1. /\ conn' = [conn EXCEPT ![c] = "down"]
      /\ outstanding' = [outstanding EXCEPT ![c] = {}]
      /\ toAck' = [toAck EXCEPT ![c] = {}]
      /\ up' = [up EXCEPT ![c] = <<>>]
      /\ down' = [down EXCEPT ![c] = <<>>]
      /\ status' = [w \in Write |-> IF w \in writes[c] THEN "lost" ELSE status[w]]
      /\ UNCHANGED db
  BY DEF Kill
<1>2. Fresh(c) /\ IInv /\ Types
  BY DEF OInv, IInv
<1>3. /\ conn'[c] = "down" /\ outstanding'[c] = {} /\ toAck'[c] = {}
      /\ up'[c] = <<>> /\ down'[c] = <<>>
      /\ \A d \in Clients \ {c} :
            /\ conn'[d] = conn[d] /\ outstanding'[d] = outstanding[d]
            /\ toAck'[d] = toAck[d] /\ up'[d] = up[d] /\ down'[d] = down[d]
  BY <1>1, <1>2 DEF Types
<1>4. \A x \in Write : x.client # c => status'[x] = status[x]
  BY <1>1, <1>2 DEF IInv, Client, Visible
<1>5. PutsIn(<<>>) = {}
  BY DEF PutsIn
<1>6. InTurn(c)'
  BY <1>3, <1>5, AscendingShort DEF InTurn, Below
<1>7. Acked(c)' \subseteq Acked(c)
  <2>1. \A x \in Write : status'[x] = "ok" => status[x] = "ok"
    BY <1>1
  <2> QED
    BY <1>3, <2>1 DEF Acked
<1>8. Fresh(c)'
  <2>1. \A S : Current(<<>>, S)
    BY NothingTold
  <2>2. Told(<<>>) = {} /\ Sequel(<<>>)
    BY NothingTold
  <2> QED
    BY <1>1, <1>2, <1>3, <1>7, <2>1, <2>2 DEF Fresh
<1> QED
  BY <1>1, <1>3, <1>4, <1>6, <1>8, OrderStep

----------------------------------------------------------------------------
(* Responses *)

\* The first response taken.
LEMMA TakeFirst ==
    ASSUME OInv, NEW c \in Clients, down[c] # <<>>
    PROVE  LET m == Head(down[c])
               r == Tail(down[c])
           IN  /\ m \in Response
               /\ PutsIn(down[c]) = (IF m.kind = "put" THEN {m.write} ELSE {}) \cup PutsIn(r)
               /\ Ascending(r) /\ (m.kind = "put" => Below({m.write}, PutsIn(r)))
               /\ Below(PutsIn(r), PutsIn(up[c]))
               /\ Told(r) \subseteq Told(down[c]) /\ Sequel(r) /\ Current(r, Acked(c))
               /\ m.kind = "data" => \A y \in Acked(c) : m.loc = y.loc => Covers(m.value, y)
               /\ m.kind = "put" /\ m.ok => m.write \in Told(down[c]) /\ Current(r, {m.write})
<1> DEFINE s == down[c]
<1>1. s \in Seq(Response) /\ InTurn(c) /\ Fresh(c) /\ s # <<>>
  BY DEF OInv, IInv, Types
<1>2. Ascending(s) /\ Sequel(s) /\ Current(s, Acked(c)) /\ Below(PutsIn(s), PutsIn(up[c]))
  BY <1>1 DEF InTurn, Fresh
<1> HIDE DEF s
<1>3. PutsIn(s) = (IF Head(s).kind = "put" THEN {Head(s).write} ELSE {}) \cup PutsIn(Tail(s))
      /\ Head(s) \in Response
  BY <1>1, PutsSplit
<1>4. Below(PutsIn(Tail(s)), PutsIn(up[c]))
  BY <1>2, <1>3 DEF Below
<1>5. Ascending(Tail(s)) /\ (Head(s).kind = "put" => Below({Head(s).write}, PutsIn(Tail(s))))
  BY <1>1, <1>2, AscendingTail
<1>6. /\ Told(Tail(s)) \subseteq Told(s)
      /\ \A S : Current(s, S) =>
           /\ Current(Tail(s), S)
           /\ \A y \in S : Head(s).kind = "data" /\ Head(s).loc = y.loc
                           => Covers(Head(s).value, y)
      /\ Sequel(s) => Sequel(Tail(s))
      /\ Head(s).kind = "put" /\ Head(s).ok =>
           /\ Head(s).write \in Told(s)
           /\ Sequel(s) => Current(Tail(s), {Head(s).write})
  BY <1>1, TailTold
<1>7. /\ Current(Tail(s), Acked(c))
      /\ \A y \in Acked(c) : Head(s).kind = "data" /\ Head(s).loc = y.loc
                             => Covers(Head(s).value, y)
  BY <1>2, <1>6
<1> QED
  BY <1>2, <1>3, <1>4, <1>5, <1>6, <1>7 DEF s

\* A response that completes nothing.
LEMMA TakeOrder ==
    ASSUME OInv, IInv', NEW c \in Clients, down[c] # <<>>, Head(down[c]).kind # "put",
           down' = [down EXCEPT ![c] = Tail(@)],
           UNCHANGED <<conn, outstanding, toAck, up, status, db, applied>>
    PROVE  OInv'
<1>1. down'[c] = Tail(down[c]) /\ \A d \in Clients \ {c} : down'[d] = down[d]
  BY DEF OInv, IInv, Types
<1>2. InTurn(c)
  BY DEF OInv
<1>3. PutsIn(down'[c]) = PutsIn(down[c])
  BY <1>1, TakeFirst
<1>4. /\ Ascending(down'[c]) /\ Told(down'[c]) \subseteq Told(down[c])
      /\ Sequel(down'[c]) /\ Current(down'[c], Acked(c))
  BY <1>1, TakeFirst
<1> QED
  BY <1>1, <1>2, <1>3, <1>4, WireStep DEF InTurn

\* After the token every outstanding put is sent in order.
LEMMA ReceiveAuthOrder ==
    ASSUME OInv, IInv', NEW c \in Clients, ReceiveAuth(c)
    PROVE  OInv'
<1> DEFINE m == Head(down[c])
<1>1. /\ down[c] # <<>> /\ m.kind = "auth"
      /\ UNCHANGED <<db, status, applied>>
  BY DEF ReceiveAuth, Receives
<1>2. CASE ~m.ok
  BY <1>1, <1>2, DisconnectedOrder DEF ReceiveAuth
<1>3. ASSUME m.ok PROVE OInv'
  <2>1. /\ conn' = [conn EXCEPT ![c] = "connected"] /\ down' = [down EXCEPT ![c] = Tail(@)]
        /\ UNCHANGED <<outstanding, toAck>>
    BY <1>3 DEF ReceiveAuth
  <2>2. /\ down[c] \in Seq(Response) /\ up[c] \in Seq(Request)
        /\ up \in [Clients -> Seq(Request)] /\ down \in [Clients -> Seq(Response)]
        /\ conn \in [Clients -> {"down", "authenticating", "connected"}]
        /\ Types /\ Phase(conn[c], up[c], down[c]) /\ InTurn(c)
    BY DEF OInv, IInv, Types, Client
  <2>3. NoRestore(down[c]) => ~m.restore
    BY <1>1, <2>2, TailMessage
  <2>4. CASE m.restore
    <3>1. PICK q \in Restored(c) : up' = [up EXCEPT ![c] = @ \o q]
      BY <1>3, <2>4 DEF ReceiveAuth
    <3>2. q \in Seq(Request) /\ Ascending(q) /\ PutsIn(q) = outstanding[c]
      BY <2>2, RestoredAscending, RestoredOK DEF OInv
    <3>3. PutsIn(up[c]) = {} /\ PutsIn(down[c]) = {}
      BY <1>1, <2>2, <2>3, <2>4 DEF Phase
    <3>4. /\ up[c] \o q \in Seq(Request)
          /\ PutsIn(up[c] \o q) = PutsIn(up[c]) \cup PutsIn(q)
          /\ NoRestore(up[c]) /\ NoRestore(q) => NoRestore(up[c] \o q)
      <4>1. up[c] \in Seq(Request)
        BY <2>2
      <4> QED
        BY <3>2, <4>1, JoinMessages
    <3>5. Ascending(up[c] \o q)
      <4>1. Below(PutsIn(up[c]), PutsIn(q)) /\ Ascending(up[c])
        BY <2>2, <3>3 DEF Below, InTurn
      <4> QED
        BY <2>2, <3>2, <4>1, AscendingJoin
    <3>6. /\ up'[c] = up[c] \o q /\ down'[c] = Tail(down[c])
          /\ \A d \in Clients \ {c} : conn'[d] = conn[d] /\ up'[d] = up[d] /\ down'[d] = down[d]
      BY <2>1, <2>2, <3>1
    <3>7. /\ Ascending(down'[c]) /\ Told(down'[c]) \subseteq Told(down[c])
          /\ Sequel(down'[c]) /\ Current(down'[c], Acked(c)) /\ PutsIn(down'[c]) = {}
      BY <1>1, <3>3, <3>6, TakeFirst
    <3>8. Below(PutsIn(down'[c]), PutsIn(up'[c]))
      BY <3>7 DEF Below
    <3>9. outstanding[c] \subseteq PutsIn(up'[c]) /\ Ascending(up'[c])
      BY <3>2, <3>4, <3>5, <3>6
    <3> QED
      BY <1>1, <2>1, <3>6, <3>7, <3>8, <3>9, WireStep
  <2>5. CASE ~m.restore
    <3>1. up' = up
      BY <1>3, <2>5 DEF ReceiveAuth
    <3>2. conn[c] = "connected"
      BY <1>1, <2>2, <2>5 DEF Phase
    <3>3. conn' = conn
      BY <2>1, <2>2, <3>2
    <3> QED
      BY <1>1, <2>1, <3>1, <3>3, TakeOrder
  <2> QED
    BY <2>4, <2>5
<1> QED
  BY <1>2, <1>3

\* What completions do to the writes that are settled and acknowledged.
LEMMA CompletedOrder ==
    ASSUME IInv, NEW c \in Clients, NEW acks \in SUBSET Ack, Written(acks) \subseteq writes[c],
           status' = Completed(acks)
    PROVE  /\ \A x \in Write : status'[x] # "new" => status[x] # "new"
           /\ \A x \in Write : x.client # c => status'[x] = status[x]
           /\ \A x \in Write : status'[x] = "ok" =>
                 status[x] = "ok" \/ [write |-> x, ok |-> TRUE] \in acks
<1>1. \A w \in writes[c] : w \in Write /\ w.client = c /\ status[w] = "pending"
  BY DEF IInv, Types, StatusOK, Client, Visible
<1>2. \A x \in Write : (\E a \in acks : a.write = x) <=> x \in Written(acks)
  BY DEF Written
<1>3. \A x \in Write :
         status'[x] = IF x \in Written(acks)
                      THEN IF [write |-> x, ok |-> TRUE] \in acks THEN "ok" ELSE "error"
                      ELSE status[x]
  BY <1>2 DEF Completed
<1>4. \A x \in Write : status'[x] # "new" => status[x] # "new"
  BY <1>1, <1>3
<1>5. \A x \in Write : x.client # c => status'[x] = status[x]
  BY <1>1, <1>3
<1>6. ASSUME NEW x \in Write, status'[x] = "ok"
      PROVE  status[x] = "ok" \/ [write |-> x, ok |-> TRUE] \in acks
  BY <1>3, <1>6
<1> QED
  BY <1>4, <1>5, <1>6

\* The last response to a listen completes what was acknowledged before.
LEMMA ReceiveListenOrder ==
    ASSUME OInv, IInv', Keeps, NEW c \in Clients, ReceiveListen(c)
    PROVE  OInv'
<1> DEFINE m == Head(down[c])
           F == IF unacked[c] = 1 THEN toAck[c] ELSE {}
<1>1. /\ down[c] # <<>> /\ m.kind = "listen"
      /\ toAck' = [toAck EXCEPT ![c] = @ \ F]
      /\ status' = Completed(F)
      /\ down' = [down EXCEPT ![c] = Tail(@)]
      /\ UNCHANGED <<conn, outstanding, up, db>>
  BY DEF ReceiveListen, Receives
<1>2. F = {} \/ F = toAck[c]
  OBVIOUS
<1> HIDE DEF F
<1>3. Types /\ Client(c) /\ IInv /\ InTurn(c) /\ Fresh(c)
  BY DEF OInv, IInv
<1>4. F \in SUBSET Ack /\ F \subseteq toAck[c]
  BY <1>2, <1>3 DEF Types
<1>5. Written(F) \subseteq writes[c]
  BY <1>3, <1>4 DEF Client, Visible, Written
<1>6. /\ \A x \in Write : status'[x] # "new" => status[x] # "new"
      /\ \A x \in Write : x.client # c => status'[x] = status[x]
      /\ \A x \in Write : status'[x] = "ok" =>
            status[x] = "ok" \/ [write |-> x, ok |-> TRUE] \in F
  BY <1>1, <1>3, <1>4, <1>5, CompletedOrder
<1>7. /\ down'[c] = Tail(down[c]) /\ toAck'[c] = toAck[c] \ F
      /\ \A d \in Clients \ {c} : down'[d] = down[d] /\ toAck'[d] = toAck[d]
  BY <1>1, <1>3 DEF Types
<1>8. Settled(c)' \subseteq Settled(c)
  BY <1>1, <1>6 DEF Settled
<1>9. Acked(c)' \subseteq Acked(c)
  BY <1>4, <1>6, <1>7 DEF Acked
<1>10. /\ Ascending(down'[c]) /\ Told(down'[c]) \subseteq Told(down[c])
       /\ Sequel(down'[c]) /\ Current(down'[c], Acked(c)) /\ PutsIn(down'[c]) = PutsIn(down[c])
  BY <1>1, <1>7, TakeFirst
<1>11. InTurn(c)'
  BY <1>1, <1>3, <1>8, <1>10 DEF InTurn, Below
<1>12. Current(down'[c], Acked(c)')
  BY <1>9, <1>10 DEF Current
<1>13. Fresh(c)'
  BY <1>1, <1>3, <1>9, <1>10, <1>12 DEF Fresh
<1> QED
  BY <1>1, <1>6, <1>7, <1>11, <1>13, OrderStep

\* The put that is answered was the oldest in the queue.
LEMMA ReceivePutOrder ==
    ASSUME OInv, IInv', Keeps, NEW c \in Clients, ReceivePut(c)
    PROVE  OInv'
<1> DEFINE m == Head(down[c])
           w == m.write
           ack == [write |-> m.write, ok |-> m.ok]
<1>1. /\ down[c] # <<>> /\ m.kind = "put"
      /\ down' = [down EXCEPT ![c] = Tail(@)]
      /\ UNCHANGED <<conn, up, db>>
  BY DEF ReceivePut, Receives
<1>2. Types /\ Client(c) /\ IInv /\ InTurn(c) /\ Fresh(c)
  BY DEF OInv, IInv
<1>3. down'[c] = Tail(down[c]) /\ \A d \in Clients \ {c} : down'[d] = down[d]
  BY <1>1, <1>2 DEF Types
<1>4. /\ m \in Response
      /\ PutsIn(down[c]) = {w} \cup PutsIn(down'[c])
      /\ Ascending(down'[c]) /\ Below({w}, PutsIn(down'[c]))
      /\ Below(PutsIn(down'[c]), PutsIn(up[c]))
      /\ Told(down'[c]) \subseteq Told(down[c]) /\ Sequel(down'[c])
      /\ Current(down'[c], Acked(c))
      /\ m.ok => w \in Told(down[c]) /\ Current(down'[c], {w})
  BY <1>1, <1>3, TakeFirst
<1>5. w \in Write /\ m.ok \in BOOLEAN
  BY <1>1, <1>4 DEF Response, AuthReply, PutReply, ListenReply, Data
<1>6. w \in outstanding[c] /\ w \in writes[c] /\ w.client = c /\ status[w] = "pending"
  BY <1>2, <1>4, OwnWrites DEF Client, Visible
<1>7. conn[c] = "connected"
  <2>1. w \in PutsIn(down[c]) /\ Phase(conn[c], up[c], down[c])
        /\ conn[c] \in {"down", "authenticating", "connected"}
    BY <1>2, <1>4 DEF Types, Client
  <2> QED
    BY <1>1, <2>1 DEF Phase
<1>8. /\ outstanding' = [outstanding EXCEPT ![c] = @ \ {w}]
      /\ \/ status' = Completed({ack}) /\ toAck' = toAck
         \/ toAck' = [toAck EXCEPT ![c] = @ \cup {ack}] /\ status' = status
  BY <1>6 DEF ReceivePut
<1>9. ack \in Ack /\ ack.write = w /\ ack.ok = m.ok
  BY <1>5 DEF Ack
<1> HIDE DEF m, w, ack
<1>10. \A x : [write |-> x, ok |-> TRUE] = ack => x = w /\ m.ok
  BY <1>9
<1>11. /\ outstanding'[c] = outstanding[c] \ {w}
       /\ \A d \in Clients \ {c} : outstanding'[d] = outstanding[d] /\ toAck'[d] = toAck[d]
       /\ toAck'[c] \subseteq toAck[c] \cup {ack}
  BY <1>2, <1>8 DEF Types
<1>12. /\ \A x \in Write : status'[x] # "new" => status[x] # "new"
       /\ \A x \in Write : x.client # c => status'[x] = status[x]
       /\ \A x \in Write : status'[x] = "ok" =>
             status[x] = "ok" \/ [write |-> x, ok |-> TRUE] = ack
  <2>1. CASE status' = status
    BY <2>1
  <2>2. CASE status' = Completed({ack})
    <3>1. {ack} \in SUBSET Ack
      BY <1>9
    <3>2. Written({ack}) \subseteq writes[c]
      BY <1>6, <1>9 DEF Written
    <3>3. /\ \A x \in Write : status'[x] # "new" => status[x] # "new"
          /\ \A x \in Write : x.client # c => status'[x] = status[x]
          /\ \A x \in Write : status'[x] = "ok" =>
                status[x] = "ok" \/ [write |-> x, ok |-> TRUE] \in {ack}
      BY <1>2, <2>2, <3>1, <3>2, CompletedOrder
    <3> QED
      BY <3>3
  <2> QED
    BY <1>8, <2>1, <2>2
<1>13. Settled(c)' \subseteq Settled(c) \cup {w}
  BY <1>11, <1>12 DEF Settled
<1>14. outstanding'[c] \subseteq PutsIn(up[c]) \cup PutsIn(down'[c])
  BY <1>2, <1>4, <1>7, <1>11 DEF InTurn
<1>15. Below({w}, outstanding'[c])
  <2>1. Below({w}, PutsIn(up[c]))
    BY <1>2, <1>4 DEF InTurn, Below
  <2> QED
    BY <1>4, <1>14, <2>1 DEF Below
<1>16. Below(Settled(c)', outstanding'[c])
  <2>1. Below(Settled(c), outstanding'[c])
    BY <1>2, <1>11 DEF InTurn, Below
  <2> QED
    BY <1>13, <1>15, <2>1 DEF Below
<1>17. InTurn(c)'
  BY <1>1, <1>2, <1>4, <1>14, <1>16 DEF InTurn
<1>18. Acked(c)' \subseteq Acked(c) \cup (IF m.ok THEN {w} ELSE {})
  <2> SUFFICES ASSUME NEW x \in Write, x.client = c,
                      status'[x] = "ok" \/ [write |-> x, ok |-> TRUE] \in toAck'[c]
               PROVE  x \in Acked(c) \cup (IF m.ok THEN {w} ELSE {})
    BY DEF Acked
  <2>1. \/ status[x] = "ok" \/ [write |-> x, ok |-> TRUE] \in toAck[c]
        \/ [write |-> x, ok |-> TRUE] = ack
    BY <1>11, <1>12
  <2> QED
    BY <1>10, <2>1 DEF Acked
<1>19. Current(down'[c], Acked(c)')
  BY <1>4, <1>18 DEF Current
<1>20. \A x \in Acked(c)' \cup Told(down'[c]) : Covers(db[x.loc], x)
  BY <1>2, <1>4, <1>18 DEF Fresh
<1>21. Fresh(c)'
  BY <1>1, <1>4, <1>19, <1>20 DEF Fresh
<1> QED
  BY <1>1, <1>3, <1>11, <1>12, <1>17, <1>21, OrderStep

\* Initially nothing was written.
LEMMA InitOrder == Init => OInv
<1> SUFFICES ASSUME Init PROVE OInv
  OBVIOUS
<1>1. PutsIn(<<>>) = {}
  BY DEF PutsIn
<1>2. StoreKnown
  BY DEF Init, StoreKnown
<1>3. ASSUME NEW c \in Clients PROVE InTurn(c) /\ Fresh(c)
  <2>1. /\ conn[c] = "down" /\ outstanding[c] = {} /\ toAck[c] = {} /\ up[c] = <<>>
        /\ down[c] = <<>> /\ \A x \in Write : status[x] = "new"
    BY <1>3 DEF Init
  <2>2. Acked(c) = {}
    BY <2>1 DEF Acked
  <2>3. Told(<<>>) = {} /\ Sequel(<<>>) /\ Current(<<>>, {})
    BY NothingTold
  <2>4. InTurn(c)
    BY <1>1, <2>1, AscendingShort DEF InTurn, Below
  <2>5. Fresh(c)
    BY <2>1, <2>2, <2>3 DEF Fresh
  <2> QED
    BY <2>4, <2>5
<1> QED
  BY <1>2, <1>3, InitInv DEF OInv

\* Every step keeps the order of the writes.
LEMMA StepOrder == OInv /\ [Next]_vars => OInv'
<1> SUFFICES ASSUME OInv, [Next]_vars PROVE OInv'
  OBVIOUS
<1>1. IInv' /\ Keeps
  BY StepInv DEF OInv
<1>2. CASE UNCHANGED vars
  BY <1>1, <1>2, OrderStays DEF vars, client
<1>3. ASSUME NEW c \in Clients, App(c) PROVE OInv'
  BY <1>1, <1>3, SetOrder, ObserveOrder, ChangeTokenOrder DEF App
<1>4. ASSUME NEW c \in Clients, Disconnect(c) PROVE OInv'
  <2>1. Disconnected(c) /\ UNCHANGED <<db, status, applied>>
    BY <1>4 DEF Disconnect
  <2> QED
    BY <1>1, <2>1, DisconnectedOrder
<1>5. ASSUME NEW c \in Clients, Serve(c) PROVE OInv'
  BY <1>1, <1>5, ServeAuthOrder, ServePutOrder, ServeListenOrder DEF Serve
<1>6. ASSUME NEW c \in Clients, ReceiveData(c) PROVE OInv'
  <2>1. /\ down[c] # <<>> /\ Head(down[c]).kind # "put"
        /\ down' = [down EXCEPT ![c] = Tail(@)]
        /\ UNCHANGED <<conn, outstanding, toAck, up, status, db, applied>>
    BY <1>6 DEF ReceiveData, Receives
  <2> QED
    BY <1>1, <2>1, TakeOrder
<1>7. ASSUME NEW c \in Clients, Receive(c) PROVE OInv'
  BY <1>1, <1>6, <1>7, ReceiveAuthOrder, ReceiveListenOrder, ReceivePutOrder DEF Receive
<1> QED
  BY <1>1, <1>2, <1>3, <1>4, <1>5, <1>7, ConnectOrder, KillOrder DEF Next

\* Puts of a client are applied, sent again and answered in the order of their
\* numbers (outstandingPuts sorted by restoreState): when all writes of the only writer
\* of a location are completed without error, the server holds the last.
THEOREM LastStays == Spec => []LastWriteStays
<1>1. ASSUME OInv, NEW c \in Clients, NEW l \in Locs,
             \E w \in Write : w.loc = l /\ status[w] # "new",
             \A w \in Write : w.loc = l /\ status[w] # "new" => w.client = c /\ status[w] = "ok",
             NEW w \in Write, w.loc = l, status[w] # "new"
      PROVE  w.n <= db[l].n
  <2>1. w \in Acked(c)
    BY <1>1 DEF Acked
  <2>2. Covers(db[l], w) /\ db[l] \in Write \cup {Nil}
    BY <1>1, <2>1 DEF OInv, Fresh, IInv, Types
  <2>3. db[l] \in Write /\ db[l].loc = l /\ status[db[l]] # "new"
    BY <1>1, <2>2 DEF Covers, OInv, StoreKnown
  <2> QED
    BY <1>1, <2>2, <2>3 DEF Covers
<1>2. OInv => LastWriteStays
  BY <1>1 DEF LastWriteStays
<1> QED
  BY <1>2, InitOrder, StepOrder, PTL DEF Spec

----------------------------------------------------------------------------
(* What a read shows *)

\* v may be shown to c although it wrote w there.
Admits(c, w, v) ==
    /\ status[w] = "pending" => v \in Write /\ v.client = c /\ v.n >= w.n
    /\ status[w] = "ok" =>
          /\ v \in Write
          /\ v.client = c => v.n >= w.n \/ v \in Written(toAck[c])

\* A value not older than what c knows is admitted under its visible writes.
LEMMA ShownAdmits ==
    ASSUME OInv, NEW c \in Clients, NEW l \in Locs, NEW v \in Write \cup {Nil},
           {w \in writes[c] : w.loc = l} = {} =>
              \A x \in Acked(c) : x.loc = l => Covers(v, x),
           NEW w \in Write, w.client = c, w.loc = l
    PROVE  Admits(c, w, Shown(writes[c], l, v))
<1> DEFINE s == Shown(writes[c], l, v)
           mine == {u \in writes[c] : u.loc = l}
<1>1. /\ writes[c] \in SUBSET Write /\ InTurn(c) /\ IInv
      /\ \A u \in writes[c] : u \in Write /\ u.client = c
      /\ writes[c] = outstanding[c] \cup Written(toAck[c])
      /\ status[w] = "pending" => w \in mine
  BY DEF OInv, IInv, Types, StatusOK, Client, Visible
<1>2. /\ mine = {} => s = v
      /\ mine # {} => s \in mine /\ \A u \in mine : u.n <= s.n
  BY <1>1, ShownIsLatest
<1> HIDE DEF s
<1>3. ASSUME status[w] = "pending" PROVE s \in Write /\ s.client = c /\ s.n >= w.n
  <2>1. s \in mine /\ w.n <= s.n
    BY <1>1, <1>2, <1>3
  <2>2. s \in Write /\ s.client = c
    BY <1>1, <2>1
  <2>3. w.n \in Nat /\ s.n \in Nat
    BY <2>2, BoundsAreNatural DEF Write
  <2> QED
    BY <2>1, <2>2, <2>3
<1>4. ASSUME status[w] = "ok"
      PROVE  s \in Write /\ (s.client = c => s.n >= w.n \/ s \in Written(toAck[c]))
  <2>1. w \in Acked(c)
    BY <1>4 DEF Acked
  <2>2. CASE mine = {}
    <3>1. Covers(s, w) /\ s \in Write \cup {Nil}
      BY <1>2, <2>1, <2>2
    <3>2. s \in Write /\ (s.client = c => w.n <= s.n)
      BY <3>1 DEF Covers
    <3>3. w.n \in Nat /\ s.n \in Nat
      BY <3>2, BoundsAreNatural DEF Write
    <3> QED
      BY <3>2, <3>3
  <2>3. CASE mine # {}
    <3>1. s \in mine /\ s \in Write
      BY <1>1, <1>2, <2>3
    <3>2. w.n \in Nat /\ s.n \in Nat
      BY <3>1, BoundsAreNatural DEF Write
    <3>3. CASE s \in outstanding[c]
      <4>1. w \in Settled(c)
        BY <1>1, <2>1, AckedSettled
      <4>2. w.n < s.n
        BY <1>1, <3>3, <4>1 DEF InTurn, Below
      <4> QED
        BY <3>1, <3>2, <4>2
    <3>4. CASE s \in Written(toAck[c])
      BY <3>1, <3>4
    <3> QED
      BY <1>1, <3>1, <3>3, <3>4
  <2> QED
    BY <2>2, <2>3
<1> QED
  BY <1>3, <1>4 DEF Admits, s

\* What a step shows a client is admitted.
Reads(c) ==
    got'[c] # got[c] => \A w \in Write : w.client = c /\ w.loc = got'[c].loc =>
                            Admits(c, w, got'[c].value)

\* One client is shown a value.
LEMMA ShowStep ==
    ASSUME TInv, NEW c \in Clients, NEW l \in Locs, NEW v,
           got' = got \/ got' = [got EXCEPT ![c] = [loc |-> l, value |-> v]],
           \A w \in Write : w.client = c /\ w.loc = l => Admits(c, w, v)
    PROVE  \A d \in Clients : Reads(d)
<1>1. CASE got' = got
  BY <1>1 DEF Reads
<1>2. CASE got' = [got EXCEPT ![c] = [loc |-> l, value |-> v]]
  <2> DEFINE g == [loc |-> l, value |-> v]
  <2>1. g.loc = l /\ g.value = v /\ got' = [got EXCEPT ![c] = g]
    BY <1>2
  <2> HIDE DEF g
  <2>2. got'[c] = g /\ \A d \in Clients \ {c} : got'[d] = got[d]
    BY <2>1 DEF TInv
  <2> QED
    BY <2>1, <2>2 DEF Reads
<1> QED
  BY <1>1, <1>2

\* Every step shows what it may.
LEMMA ReadStep ==
    ASSUME OInv, TInv, Next
    PROVE  \A d \in Clients : Reads(d)
<1>1. ASSUME NEW c \in Clients, NEW l \in Locs, Set(c, l)
      PROVE  \A d \in Clients : Reads(d)
  <2> DEFINE w == [client |-> c, n |-> issued[c] + 1, loc |-> l]
  <2>1. /\ w \in Write /\ w.client = c /\ w.n = issued[c] + 1 /\ issued[c] \in Nat
    BY <1>1, BoundsAreNatural DEF OInv, IInv, Types, Set, Write
  <2>2. got' = got \/ got' = [got EXCEPT ![c] = [loc |-> l, value |-> w]]
    BY <1>1 DEF Set, Fire
  <2> HIDE DEF w
  <2>3. ASSUME NEW x \in Write, x.client = c PROVE Admits(c, x, w)
    <3>1. x.n > issued[c] => status[x] = "new"
      BY <2>3 DEF OInv, IInv, StatusOK
    <3>2. x.n \in Nat
      BY BoundsAreNatural DEF Write
    <3>3. status[x] # "new" => w.n >= x.n
      BY <2>1, <3>1, <3>2
    <3> QED
      BY <2>1, <3>3 DEF Admits
  <2> QED
    BY <2>2, <2>3, ShowStep
<1>2. ASSUME NEW c \in Clients, NEW l \in Locs, Observe(c, l)
      PROVE  \A d \in Clients : Reads(d)
  <2> DEFINE v == Shown(writes[c], l, Nil)
  <2>1. CASE v = Nil
    <3>1. got' = got
      BY <1>2, <2>1 DEF Observe
    <3> QED
      BY <3>1 DEF Reads
  <2>2. CASE v # Nil
    <3>1. got' = [got EXCEPT ![c] = [loc |-> l, value |-> v]]
      BY <1>2, <2>2 DEF Observe
    <3>2. {w \in writes[c] : w.loc = l} # {}
      BY <2>2 DEF Shown
    <3>3. \A w \in Write : w.client = c /\ w.loc = l => Admits(c, w, v)
      BY <3>2, ShownAdmits
    <3> HIDE DEF v
    <3> QED
      BY <3>1, <3>3, ShowStep
  <2> QED
    BY <2>1, <2>2
<1>3. ASSUME NEW c \in Clients, ReceiveData(c)
      PROVE  \A d \in Clients : Reads(d)
  <2> DEFINE m == Head(down[c])
             v == Shown(writes[c], m.loc, m.value)
  <2>1. down[c] # <<>> /\ m.kind = "data" /\ Fire(c, m.loc, v)
    BY <1>3 DEF ReceiveData, Receives
  <2>2. m \in Response /\ \A y \in Acked(c) : m.loc = y.loc => Covers(m.value, y)
    BY <2>1, TakeFirst
  <2>3. m.loc \in Locs /\ m.value \in Write \cup {Nil}
    BY <2>1, <2>2 DEF Response, Data, AuthReply, PutReply, ListenReply
  <2> HIDE DEF m
  <2>4. \A w \in Write : w.client = c /\ w.loc = m.loc => Admits(c, w, v)
    BY <2>2, <2>3, ShownAdmits
  <2> HIDE DEF v
  <2>5. got' = got \/ got' = [got EXCEPT ![c] = [loc |-> m.loc, value |-> v]]
    BY <2>1 DEF Fire
  <2> QED
    BY <2>3, <2>4, <2>5, ShowStep
<1>4. ASSUME got' = got PROVE \A d \in Clients : Reads(d)
  BY <1>4 DEF Reads
<1>5. ASSUME NEW c \in Clients, Receive(c) PROVE \A d \in Clients : Reads(d)
  <2>1. ReceiveAuth(c) \/ ReceiveListen(c) \/ ReceivePut(c) => got' = got
    BY DEF ReceiveAuth, ReceiveListen, ReceivePut
  <2> QED
    BY <1>3, <1>4, <1>5, <2>1 DEF Receive
<1>6. ASSUME NEW c \in Clients, Serve(c) PROVE got' = got
  BY <1>6 DEF Serve, ServeAuth, ServePut, ServeListen, Answer
<1>7. ASSUME NEW c \in Clients, ChangeToken(c) \/ Connect(c) \/ Disconnect(c) \/ Kill(c)
      PROVE  got' = got
  BY <1>7 DEF ChangeToken, Connect, Disconnect, Kill
<1>8. ASSUME NEW c \in Clients, App(c) PROVE \A d \in Clients : Reads(d)
  BY <1>1, <1>2, <1>4, <1>7, <1>8 DEF App
<1> QED
  BY <1>4, <1>5, <1>6, <1>7, <1>8 DEF Next

\* A read shows the client a pending write of its own or a newer one
\* (calculateCompleteEventCache over FWriteTree), and after a completed one an
\* older one of its own only if that one is answered and held back in putsToAck.
THEOREM ReadsOwnWrites == Spec => ReadYourWrites
<1>1. OInv /\ TInv /\ [Next]_vars =>
        [\A c \in Clients : got'[c] # got[c] =>
            \A w \in Write : w.client = c /\ w.loc = got'[c].loc =>
                LET v == got'[c].value
                IN  /\ status[w] = "pending" => v \in Write /\ v.client = c /\ v.n >= w.n
                    /\ status[w] = "ok" =>
                          /\ v \in Write
                          /\ v.client = c => v.n >= w.n \/ v \in Written(toAck[c])]_vars
  BY ReadStep DEF Reads, Admits
<1>2. Init => TInv
  BY InitCount DEF TInv, Init
<1> QED
  BY <1>1, <1>2, InitOrder, StepOrder, StepTypes, PTL DEF Spec, ReadYourWrites

----------------------------------------------------------------------------
(* Numbers, and the recursive functions of WriteTree *)

\* Every set of numbers has a least one.
LEMMA Least ==
    ASSUME NEW S \in SUBSET Nat, S # {}
    PROVE  \E n \in S : \A m \in S : n <= m
<1>1. PICK x \in S : \A y \in S : ~(<<y, x>> \in OpToRel(<, Nat))
  BY NatLessThanWellFounded, WFMin
<1>2. \A y \in S : ~(y < x)
  BY <1>1 DEF OpToRel
<1> QED
  BY <1>2

\* A set of numbers with 0 and the successors of its elements has them all.
LEMMA Induct ==
    ASSUME NEW S \in SUBSET Nat, 0 \in S, \A n \in S : n + 1 \in S
    PROVE  S = Nat
<1>1. SUFFICES ASSUME Nat \ S # {} PROVE FALSE
  OBVIOUS
<1>2. PICK n \in Nat \ S : \A m \in Nat \ S : n <= m
  BY <1>1, Least
<1>3. n # 0 /\ n - 1 \in S
  BY <1>2
<1> QED
  BY <1>2, <1>3

\* The layer with number i over t.
Layer(ws, i, t) ==
    IF Numbered(ws, i) = {} THEN t
    ELSE AddWrite(t, CHOOSE w \in Numbered(ws, i) : TRUE)

\* f is the sequence of the first k layers.
Laid(ws, k, f) ==
    f = [i \in 0..k |-> IF i = 0 THEN Empty ELSE Layer(ws, i, f[i - 1])]

\* The recursive definition of the layers has a solution.
LEMMA LaidExist ==
    ASSUME NEW ws, NEW N \in Nat
    PROVE  \E f : Laid(ws, N, f)
<1> DEFINE S == {k \in Nat : \E f : Laid(ws, k, f)}
<1>1. 0 \in S
  <2> DEFINE f == [i \in 0..0 |-> Empty]
  <2>1. f = [i \in 0..0 |-> IF i = 0 THEN Empty ELSE Layer(ws, i, f[i - 1])]
    OBVIOUS
  <2> QED
    BY <2>1 DEF Laid
<1>2. ASSUME NEW k \in S PROVE k + 1 \in S
  <2>1. PICK f : Laid(ws, k, f)
    OBVIOUS
  <2> DEFINE g == [i \in 0..(k + 1) |-> IF i = 0 THEN Empty ELSE Layer(ws, i, f[i - 1])]
  <2>2. \A j \in 0..k : g[j] = f[j]
    BY <2>1 DEF Laid
  <2> HIDE DEF g
  <2>3. \A i \in 0..(k + 1) : i # 0 => i - 1 \in 0..k
    OBVIOUS
  <2> USE DEF g
  <2>4. g = [i \in 0..(k + 1) |-> IF i = 0 THEN Empty ELSE Layer(ws, i, g[i - 1])]
    BY <2>2, <2>3
  <2> HIDE DEF g
  <2>5. Laid(ws, k + 1, g)
    BY <2>4 DEF Laid
  <2> QED
    BY <2>5
<1>3. S = Nat
  <2> HIDE DEF S
  <2>1. S \in SUBSET Nat
    BY DEF S
  <2> QED
    BY <1>1, <1>2, <2>1, Induct
<1> QED
  BY <1>3

\* The layers are what their definition says.
LEMMA LayersAre ==
    ASSUME NEW ws
    PROVE  Laid(ws, MaxWrites, Layers(ws))
<1>1. \E f : Laid(ws, MaxWrites, f)
  BY LaidExist, BoundsAreNatural
<1>2. Laid(ws, MaxWrites, CHOOSE f : Laid(ws, MaxWrites, f))
  BY <1>1
<1>3. Layers(ws) = CHOOSE f : Laid(ws, MaxWrites, f)
  BY DEF Layers, Laid, Layer
<1> QED
  BY <1>2, <1>3
----------------------------------------------------------------------------
(* What the cache of the write tree shows *)

\* No two writes have the same number.
Distinct(ws) == \A u, w \in ws : u.n = w.n => u = w

\* What a client that has the writes ws shows.
Exact(ws) == [l \in Locs |-> Shown(ws, l, Nil)]

First(ws, i) == {w \in ws : w.n <= i}

\* Only the writes at the location count.
LEMMA ShownHere ==
    ASSUME NEW a, NEW b, NEW l \in Locs,
           {w \in a : w.loc = l} = {w \in b : w.loc = l}
    PROVE  Shown(a, l, Nil) = Shown(b, l, Nil)
<1> DEFINE show(mine) ==
      IF mine = {} THEN Nil ELSE CHOOSE w \in mine : \A x \in mine : x.n <= w.n
<1>1. Shown(a, l, Nil) = show({w \in a : w.loc = l}) /\ Shown(b, l, Nil) = show({w \in b : w.loc = l})
  BY DEF Shown
<1> HIDE DEF show
<1> QED
  BY <1>1

\* The write that is newer than the others at its location is shown.
LEMMA ShownNewest ==
    ASSUME NEW ws \in SUBSET Write, Distinct(ws), NEW w \in ws,
           \A x \in ws : x.loc = w.loc => x.n <= w.n
    PROVE  Shown(ws, w.loc, Nil) = w
<1> DEFINE s == Shown(ws, w.loc, Nil)
<1>1. w.loc \in Locs /\ w.n \in Nat
  BY DEF Write
<1>2. w \in {x \in ws : x.loc = w.loc}
  OBVIOUS
<1>3. s \in ws /\ s.loc = w.loc /\ w.n <= s.n
  BY <1>1, <1>2, ShownIsLatest
<1> HIDE DEF s
<1>4. s.n <= w.n /\ s.n \in Nat
  BY <1>3 DEF Write
<1> QED
  BY <1>1, <1>3, <1>4 DEF Distinct, s

\* A write that is newer than all others is added.
LEMMA AddExact ==
    ASSUME NEW ws \in SUBSET Write, NEW w \in Write, Distinct(ws \cup {w}),
           \A x \in ws : x.loc = w.loc => x.n <= w.n
    PROVE  AddWrite(Exact(ws), w) = Exact(ws \cup {w})
<1> DEFINE all == ws \cup {w}
<1>1. w.loc \in Locs /\ w.n \in Nat /\ all \in SUBSET Write
  BY DEF Write
<1>2. Shown(all, w.loc, Nil) = w
  BY <1>1, ShownNewest
<1>3. ASSUME NEW l \in Locs, l # w.loc
      PROVE  Shown(all, l, Nil) = Shown(ws, l, Nil)
  BY <1>3, ShownHere
<1> HIDE DEF all
<1>4. AddWrite(Exact(ws), w) = [l \in Locs |-> IF l = w.loc THEN w ELSE Shown(ws, l, Nil)]
  BY DEF AddWrite, Exact
<1>5. Exact(all) = [l \in Locs |-> IF l = w.loc THEN w ELSE Shown(ws, l, Nil)]
  BY <1>2, <1>3 DEF Exact
<1> QED
  BY <1>4, <1>5 DEF all

\* The first layers show the first writes.
LEMMA LayersShow ==
    ASSUME NEW ws \in SUBSET Write, Distinct(ws)
    PROVE  \A i \in 0..MaxWrites : Layers(ws)[i] = Exact(First(ws, i))
<1> DEFINE f == Layers(ws)
           S == {k \in Nat : k \in 0..MaxWrites => f[k] = Exact(First(ws, k))}
<1>1. \A i \in 0..MaxWrites : f[i] = IF i = 0 THEN Empty ELSE Layer(ws, i, f[i - 1])
  BY LayersAre DEF Laid
<1> HIDE DEF f
<1>2. 0 \in S
  <2>1. First(ws, 0) = {}
    BY DEF First, Write
  <2>2. Exact({}) = Empty
    BY DEF Exact, Empty, Shown
  <2>3. 0 \in 0..MaxWrites => f[0] = Empty
    BY <1>1
  <2> QED
    BY <2>1, <2>2, <2>3
<1>3. ASSUME NEW k \in S PROVE k + 1 \in S
  <2> SUFFICES ASSUME k + 1 \in 0..MaxWrites
               PROVE  f[k + 1] = Exact(First(ws, k + 1))
    OBVIOUS
  <2> DEFINE new == Numbered(ws, k + 1)
             old == First(ws, k)
  <2>1. k \in Nat /\ k \in 0..MaxWrites /\ k + 1 # 0 /\ (k + 1) - 1 = k
    BY BoundsAreNatural
  <2>2. f[k + 1] = Layer(ws, k + 1, f[(k + 1) - 1])
    BY <1>1, <2>1
  <2>3. f[k + 1] = Layer(ws, k + 1, Exact(old))
    BY <2>1, <2>2
  <2>4. First(ws, k + 1) = old \cup new
    <3>1. \A w \in ws : w.n \in Nat /\ (w.n <= k + 1 <=> (w.n <= k \/ w.n = k + 1))
      BY <2>1 DEF Write
    <3> QED
      BY <3>1 DEF First, Numbered
  <2>5. CASE new = {}
    BY <2>3, <2>4, <2>5 DEF Layer
  <2>6. CASE new # {}
    <3> DEFINE w == CHOOSE x \in new : TRUE
    <3>1. w \in new
      BY <2>6
    <3>2. f[k + 1] = AddWrite(Exact(old), w)
      BY <2>3, <2>6 DEF Layer
    <3> HIDE DEF w
    <3>3. w \in ws /\ w.n = k + 1
      BY <3>1 DEF Numbered
    <3>4. new = {w}
      BY <3>1, <3>3 DEF Numbered, Distinct
    <3>5. old \in SUBSET Write /\ w \in Write /\ Distinct(old \cup {w})
      BY <3>3 DEF First, Distinct
    <3>6. \A x \in old : x.n <= w.n
      BY <2>1, <3>3 DEF First, Write
    <3>7. AddWrite(Exact(old), w) = Exact(old \cup {w})
      BY <3>5, <3>6, AddExact
    <3> QED
      BY <2>4, <3>2, <3>4, <3>7
  <2> QED
    BY <2>5, <2>6
<1>4. S = Nat
  <2> HIDE DEF S
  <2>1. S \in SUBSET Nat
    BY DEF S
  <2> QED
    BY <1>2, <1>3, <2>1, Induct
<1>5. \A i \in 0..MaxWrites : i \in S
  BY <1>4
<1> QED
  BY <1>5 DEF f

\* The tree that is built again shows all writes.
LEMMA ResetExact ==
    ASSUME NEW ws \in SUBSET Write, Distinct(ws)
    PROVE  ResetTree(ws) = Exact(ws)
<1>1. First(ws, MaxWrites) = ws
  BY BoundsAreNatural DEF First, Write
<1>2. MaxWrites \in 0..MaxWrites
  BY BoundsAreNatural
<1> QED
  BY <1>1, <1>2, LayersShow DEF ResetTree

\* Taking a write away.
LEMMA RemoveExact ==
    ASSUME NEW ws \in SUBSET Write, Distinct(ws), NEW w \in ws
    PROVE  RemoveWrite([all |-> ws, cache |-> Exact(ws)], w)
           = [all |-> ws \ {w}, cache |-> Exact(ws \ {w})]
<1> DEFINE rest  == ws \ {w}
           later == {x \in rest : x.loc = w.loc /\ x.n > w.n}
           older == {x \in rest : x.loc = w.loc /\ x.n < w.n}
           cache == IF later # {} THEN Exact(ws)
                    ELSE IF older # {} THEN ResetTree(rest)
                    ELSE [Exact(ws) EXCEPT ![w.loc] = Nil]
<1>1. RemoveWrite([all |-> ws, cache |-> Exact(ws)], w) = [all |-> rest, cache |-> cache]
  BY DEF RemoveWrite
<1>2. w.loc \in Locs /\ rest \in SUBSET Write /\ Distinct(rest)
  BY DEF Distinct, Write
<1>3. ASSUME NEW l \in Locs, l # w.loc PROVE Shown(ws, l, Nil) = Shown(rest, l, Nil)
  BY <1>3, ShownHere
<1>4. CASE later # {}
  <2> DEFINE s == Shown(rest, w.loc, Nil)
  <2>1. PICK x \in rest : x.loc = w.loc /\ x.n > w.n
    BY <1>4
  <2>2. x \in {y \in rest : y.loc = w.loc}
    BY <2>1
  <2>3. s \in rest /\ s.loc = w.loc /\ \A y \in {z \in rest : z.loc = w.loc} : y.n <= s.n
    BY <1>2, <2>2, ShownIsLatest
  <2> HIDE DEF s
  <2>4. x.n \in Nat /\ w.n \in Nat /\ s.n \in Nat /\ x.n <= s.n
    BY <2>2, <2>3 DEF Write
  <2>5. \A y \in ws : y.loc = s.loc => y.n <= s.n
    BY <2>1, <2>3, <2>4
  <2>6. Shown(ws, s.loc, Nil) = s
    BY <2>3, <2>5, ShownNewest
  <2>7. \A l \in Locs : Shown(ws, l, Nil) = Shown(rest, l, Nil)
    BY <1>3, <2>3, <2>6 DEF s
  <2> QED
    BY <1>1, <1>4, <2>7 DEF Exact
<1>5. CASE later = {} /\ older # {}
  BY <1>1, <1>2, <1>5, ResetExact
<1>6. CASE later = {} /\ older = {}
  <2>1. {x \in rest : x.loc = w.loc} = {}
    <3>1. ASSUME NEW x \in rest, x.loc = w.loc PROVE FALSE
      <4>1. x.n \in Nat /\ w.n \in Nat /\ x.n # w.n
        BY DEF Distinct, Write
      <4>2. x.n > w.n \/ x.n < w.n
        BY <4>1
      <4> QED
        BY <1>6, <3>1, <4>2
    <3> QED
      BY <3>1
  <2>2. Shown(rest, w.loc, Nil) = Nil
    BY <2>1 DEF Shown
  <2> HIDE DEF rest
  <2>3. [Exact(ws) EXCEPT ![w.loc] = Nil]
        = [l \in Locs |-> IF l = w.loc THEN Nil ELSE Shown(ws, l, Nil)]
    BY DEF Exact
  <2>4. Exact(rest) = [l \in Locs |-> IF l = w.loc THEN Nil ELSE Shown(ws, l, Nil)]
    BY <1>3, <2>2 DEF Exact
  <2> QED
    BY <1>1, <1>6, <2>3, <2>4 DEF rest
<1> QED
  BY <1>4, <1>5, <1>6

\* f is what is left of t when the first k writes of gone are removed.
Left(t, gone, k, f) ==
    f = [i \in 0..k |-> IF i = 0 THEN t
                        ELSE IF Numbered(gone, i) = {} THEN f[i - 1]
                        ELSE RemoveWrite(f[i - 1], CHOOSE w \in Numbered(gone, i) : TRUE)]

\* The recursive definition of the removals has a solution.
LEMMA LeftExist ==
    ASSUME NEW t, NEW gone, NEW N \in Nat
    PROVE  \E f : Left(t, gone, N, f)
<1> DEFINE next(i, u) == IF Numbered(gone, i) = {} THEN u
                         ELSE RemoveWrite(u, CHOOSE w \in Numbered(gone, i) : TRUE)
           is(k, f) == f = [i \in 0..k |-> IF i = 0 THEN t ELSE next(i, f[i - 1])]
           S == {k \in Nat : \E f : is(k, f)}
<1>0. \A k, f : Left(t, gone, k, f) <=> is(k, f)
  BY DEF Left
<1> HIDE DEF next
<1>1. 0 \in S
  <2> DEFINE f == [i \in 0..0 |-> t]
  <2>1. f = [i \in 0..0 |-> IF i = 0 THEN t ELSE next(i, f[i - 1])]
    OBVIOUS
  <2> QED
    BY <2>1
<1>2. ASSUME NEW k \in S PROVE k + 1 \in S
  <2>1. PICK f : is(k, f)
    OBVIOUS
  <2> DEFINE g == [i \in 0..(k + 1) |-> IF i = 0 THEN t ELSE next(i, f[i - 1])]
  <2>2. \A j \in 0..k : g[j] = f[j]
    BY <2>1
  <2> HIDE DEF g
  <2>3. \A i \in 0..(k + 1) : i # 0 => i - 1 \in 0..k
    OBVIOUS
  <2> USE DEF g
  <2>4. g = [i \in 0..(k + 1) |-> IF i = 0 THEN t ELSE next(i, g[i - 1])]
    BY <2>2, <2>3
  <2> HIDE DEF g
  <2> QED
    BY <2>4
<1>3. S = Nat
  <2> HIDE DEF S
  <2>1. S \in SUBSET Nat
    BY DEF S
  <2> QED
    BY <1>1, <1>2, <2>1, Induct
<1>4. \E f : is(N, f)
  BY <1>3
<1> QED
  BY <1>0, <1>4

\* The removals are what their definition says.
LEMMA RemovalsAre ==
    ASSUME NEW t, NEW gone
    PROVE  Left(t, gone, MaxWrites, Removals(t, gone))
<1>1. \E f : Left(t, gone, MaxWrites, f)
  BY LeftExist, BoundsAreNatural
<1>2. Left(t, gone, MaxWrites, CHOOSE f : Left(t, gone, MaxWrites, f))
  BY <1>1
<1>3. Removals(t, gone) = CHOOSE f : Left(t, gone, MaxWrites, f)
  BY DEF Removals, Left
<1> QED
  BY <1>2, <1>3

\* After each removal the rest is shown.
LEMMA RemovalsShow ==
    ASSUME NEW ws \in SUBSET Write, Distinct(ws), NEW gone \in SUBSET ws
    PROVE  \A i \in 0..MaxWrites :
              Removals([all |-> ws, cache |-> Exact(ws)], gone)[i]
              = [all |-> ws \ First(gone, i), cache |-> Exact(ws \ First(gone, i))]
<1> DEFINE shows(a) == [all |-> a, cache |-> Exact(a)]
           f == Removals(shows(ws), gone)
           S == {k \in Nat : k \in 0..MaxWrites => f[k] = shows(ws \ First(gone, k))}
<1>1. \A i \in 0..MaxWrites :
         f[i] = IF i = 0 THEN shows(ws)
                ELSE IF Numbered(gone, i) = {} THEN f[i - 1]
                ELSE RemoveWrite(f[i - 1], CHOOSE w \in Numbered(gone, i) : TRUE)
  <2> DEFINE t == shows(ws)
  <2> HIDE DEF t
  <2>1. Left(t, gone, MaxWrites, Removals(t, gone))
    BY RemovalsAre
  <2> QED
    BY <2>1 DEF Left, t
<1>2. \A a \in SUBSET Write : Distinct(a) =>
         \A w \in a : RemoveWrite(shows(a), w) = shows(a \ {w})
  BY RemoveExact
<1> HIDE DEF f, shows
<1>3. 0 \in S
  <2>1. First(gone, 0) = {}
    BY DEF First, Write
  <2>2. 0 \in 0..MaxWrites => f[0] = shows(ws)
    BY <1>1
  <2>3. ws \ {} = ws
    OBVIOUS
  <2> QED
    BY <2>1, <2>2, <2>3
<1>4. ASSUME NEW k \in S PROVE k + 1 \in S
  <2> SUFFICES ASSUME k + 1 \in 0..MaxWrites
               PROVE  f[k + 1] = shows(ws \ First(gone, k + 1))
    OBVIOUS
  <2> DEFINE new == Numbered(gone, k + 1)
             old == First(gone, k)
  <2>1. k \in Nat /\ k \in 0..MaxWrites /\ k + 1 # 0 /\ (k + 1) - 1 = k
    BY BoundsAreNatural
  <2>2. f[k] = shows(ws \ old)
    BY <2>1
  <2>3. First(gone, k + 1) = old \cup new
    <3>1. \A w \in gone : w.n \in Nat /\ (w.n <= k + 1 <=> (w.n <= k \/ w.n = k + 1))
      BY <2>1 DEF Write
    <3> QED
      BY <3>1 DEF First, Numbered
  <2>4. CASE new = {}
    <3>1. f[k + 1] = f[k]
      BY <1>1, <2>1, <2>4
    <3> QED
      BY <2>2, <2>3, <2>4, <3>1
  <2>5. CASE new # {}
    <3> DEFINE w == CHOOSE x \in new : TRUE
    <3>1. w \in new
      BY <2>5
    <3>2. f[k + 1] = RemoveWrite(f[k], w)
      BY <1>1, <2>1, <2>5
    <3> HIDE DEF w
    <3>3. w \in gone /\ w.n = k + 1
      BY <3>1 DEF Numbered
    <3>4. new = {w}
      BY <3>1, <3>3 DEF Numbered, Distinct
    <3>5. w \notin old
      BY <2>1, <3>3 DEF First
    <3>6. (ws \ old) \in SUBSET Write /\ w \in ws \ old /\ Distinct(ws \ old)
      BY <3>3, <3>5 DEF Distinct
    <3>7. RemoveWrite(shows(ws \ old), w) = shows((ws \ old) \ {w})
      BY <1>2, <3>6
    <3>8. (ws \ old) \ {w} = ws \ First(gone, k + 1)
      BY <2>3, <3>4
    <3> QED
      BY <2>2, <3>2, <3>7, <3>8
  <2> QED
    BY <2>4, <2>5
<1>5. S = Nat
  <2> HIDE DEF S
  <2>1. S \in SUBSET Nat
    BY DEF S
  <2> QED
    BY <1>3, <1>4, <2>1, Induct
<1>6. \A i \in 0..MaxWrites : i \in S
  BY <1>5
<1> QED
  BY <1>6 DEF f, shows

----------------------------------------------------------------------------
\* The writes of a client have numbers of their own, and the cache is exact.
VInv ==
    /\ IInv
    /\ \A c \in Clients : Distinct(writes[c])
    /\ visible = [c \in Clients |-> Exact(writes[c])]

\* An empty tree shows no writes.
LEMMA EmptyExact == Exact({}) = Empty
BY DEF Exact, Empty, Shown

\* The writes that a client has were issued.
LEMMA WritesIssued ==
    ASSUME IInv, NEW c \in Clients
    PROVE  writes[c] \in SUBSET Write /\ \A w \in writes[c] : w.n \in Nat /\ w.n <= issued[c]
<1>1. Types /\ Client(c) /\ StatusOK
  BY DEF IInv
<1>2. writes[c] \in SUBSET Write /\ issued[c] \in Nat
  BY <1>1, BoundsAreNatural DEF Types
<1>3. \A w \in writes[c] : w.client = c /\ status[w] = "pending"
  BY <1>1, <1>2 DEF Client, Visible, StatusOK
<1>4. \A w \in writes[c] : ~(w.n > issued[c])
  BY <1>1, <1>2, <1>3 DEF StatusOK
<1>5. \A w \in writes[c] : w.n \in Nat
  BY <1>2 DEF Write
<1> QED
  BY <1>2, <1>4, <1>5

\* The completions of some of a client's writes leave what the others show.
LEMMA RemoveWritesExact ==
    ASSUME VInv, NEW c \in Clients, NEW gone \in SUBSET writes[c]
    PROVE  RemoveWrites(c, gone) = Exact(writes[c] \ gone)
<1> DEFINE ws == writes[c]
           t == [all |-> ws, cache |-> Exact(ws)]
<1>1. ws \in SUBSET Write /\ Distinct(ws) /\ visible[c] = Exact(ws)
  BY WritesIssued DEF VInv
<1>2. First(gone, MaxWrites) = gone /\ MaxWrites \in 0..MaxWrites
  BY <1>1, BoundsAreNatural DEF First, Write
<1>3. RemoveWrites(c, gone) = Removals(t, gone)[MaxWrites].cache
  BY <1>1 DEF RemoveWrites
<1>4. Removals(t, gone)[MaxWrites] = [all |-> ws \ gone, cache |-> Exact(ws \ gone)]
  BY <1>1, <1>2, RemovalsShow
<1> QED
  BY <1>3, <1>4

\* A client's writes and its cache change together.
LEMMA ClientShows ==
    ASSUME VInv, IInv', NEW c \in Clients, NEW ws \in SUBSET Write, Distinct(ws),
           writes' = [writes EXCEPT ![c] = ws], visible' = [visible EXCEPT ![c] = Exact(ws)]
    PROVE  VInv'
<1>1. DOMAIN writes = Clients
  BY DEF VInv, IInv, Types
<1>2. \A d \in Clients : writes'[d] = IF d = c THEN ws ELSE writes[d]
  BY <1>1
<1>3. \A d \in Clients : Distinct(writes'[d])
  BY <1>2 DEF VInv
<1>4. visible' = [d \in Clients |-> IF d = c THEN Exact(ws) ELSE Exact(writes[d])]
  BY DEF VInv
<1>5. \A d \in Clients : Exact(writes'[d]) = IF d = c THEN Exact(ws) ELSE Exact(writes[d])
  BY <1>2
<1>6. visible' = [d \in Clients |-> Exact(writes'[d])]
  BY <1>4, <1>5
<1> QED
  BY <1>3, <1>6 DEF VInv, Distinct, Exact

\* The actions of the tree are actions of the client.
LEMMA TreeIsDatabase == [TreeNext]_tree => [Next]_vars
<1>1. ASSUME NEW c \in Clients, NEW l \in Locs, SetVisible(c, l) PROVE Next
  BY <1>1 DEF SetVisible, App, Next
<1>2. ASSUME NEW c \in Clients, Acknowledge(c) PROVE Next
  BY <1>2 DEF Acknowledge, Receive, Next
<1>3. ASSUME NEW c \in Clients, Restart(c) PROVE Next
  BY <1>3 DEF Restart, Next
<1>4. ASSUME NEW c \in Clients, Elsewhere(c) PROVE Next
  BY <1>4 DEF Elsewhere, Receive, App, Next
<1> QED
  BY <1>1, <1>2, <1>3, <1>4 DEF TreeNext, tree

\* A new write is on top.
LEMMA SetVisibleExact ==
    ASSUME VInv, IInv', NEW c \in Clients, NEW l \in Locs, SetVisible(c, l)
    PROVE  VInv'
<1> DEFINE w == [client |-> c, n |-> issued[c] + 1, loc |-> l]
           ws == writes[c]
<1>1. issued[c] \in 0 .. MaxWrites /\ issued[c] < MaxWrites /\ MaxWrites \in Nat
  BY BoundsAreNatural DEF VInv, IInv, Types, SetVisible, Set
<1>2. w \in Write /\ w.n = issued[c] + 1
  BY <1>1 DEF Write
<1>3. writes' = [writes EXCEPT ![c] = @ \cup {w}] /\ issued' = [issued EXCEPT ![c] = @ + 1]
  BY DEF SetVisible, Set
<1>4. issued'[c] = issued[c] + 1
  BY <1>3 DEF VInv, IInv, Types
<1>5. visible' = [visible EXCEPT ![c] = AddWrite(@, w)]
  BY <1>4 DEF SetVisible
<1> HIDE DEF w
<1>6. /\ ws \in SUBSET Write /\ Distinct(ws) /\ visible[c] = Exact(ws)
      /\ \A x \in ws : x.n \in Nat /\ x.n <= issued[c]
  BY WritesIssued DEF VInv
<1>7. \A x \in ws : x.n <= w.n /\ x.n # w.n
  BY <1>1, <1>2, <1>6
<1>8. Distinct(ws \cup {w})
  BY <1>6, <1>7 DEF Distinct
<1>9. AddWrite(Exact(ws), w) = Exact(ws \cup {w})
  BY <1>2, <1>6, <1>7, <1>8, AddExact
<1>10. visible' = [visible EXCEPT ![c] = Exact(ws \cup {w})]
  BY <1>5, <1>6, <1>9
<1>11. writes' = [writes EXCEPT ![c] = ws \cup {w}] /\ ws \cup {w} \in SUBSET Write
  BY <1>2, <1>3, <1>6
<1> QED
  BY <1>8, <1>10, <1>11, ClientShows

\* Completed writes leave.
LEMMA AcknowledgeExact ==
    ASSUME VInv, IInv', NEW c \in Clients, Acknowledge(c)
    PROVE  VInv'
<1> DEFINE rest == writes'[c]
<1>1. PICK ws \in SUBSET writes[c] : writes' = [writes EXCEPT ![c] = ws]
  <2>1. writes \in [Clients -> SUBSET Write]
    BY DEF VInv, IInv, Types
  <2>2. CASE ReceivePut(c)
    <3>1. writes' = writes \/ writes' = [writes EXCEPT ![c] = @ \ {Head(down[c]).write}]
      BY <2>2 DEF ReceivePut
    <3>2. CASE writes' = writes
      BY <2>1, <3>2
    <3> QED
      BY <3>1, <3>2
  <2>3. CASE ReceiveListen(c)
    BY <2>3 DEF ReceiveListen
  <2> QED
    BY <2>2, <2>3 DEF Acknowledge
<1>2. writes[c] \in SUBSET Write /\ Distinct(writes[c]) /\ writes'[c] = ws
  BY <1>1, WritesIssued DEF VInv, IInv, Types
<1>3. visible' = [visible EXCEPT ![c] = RemoveWrites(c, writes[c] \ ws)]
  BY <1>2 DEF Acknowledge
<1>4. RemoveWrites(c, writes[c] \ ws) = Exact(writes[c] \ (writes[c] \ ws))
  BY RemoveWritesExact
<1>5. writes[c] \ (writes[c] \ ws) = ws
  OBVIOUS
<1>6. Distinct(ws) /\ ws \in SUBSET Write
  BY <1>2 DEF Distinct
<1> QED
  BY <1>1, <1>3, <1>4, <1>5, <1>6, ClientShows

\* Every step keeps the cache exact.
LEMMA StepExact == VInv /\ [TreeNext]_tree => VInv'
<1> SUFFICES ASSUME VInv, [TreeNext]_tree PROVE VInv'
  OBVIOUS
<1>1. IInv'
  BY TreeIsDatabase, StepInv DEF VInv
<1>2. ASSUME writes' = writes, visible' = visible PROVE VInv'
  BY <1>1, <1>2 DEF VInv, Distinct, Exact
<1>3. CASE UNCHANGED tree
  BY <1>2, <1>3 DEF tree, vars, client
<1>4. ASSUME NEW c \in Clients, Restart(c) PROVE VInv'
  <2>1. writes' = [writes EXCEPT ![c] = {}] /\ visible' = [visible EXCEPT ![c] = Exact({})]
    BY <1>4, EmptyExact DEF Restart, Kill
  <2>2. Distinct({})
    BY DEF Distinct
  <2> QED
    BY <1>1, <2>1, <2>2, ClientShows
<1>5. ASSUME NEW c \in Clients, Elsewhere(c) PROVE VInv'
  <2>1. visible' = visible
    BY <1>5 DEF Elsewhere
  <2>2. writes' = writes
    BY <1>5 DEF Elsewhere, Observe, ChangeToken, Connect, Disconnect, Disconnected, Serve,
                ServeAuth, ServePut, ServeListen, Answer, client, ReceiveAuth, ReceiveData
  <2> QED
    BY <1>2, <2>1, <2>2
<1> QED
  BY <1>1, <1>3, <1>4, <1>5, SetVisibleExact, AcknowledgeExact DEF TreeNext

\* visibleWrites (FWriteTree) is what building it again from all writes gives,
\* in whatever order they were acknowledged, so the client shows at every location
\* its latest write that is not completed.
THEOREM CacheStaysExact == TreeSpec => []CacheIsExact
<1>1. TreeInit => VInv
  <2> SUFFICES ASSUME TreeInit PROVE VInv
    OBVIOUS
  <2>1. IInv /\ writes = [c \in Clients |-> {}] /\ visible = [c \in Clients |-> Empty]
    BY InitInv DEF TreeInit, Init
  <2> QED
    BY <2>1, EmptyExact DEF VInv, Distinct
<1>2. VInv => CacheIsExact
  BY DEF VInv, Exact, CacheIsExact
<1> QED
  BY <1>1, <1>2, StepExact, PTL DEF TreeSpec

=============================================================================
