-------------------------- MODULE RealtimeDatabase --------------------------
(***************************************************************************)
(* The Firebase client that carries every read and write of the app: the    *)
(* tree of writes the server has not acknowledged, the queue of puts that    *)
(* survives a lost connection, the listens, and the puts whose completion    *)
(* is held back until the listens are answered.                             *)
(*                                                                         *)
(* A write is identified by its client and its number there, and is also    *)
(* the value it writes.  The server is external: it takes a connection's     *)
(* requests one at a time and drops what is left of them with it.            *)
(***************************************************************************)
EXTENDS Naturals, Sequences, FiniteSets, SequencesExt

CONSTANTS
    Clients,
    Locs,      \* the locations written and read
    MaxWrites, \* bound: writes of a client
    MaxReads,  \* bound: reads of a client
    MaxFaults, \* bound: connections lost, tokens sent or refused and processes
               \* ended in a run
    Nil

Write == [client : Clients, n : 1..MaxWrites, loc : Locs]

ASSUME NilIsNoWrite == Nil \notin Write
ASSUME BoundsAreNatural == MaxWrites \in Nat /\ MaxReads \in Nat /\ MaxFaults \in Nat

\* An observeSingleEvent call: its number tells two on one location apart.
Read == [n : 1..MaxReads, loc : Locs]

Statuses == {"new", "pending", "ok", "error", "lost"}

VARIABLES
    conn,         \* "down", "authenticating" or "connected"
    issued,       \* the number of the last write
    observed,     \* the number of the last read
    writes,       \* FWriteTree: the writes still visible over the server's data
    outstanding,  \* outstandingPuts: not answered by the server
    toAck,        \* putsToAck: answered, completion held back
    listens,      \* listens: the reads whose observer still waits
    unacked,      \* unackedListensCount
    up, down,     \* requests and responses on the connection
    db,           \* server: the last write at a location
    status,       \* what the app knows of a write (history)
    applied,      \* the writes the server has applied (history)
    got,          \* the last read event of a client (history)
    faults        \* how many faults there were

client == <<conn, issued, observed, writes, outstanding, toAck, listens, unacked>>
vars   == <<client, up, down, db, status, applied, got, faults>>

\* Requests and responses.
Auth(restore)     == [kind |-> "auth", restore |-> restore]
Put(w)            == [kind |-> "put", write |-> w]
Listen(r)         == [kind |-> "listen", read |-> r]
AuthReply(ok, restore) == [kind |-> "auth", ok |-> ok, restore |-> restore]
PutReply(w, ok)   == [kind |-> "put", write |-> w, ok |-> ok]
ListenReply(r, ok) == [kind |-> "listen", read |-> r, ok |-> ok]
Data(l, v)        == [kind |-> "data", loc |-> l, value |-> v]

Request ==
    {Auth(b) : b \in BOOLEAN} \cup {Put(w) : w \in Write}
    \cup {Listen(r) : r \in Read}
Response ==
    {AuthReply(ok, b) : ok, b \in BOOLEAN}
    \cup {PutReply(w, ok) : w \in Write, ok \in BOOLEAN}
    \cup {ListenReply(r, ok) : r \in Read, ok \in BOOLEAN}
    \cup {Data(l, v) : l \in Locs, v \in Write \cup {Nil}}

TypeOK ==
    /\ conn \in [Clients -> {"down", "authenticating", "connected"}]
    /\ issued \in [Clients -> 0..MaxWrites]
    /\ observed \in [Clients -> 0..MaxReads]
    /\ writes \in [Clients -> SUBSET Write]
    /\ outstanding \in [Clients -> SUBSET Write]
    /\ toAck \in [Clients -> SUBSET [write : Write, ok : BOOLEAN]]
    /\ listens \in [Clients -> SUBSET Read]
    /\ unacked \in [Clients -> Nat]
    /\ up \in [Clients -> Seq(Request)]
    /\ down \in [Clients -> Seq(Response)]
    /\ db \in [Locs -> Write \cup {Nil}]
    /\ status \in [Write -> Statuses]
    /\ applied \subseteq Write
    /\ got \in [Clients -> [loc : Locs, value : Write \cup {Nil}] \cup {Nil}]
    /\ faults \in Nat

Init ==
    /\ conn = [c \in Clients |-> "down"]
    /\ issued = [c \in Clients |-> 0]
    /\ observed = [c \in Clients |-> 0]
    /\ writes = [c \in Clients |-> {}]
    /\ outstanding = [c \in Clients |-> {}]
    /\ toAck = [c \in Clients |-> {}]
    /\ listens = [c \in Clients |-> {}]
    /\ unacked = [c \in Clients |-> 0]
    /\ up = [c \in Clients |-> <<>>]
    /\ down = [c \in Clients |-> <<>>]
    /\ db = [l \in Locs |-> Nil]
    /\ status = [w \in Write |-> "new"]
    /\ applied = {}
    /\ got = [c \in Clients |-> Nil]
    /\ faults = 0

----------------------------------------------------------------------------
(* Helpers *)

\* Mutant of Shown: the layers of the write tree are looked through oldest first.
ShownOldest(ws, l, v) ==
    LET mine == {w \in ws : w.loc = l}
    IN  IF mine = {} THEN v
        ELSE CHOOSE w \in mine : \A x \in mine : w.n <= x.n

\* calculateCompleteEventCache: the client's latest visible write hides the
\* server's value.
Shown(ws, l, v) ==
    LET mine == {w \in ws : w.loc = l}
    IN  IF mine = {} THEN v
        ELSE CHOOSE w \in mine : \A x \in mine : x.n <= w.n

At(rs, l) == {r \in rs : r.loc = l}

\* The observers at l are called with v and removed, and their listen is
\* dropped (the unlisten request changes nothing that is modelled).
Fire(c, l, v) ==
    IF At(listens[c], l) = {}
    THEN UNCHANGED <<listens, got>>
    ELSE /\ listens' = [listens EXCEPT ![c] = @ \ At(@, l)]
         /\ got' = [got EXCEPT ![c] = [loc |-> l, value |-> v]]

\* Mutant of Ordered: the newest is sent first.
NewestFirst(q, S) ==
    ToSet(q) = S /\ \A i, j \in DOMAIN q : i < j => q[i].n > q[j].n

\* q has each element of S once, in the order of their numbers.
Ordered(q, S) ==
    ToSet(q) = S /\ \A i, j \in DOMAIN q : i < j => q[i].n < q[j].n

InOrder(S, n) == {q \in SeqOf(S, n) : Ordered(q, S)}

SentAgain(r, p) == [i \in DOMAIN r |-> Listen(r[i])] \o [i \in DOMAIN p |-> Put(p[i])]

\* Mutant of Restored: only the listens are sent again.
RestoredWithoutPuts(c) == {SentAgain(r, <<>>) : r \in InOrder(listens[c], MaxReads)}

\* restoreState: every listen and then every outstanding put, in the order of
\* its index, is sent again.
Restored(c) ==
    {SentAgain(r, p) : r \in InOrder(listens[c], MaxReads),
                       p \in InOrder(outstanding[c], MaxWrites)}

\* Completions run: the writes leave the write tree and the app is told.
Completed(acks) ==
    [w \in Write |-> IF \E a \in acks : a.write = w
                     THEN IF [write |-> w, ok |-> TRUE] \in acks THEN "ok" ELSE "error"
                     ELSE status[w]]

Written(acks) == {a.write : a \in acks}

Fault == faults < MaxFaults /\ faults' = faults + 1

----------------------------------------------------------------------------
(* Calls of the app *)

\* set: the write is visible at once, which also satisfies an observer waiting
\* at its location; the put is sent only on an authenticated connection.
Set(c, l) ==
    LET w == [client |-> c, n |-> issued[c] + 1, loc |-> l]
    IN  /\ issued[c] < MaxWrites
        /\ issued' = [issued EXCEPT ![c] = @ + 1]
        /\ writes' = [writes EXCEPT ![c] = @ \cup {w}]
        /\ Fire(c, l, w)
        /\ outstanding' = [outstanding EXCEPT ![c] = @ \cup {w}]
        /\ up' = IF conn[c] = "connected" THEN [up EXCEPT ![c] = Append(@, Put(w))] ELSE up
        /\ status' = [status EXCEPT ![w] = "pending"]
        /\ UNCHANGED <<conn, observed, toAck, unacked, down, db, applied, faults>>

\* observeSingleEvent: a listen unless one is active at the location.  A pending
\* write there answers it at once, but the listen has been sent by then.
Observe(c, l) ==
    LET r == [n |-> observed[c] + 1, loc |-> l]
        shadowed == Shown(writes[c], l, Nil) # Nil
    IN  /\ observed[c] < MaxReads
        /\ At(listens[c], l) = {}
        /\ observed' = [observed EXCEPT ![c] = @ + 1]
        /\ IF conn[c] = "down" THEN UNCHANGED <<up, unacked>>
           ELSE /\ up' = [up EXCEPT ![c] = Append(@, Listen(r))]
                /\ unacked' = [unacked EXCEPT ![c] = @ + 1]
        /\ IF shadowed
           THEN /\ got' = [got EXCEPT ![c] = [loc |-> l, value |-> Shown(writes[c], l, Nil)]]
                /\ listens' = listens
           ELSE /\ listens' = [listens EXCEPT ![c] = @ \cup {r}]
                /\ got' = got
        /\ UNCHANGED <<conn, issued, writes, outstanding, toAck, down, db,
                       status, applied, faults>>

\* refreshAuthToken: Firebase Auth has another token, after a login or because
\* it renewed the old one.  While there is no connection the token is only kept
\* for the next; a logout sends a request without a callback, which changes
\* nothing that is modelled.
ChangeToken(c) ==
    /\ conn[c] # "down"
    /\ Fault
    /\ up' = [up EXCEPT ![c] = Append(@, Auth(FALSE))]
    /\ UNCHANGED <<conn, issued, observed, writes, outstanding, toAck, listens, unacked,
                   down, db, status, applied, got>>

----------------------------------------------------------------------------
(* The connection *)

\* restoreAuth with the token that was fetched for the connection: if there is
\* none the state is restored at once, otherwise the token is sent first.
Connect(c) ==
    /\ conn[c] = "down"
    /\ \/ /\ conn' = [conn EXCEPT ![c] = "authenticating"]
          /\ up' = [up EXCEPT ![c] = <<Auth(TRUE)>>]
          /\ UNCHANGED unacked
       \/ /\ conn' = [conn EXCEPT ![c] = "connected"]
          /\ \E q \in Restored(c) : up' = [up EXCEPT ![c] = q]
          /\ unacked' = [unacked EXCEPT ![c] = @ + Cardinality(listens[c])]
    /\ UNCHANGED <<issued, observed, writes, outstanding, toAck, listens, down,
                   db, status, applied, got, faults>>

\* Mutant of Disconnected: the outstanding puts are forgotten.
DisconnectedForgetting(c) ==
    /\ conn' = [conn EXCEPT ![c] = "down"]
    /\ up' = [up EXCEPT ![c] = <<>>]
    /\ down' = [down EXCEPT ![c] = <<>>]
    /\ unacked' = [unacked EXCEPT ![c] = 0]
    /\ outstanding' = [outstanding EXCEPT ![c] = {}]
    /\ UNCHANGED <<issued, observed, writes, toAck, listens>>

\* Mutant of Disconnected: the count of listens is kept.
DisconnectedCounting(c) ==
    /\ conn' = [conn EXCEPT ![c] = "down"]
    /\ up' = [up EXCEPT ![c] = <<>>]
    /\ down' = [down EXCEPT ![c] = <<>>]
    /\ UNCHANGED <<issued, observed, writes, outstanding, toAck, listens, unacked>>

\* onDisconnect: the response callbacks and the count of listens are dropped,
\* the puts, the listens and the completions held back are kept.
Disconnected(c) ==
    /\ conn' = [conn EXCEPT ![c] = "down"]
    /\ up' = [up EXCEPT ![c] = <<>>]
    /\ down' = [down EXCEPT ![c] = <<>>]
    /\ unacked' = [unacked EXCEPT ![c] = 0]
    /\ UNCHANGED <<issued, observed, writes, outstanding, toAck, listens>>

Disconnect(c) ==
    /\ conn[c] # "down"
    /\ Fault
    /\ Disconnected(c)
    /\ UNCHANGED <<db, status, applied, got>>

\* The process ends; nothing of the client is kept.
Kill(c) ==
    /\ Fault
    /\ conn' = [conn EXCEPT ![c] = "down"]
    /\ writes' = [writes EXCEPT ![c] = {}]
    /\ outstanding' = [outstanding EXCEPT ![c] = {}]
    /\ toAck' = [toAck EXCEPT ![c] = {}]
    /\ listens' = [listens EXCEPT ![c] = {}]
    /\ unacked' = [unacked EXCEPT ![c] = 0]
    /\ up' = [up EXCEPT ![c] = <<>>]
    /\ down' = [down EXCEPT ![c] = <<>>]
    /\ status' = [w \in Write |-> IF w \in writes[c] THEN "lost" ELSE status[w]]
    /\ UNCHANGED <<issued, observed, db, applied, got>>

----------------------------------------------------------------------------
(* The server *)

Answer(c, replies) ==
    /\ up' = [up EXCEPT ![c] = Tail(@)]
    /\ down' = [down EXCEPT ![c] = @ \o replies]
    /\ UNCHANGED <<client, status, got, faults>>

ServeAuth(c) ==
    /\ up[c] # <<>> /\ Head(up[c]).kind = "auth"
    /\ \E ok \in BOOLEAN :
          /\ ok \/ faults < MaxFaults
          /\ Answer(c, <<AuthReply(ok, Head(up[c]).restore)>>)
    /\ UNCHANGED <<db, applied>>

ServePut(c, accept) ==
    /\ up[c] # <<>> /\ Head(up[c]).kind = "put"
    /\ LET w == Head(up[c]).write
       IN  /\ db' = IF accept THEN [db EXCEPT ![w.loc] = w] ELSE db
           /\ applied' = IF accept THEN applied \cup {w} ELSE applied
           /\ Answer(c, <<PutReply(w, accept)>>)

\* The data goes before the response to the listen.
ServeListen(c, accept) ==
    /\ up[c] # <<>> /\ Head(up[c]).kind = "listen"
    /\ LET r == Head(up[c]).read
       IN  Answer(c, IF accept THEN <<Data(r.loc, db[r.loc]), ListenReply(r, TRUE)>>
                     ELSE <<ListenReply(r, FALSE)>>)
    /\ UNCHANGED <<db, applied>>

Serve(c) == ServeAuth(c) \/ \E accept \in BOOLEAN : ServePut(c, accept) \/ ServeListen(c, accept)

----------------------------------------------------------------------------
(* Responses *)

Receives(c, kind) == down[c] # <<>> /\ Head(down[c]).kind = kind

\* A refused token closes the connection.
ReceiveAuth(c) ==
    /\ Receives(c, "auth")
    /\ LET m == Head(down[c])
       IN  IF m.ok
           THEN /\ conn' = [conn EXCEPT ![c] = "connected"]
                /\ down' = [down EXCEPT ![c] = Tail(@)]
                /\ IF m.restore
                   THEN /\ \E q \in Restored(c) : up' = [up EXCEPT ![c] = @ \o q]
                        /\ unacked' = [unacked EXCEPT ![c] = @ + Cardinality(listens[c])]
                   ELSE UNCHANGED <<up, unacked>>
                /\ UNCHANGED <<issued, observed, writes, outstanding, toAck,
                               listens, faults>>
           ELSE Disconnected(c) /\ faults' = faults + 1
    /\ UNCHANGED <<db, status, applied, got>>

ReceiveData(c) ==
    /\ Receives(c, "data")
    /\ LET m == Head(down[c]) IN Fire(c, m.loc, Shown(writes[c], m.loc, m.value))
    /\ down' = [down EXCEPT ![c] = Tail(@)]
    /\ UNCHANGED <<conn, issued, observed, writes, outstanding, toAck, unacked,
                   up, db, status, applied, faults>>

\* Mutant of ReceiveListen: the listen is not counted when it is refused, and
\* counted twice otherwise.
ReceiveListenTwice(c) ==
    /\ Receives(c, "listen")
    /\ LET m == Head(down[c])
       IN  /\ listens' = IF m.ok THEN listens ELSE [listens EXCEPT ![c] = @ \ {m.read}]
           /\ unacked' = [unacked EXCEPT ![c] = IF m.ok THEN @ - 2 ELSE @]
    /\ down' = [down EXCEPT ![c] = Tail(@)]
    /\ UNCHANGED <<conn, issued, observed, writes, outstanding, toAck, up, db,
                   status, applied, got, faults>>

\* The response to a listen; the last one flushes putsToAck.
ReceiveListen(c) ==
    /\ Receives(c, "listen")
    /\ LET m == Head(down[c])
           flush == IF unacked[c] = 1 THEN toAck[c] ELSE {}
       IN  /\ listens' = IF m.ok THEN listens ELSE [listens EXCEPT ![c] = @ \ {m.read}]
           /\ toAck' = [toAck EXCEPT ![c] = @ \ flush]
           /\ writes' = [writes EXCEPT ![c] = @ \ Written(flush)]
           /\ status' = Completed(flush)
    /\ unacked' = [unacked EXCEPT ![c] = @ - 1]
    /\ down' = [down EXCEPT ![c] = Tail(@)]
    /\ UNCHANGED <<conn, issued, observed, outstanding, up, db, applied, got, faults>>

\* Mutant of ReceivePut: a completion reports success whatever the answer was, and
\* a second answer is not recognised.
ReceivePutBlind(c) ==
    /\ Receives(c, "put")
    /\ LET ack == [write |-> Head(down[c]).write, ok |-> TRUE]
       IN  /\ outstanding' = [outstanding EXCEPT ![c] = @ \ {ack.write}]
           /\ writes' = [writes EXCEPT ![c] = @ \ {ack.write}]
           /\ status' = Completed({ack})
           /\ toAck' = toAck
    /\ down' = [down EXCEPT ![c] = Tail(@)]
    /\ UNCHANGED <<conn, issued, observed, listens, unacked, up, db, applied, got, faults>>

\* The response to a put that is still outstanding completes it, unless a listen
\* is unanswered.
ReceivePut(c) ==
    /\ Receives(c, "put")
    /\ LET m == Head(down[c])
           ack == [write |-> m.write, ok |-> m.ok]
       IN  IF m.write \notin outstanding[c] THEN UNCHANGED <<outstanding, toAck, writes, status>>
           ELSE /\ outstanding' = [outstanding EXCEPT ![c] = @ \ {m.write}]
                /\ IF unacked[c] = 0
                   THEN /\ writes' = [writes EXCEPT ![c] = @ \ {m.write}]
                        /\ status' = Completed({ack})
                        /\ toAck' = toAck
                   ELSE /\ toAck' = [toAck EXCEPT ![c] = @ \cup {ack}]
                        /\ UNCHANGED <<writes, status>>
    /\ down' = [down EXCEPT ![c] = Tail(@)]
    /\ UNCHANGED <<conn, issued, observed, listens, unacked, up, db, applied, got, faults>>

Receive(c) == ReceiveAuth(c) \/ ReceiveData(c) \/ ReceiveListen(c) \/ ReceivePut(c)

App(c) ==
    \/ \E l \in Locs : Set(c, l) \/ Observe(c, l)
    \/ ChangeToken(c)

Next == \E c \in Clients :
    App(c) \/ Connect(c) \/ Disconnect(c) \/ Kill(c) \/ Serve(c) \/ Receive(c)

Spec == Init /\ [][Next]_vars

\* The network comes back after at most MaxFaults faults, and the server answers.
FairSpec == Spec /\ \A c \in Clients :
    WF_vars(Connect(c)) /\ WF_vars(Serve(c)) /\ WF_vars(Receive(c))

----------------------------------------------------------------------------
(* Properties *)

\* The write tree that reads are laid under and the queue that is sent again
\* never drift apart: a write is visible exactly as long as it is outstanding
\* or its completion is held back, and never both.
PendingMatches ==
    \A c \in Clients :
        /\ writes[c] = outstanding[c] \cup Written(toAck[c])
        /\ outstanding[c] \cap Written(toAck[c]) = {}

\* unackedListensCount counts the listens on the connection, so it never becomes
\* negative (the assertion at FPersistentConnection.m:683) and completions are
\* only held back while a response is on its way.
ListensAreCounted ==
    \A c \in Clients :
        unacked[c] = Cardinality({i \in DOMAIN up[c] : up[c][i].kind = "listen"})
                     + Cardinality({i \in DOMAIN down[c] : down[c][i].kind = "listen"})

\* What a read shows a client over its own writes (calculateCompleteEventCache
\* over FWriteTree).  While one of its writes is pending, that or a newer one of
\* its own is shown.  After one was completed without error another client's
\* value may be shown, but of its own an older one only if that very write was
\* answered and its completion is held back in putsToAck, which keeps it in the
\* write tree after the newer one has left it.
ReadYourWrites == [][
    \A c \in Clients : got'[c] # got[c] =>
        \A w \in Write : w.client = c /\ w.loc = got'[c].loc =>
            LET v == got'[c].value
            IN  /\ status[w] = "pending" => v \in Write /\ v.client = c /\ v.n >= w.n
                /\ status[w] = "ok" =>
                      /\ v \in Write
                      /\ v.client = c => v.n >= w.n \/ v \in Written(toAck[c])]_vars

\* When all writes of the only writer of a location are completed without error
\* the server holds the last one, although puts were sent and applied twice.
LastWriteStays ==
    \A c \in Clients, l \in Locs :
        LET here == {w \in Write : w.loc = l /\ status[w] # "new"}
        IN  /\ here # {}
            /\ \A w \in here : w.client = c /\ status[w] = "ok"
            => \A w \in here : w.n <= db[l].n

\* The writes of the app behave as setValue promises.
Promise == INSTANCE RemoteWrites WITH Writes <- Write, effected <- applied, store <- db
KeepsPromise == Promise!Spec

\* With a network that comes back every put is answered in the end, however
\* often its reply was lost.
PutsAreAnswered ==
    \A c \in Clients : \A w \in Write : w \in outstanding[c] ~> w \notin outstanding[c]

\* "A block that gets triggered after the write operation has been committed to
\* the Firebase Database servers" (FIRDatabaseReference.h:95): with a network
\* that comes back every write is completed in the end.
CompletionsRun == \A w \in Write : status[w] = "pending" ~> status[w] # "pending"

============================================================================
