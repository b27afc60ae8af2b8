----------------------------- MODULE WriteTree -----------------------------
(***************************************************************************)
(* FWriteTree in detail.  RealtimeDatabase reads the writes that are        *)
(* visible; the code does not look through them, but keeps a compound write *)
(* beside the list: one entry for each location, changed as writes come and *)
(* go.  The app writes leaves of the tree only, so no location contains     *)
(* another.                                                                *)
(***************************************************************************)
EXTENDS RealtimeDatabase

VARIABLE visible \* visibleWrites: the write shown at a location of a client

tree == <<vars, visible>>

Empty == [l \in Locs |-> Nil]

AddWrite(cache, w) == [cache EXCEPT ![w.loc] = w]

\* The write of ws with number i, as a set.
Numbered(ws, i) == {w \in ws : w.n = i}

\* The trees that come of laying the first i writes of ws on an empty one.
Layers(ws) ==
    LET laid[i \in 0..MaxWrites] ==
            IF i = 0 THEN Empty
            ELSE IF Numbered(ws, i) = {} THEN laid[i - 1]
            ELSE AddWrite(laid[i - 1], CHOOSE w \in Numbered(ws, i) : TRUE)
    IN  laid

\* resetTree: the writes, oldest first, are laid on an empty tree.
ResetTree(ws) == Layers(ws)[MaxWrites]

\* Mutant of RemoveWrite: an older write at the same location is not shown again.
RemoveWriteOnly(t, w) ==
    LET rest  == t.all \ {w}
        later == {x \in rest : x.loc = w.loc /\ x.n > w.n}
    IN  [all   |-> rest,
         cache |-> IF later # {} THEN t.cache ELSE [t.cache EXCEPT ![w.loc] = Nil]]

\* removeWriteId: a write hidden by a later one changes nothing, one that hides
\* an older one has the tree built again.
RemoveWrite(t, w) ==
    LET rest  == t.all \ {w}
        later == {x \in rest : x.loc = w.loc /\ x.n > w.n}
        older == {x \in rest : x.loc = w.loc /\ x.n < w.n}
    IN  [all   |-> rest,
         cache |-> IF later # {} THEN t.cache
                   ELSE IF older # {} THEN ResetTree(rest)
                   ELSE [t.cache EXCEPT ![w.loc] = Nil]]

\* What is left of t when the first i writes of gone are removed.
Removals(t, gone) ==
    LET left[i \in 0..MaxWrites] ==
            IF i = 0 THEN t
            ELSE IF Numbered(gone, i) = {} THEN left[i - 1]
            ELSE RemoveWrite(left[i - 1], CHOOSE w \in Numbered(gone, i) : TRUE)
    IN  left

\* The completions of several writes run in the order of their answers, which is
\* that of the writes.
RemoveWrites(c, gone) ==
    Removals([all |-> writes[c], cache |-> visible[c]], gone)[MaxWrites].cache

----------------------------------------------------------------------------
TreeInit == Init /\ visible = [c \in Clients |-> Empty]

SetVisible(c, l) ==
    /\ Set(c, l)
    /\ visible' = [visible EXCEPT ![c] = AddWrite(@, [client |-> c, n |-> issued'[c], loc |-> l])]

Acknowledge(c) ==
    /\ ReceivePut(c) \/ ReceiveListen(c)
    /\ visible' = [visible EXCEPT ![c] = RemoveWrites(c, writes[c] \ writes'[c])]

Restart(c) ==
    /\ Kill(c)
    /\ visible' = [visible EXCEPT ![c] = Empty]

Elsewhere(c) ==
    /\ \/ \E l \in Locs : Observe(c, l)
       \/ ChangeToken(c) \/ Connect(c) \/ Disconnect(c) \/ Serve(c)
       \/ ReceiveAuth(c) \/ ReceiveData(c)
    /\ visible' = visible

TreeNext == \E c \in Clients :
    (\E l \in Locs : SetVisible(c, l)) \/ Acknowledge(c) \/ Restart(c) \/ Elsewhere(c)

\* As FairSpec of RealtimeDatabase.
TreeSpec ==
    /\ TreeInit /\ [][TreeNext]_tree
    /\ \A c \in Clients : WF_vars(Connect(c)) /\ WF_vars(Serve(c)) /\ WF_vars(Receive(c))

----------------------------------------------------------------------------
\* What the client shows over the server's data is its latest write that is not
\* completed, whatever the order in which writes at one location come and go: a
\* held back write that outlives a newer one, a flush of several, a resent put.
CacheIsExact ==
    \A c \in Clients, l \in Locs : visible[c][l] = Shown(writes[c], l, Nil)

============================================================================
