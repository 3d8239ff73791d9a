---------------------------- MODULE MetricTrees ----------------------------
(***************************************************************************)
(* The two trees of stringcheese-index side by side, as its property tests *)
(* keep them: every item goes into both, and a range search is asked of    *)
(* both.  The VP-tree is this module's own; the BK-tree follows it.        *)
(***************************************************************************)
EXTENDS VpTree

VARIABLES bkStored, bkTree, bkCall, bkAt, bkDone, bkFound, bkReply

bkVars  == <<bkStored, bkTree, bkCall, bkAt, bkDone, bkFound, bkReply>>
allVars == <<vars, bkVars>>

\* The items of the BK-tree include those of the VP-tree's corpus.
Bk == INSTANCE BkTree WITH
        Items <- Text, stored <- bkStored, tree <- bkTree, call <- bkCall, at <- bkAt,
        done <- bkDone, found <- bkFound, reply <- bkReply

BothInit == Init /\ Bk!Init

BothIdle == call = Idle /\ bkCall = Idle
InStep   == Len(bkStored) = Len(stored)

\* One caller: it starts a call when the last has returned.
Start ==
    /\ BothIdle /\ InStep
    /\ \/ \E x \in Items : Insert(x) /\ UNCHANGED bkVars
       \/ \E q \in Queries, r \in Radii : Find("within", q, r) /\ Bk!Find(q, r)
       \/ \E q \in Queries, k \in Ks : Find("nearest", q, k) /\ UNCHANGED bkVars

\* The BK-tree is given the next item that the VP-tree has.
FollowInsert ==
    /\ BothIdle /\ Len(bkStored) < Len(stored)
    /\ Bk!Insert(stored[Len(bkStored) + 1])
    /\ UNCHANGED vars

BkStep == Bk!Step /\ UNCHANGED vars

VpStep == bkCall = Idle /\ Step /\ UNCHANGED bkVars

BothNext == Start \/ FollowInsert \/ BkStep \/ VpStep

BothSpec ==
    /\ BothInit /\ [][BothNext]_allVars
    /\ WF_allVars(BkStep) /\ WF_allVars(VpStep)

-----------------------------------------------------------------------------
(* Properties *)

BkImplementsIndex == Bk!BkImplementsIndex

\* The recursions end: build_bulk, both descents of insert and the three
\* searches return, given that the thread running them goes on.
CallsReturn == ~BothIdle ~> BothIdle
=============================================================================
