--------------------------- MODULE SwitchEngine_proofs ---------------------------
(***************************************************************************)
(* Proofs about the connections of the forwarding server, for any number   *)
(* of pairs and descriptors, whether two threads may overlap or not.       *)
(*                                                                         *)
(* Who owns a pair (PairsConserved) and who holds its mutex                *)
(* (LocksGivenBack) depend on the sockets in nothing, so each proof needs  *)
(* only the variables it is about.  What the sockets are (SocketInv) is    *)
(* known as long as no two threads have been at work on one pair.          *)
(***************************************************************************)
EXTENDS SwitchEngine, FiniteSums, SequenceTheorems

USE DEF Watched, Goto, At

-----------------------------------------------------------------------------
(* The pairs. *)

\* The inductive invariant of the manager
PairInv ==
    /\ stored \in Nat
    /\ free \in Seq(Nat)
    /\ PairsConserved

\* A pair that leaves the map goes to the end of the queue.
LEMMA ToFreeKeepsPairs ==
    ASSUME PairInv, NEW p \in active,
           active' = active \ {p}, free' = Append(free, p), stored' = stored
    PROVE  PairInv'
<1> USE DEF PairInv
<1>1. p \in Nat
  BY DEF PairsConserved
<1>2. /\ free' \in Seq(Nat)
      /\ Len(free') = Len(free) + 1
      /\ \A i \in 1..Len(free) : free'[i] = free[i]
      /\ free'[Len(free) + 1] = p
      /\ Len(free) \in Nat
  BY <1>1
<1>3. Queued' = Queued \cup {p}
  BY <1>2 DEF Queued
<1>4. p \notin Queued
  BY DEF PairsConserved
<1>5. \A i \in 1..Len(free) : free[i] # p
  BY <1>4 DEF Queued
<1>6. active' \cup Queued' = 1..stored'
  BY <1>3 DEF PairsConserved
<1>7. active' \cap Queued' = {}
  BY <1>3, <1>4 DEF PairsConserved
<1>8. \A i, j \in 1..Len(free') : free'[i] = free'[j] => i = j
  <2> TAKE i, j \in 1..Len(free')
  <2>1. i \in 1..Len(free) \/ i = Len(free) + 1
    BY <1>2
  <2>2. j \in 1..Len(free) \/ j = Len(free) + 1
    BY <1>2
  <2> QED BY <1>2, <1>5, <2>1, <2>2 DEF PairsConserved
<1> QED BY <1>2, <1>6, <1>7, <1>8 DEF PairsConserved

\* The pair at the head of the queue goes to the map.
LEMMA ReuseKeepsPairs ==
    ASSUME PairInv, free # <<>>,
           active' = active \cup {Head(free)}, free' = Tail(free),
           stored' = stored
    PROVE  PairInv'
<1> USE DEF PairInv
<1>1. /\ free' \in Seq(Nat)
      /\ Len(free') = Len(free) - 1
      /\ \A i \in 1..Len(free') : free'[i] = free[i + 1]
      /\ Len(free) \in Nat \ {0}
      /\ Head(free) = free[1]
  BY HeadTailProperties, EmptySeq
<1>2. Queued = Queued' \cup {Head(free)}
  <2>1. ASSUME NEW i \in 1..Len(free) PROVE free[i] \in Queued' \cup {Head(free)}
    <3>1. CASE i = 1
      BY <1>1, <3>1
    <3>2. CASE i # 1
      <4>1. i - 1 \in 1..Len(free') /\ free'[i - 1] = free[(i - 1) + 1]
        BY <1>1, <3>2
      <4>2. free'[i - 1] = free[i]
        BY <4>1
      <4> QED BY <4>1, <4>2 DEF Queued
    <3> QED BY <3>1, <3>2
  <2>2. ASSUME NEW i \in 1..Len(free') PROVE free'[i] \in Queued
    <3>1. i + 1 \in 1..Len(free)
      BY <1>1
    <3> QED BY <1>1, <3>1 DEF Queued
  <2>3. Head(free) \in Queued
    BY <1>1 DEF Queued
  <2> QED BY <2>1, <2>2, <2>3 DEF Queued
<1>3. Head(free) \notin Queued'
  <2> SUFFICES ASSUME NEW i \in 1..Len(free'), free'[i] = Head(free) PROVE FALSE
    BY DEF Queued
  <2>1. i + 1 \in 1..Len(free) /\ 1 \in 1..Len(free) /\ free[i + 1] = free[1]
    BY <1>1
  <2> QED BY <2>1 DEF PairsConserved
<1>4. \A i, j \in 1..Len(free') : free'[i] = free'[j] => i = j
  <2> SUFFICES ASSUME NEW i \in 1..Len(free'), NEW j \in 1..Len(free'),
                      free'[i] = free'[j]
               PROVE  i = j
    OBVIOUS
  <2>1. i + 1 \in 1..Len(free) /\ j + 1 \in 1..Len(free)
    BY <1>1
  <2>2. free[i + 1] = free[j + 1]
    BY <1>1
  <2>3. i + 1 = j + 1
    BY <2>1, <2>2 DEF PairsConserved
  <2> QED BY <1>1, <2>3
<1> QED BY <1>1, <1>2, <1>3, <1>4 DEF PairsConserved

\* Before any client connects no pair is claimed.
LEMMA PairsInit == Init => PairInv
<1> SUFFICES ASSUME Init PROVE PairInv
  OBVIOUS
<1>1. free = <<>> /\ Len(free) = 0 /\ free \in Seq(Nat)
  BY EmptySeq DEF Init
<1> QED BY <1>1 DEF Init, PairInv, PairsConserved, Queued

\* Every step keeps PairInv.
LEMMA PairsNext == PairInv /\ [Next]_vars => PairInv'
<1> SUFFICES ASSUME PairInv, [Next]_vars PROVE PairInv'
  OBVIOUS
<1>1. ASSUME UNCHANGED mgr PROVE PairInv'
  BY <1>1 DEF PairInv, PairsConserved, Queued, mgr
<1>2. ASSUME NEW t \in Thread, Closing(t) PROVE PairInv'
  <2>1. CASE ToFree(t)
    <3>1. CASE th[t].pair \in active
      BY <2>1, <3>1, ToFreeKeepsPairs DEF ToFree
    <3>2. CASE th[t].pair \notin active
      BY <1>1, <2>1, <3>2 DEF ToFree, mgr
    <3> QED BY <3>1, <3>2
  <2>2. CASE ClosePartner(t)
    BY <1>1, <2>2 DEF ClosePartner
  <2>3. CASE ResumePartner(t)
    BY <1>1, <2>3 DEF ResumePartner
  <2>4. CASE CloseOwn(t)
    BY <1>1, <2>4 DEF CloseOwn
  <2>5. CASE ResumeOwn(t)
    BY <1>1, <2>5 DEF ResumeOwn
  <2> QED BY <1>2, <2>1, <2>2, <2>3, <2>4, <2>5 DEF Closing
<1>3. ASSUME NEW t \in Side, Reading(t) PROVE PairInv'
  BY <1>1, <1>3 DEF Reading, EpollWait, ForwardLock, Serve, Fail
<1>4. CASE FindIdle \/ CloseIdle
  BY <1>1, <1>4 DEF FindIdle, CloseIdle
<1>5. CASE Accept
  <2>1. CASE free # <<>>
    BY <1>5, <2>1, ReuseKeepsPairs DEF Accept
  <2>2. CASE free = <<>>
    BY <1>1, <1>5, <2>2 DEF Accept, mgr
  <2> QED BY <2>1, <2>2
<1>6. CASE AddItem
  <2>1. stored' = stored + 1 /\ active' = active \cup {stored + 1} /\ free' = free
    BY <1>6 DEF AddItem
  <2>2. Queued' = Queued
    BY <2>1 DEF Queued
  <2>3. 1..(stored + 1) = 1..stored \cup {stored + 1} /\ stored + 1 \notin 1..stored
    BY DEF PairInv
  <2> QED BY <2>1, <2>2, <2>3 DEF PairInv, PairsConserved
<1>7. CASE Attach \/ NoSocket \/ ConnectFails \/ Connect \/ BindLock \/ BindGone \/ Bind
  BY <1>1, <1>7
     DEF Attach, NoSocket, ConnectFails, Connect, BindLock, BindGone, Bind
<1>8. CASE UNCHANGED vars
  BY <1>1, <1>8 DEF vars, mgr
<1> QED BY <1>2, <1>3, <1>4, <1>5, <1>6, <1>7, <1>8 DEF Next, Accepting

\* Every pair that was ever made is in the map or in the queue, once
\* (getFreeNetworkItem, addNetworkItem, ClientItemToFree, ForwardItemToFree):
\* no order of closings, by whichever threads, loses a pair or gives it out
\* twice.
THEOREM PairsConservedHolds == Spec => []PairsConserved
<1>1. PairInv => PairsConserved
  BY DEF PairInv
<1> QED BY <1>1, PairsInit, PairsNext, PTL DEF Spec

-----------------------------------------------------------------------------
(* The threads and the mutexes. *)

\* Where a thread may be while it holds a mutex
Holding == {"handle", "toFree", "partner", "partnerResume", "own", "ownResume",
            "bound"}

\* What a thread that is busy has with it
Placed ==
    /\ th["accept"].at = "add" => stored < MaxPairs
    /\ th["accept"].at \in {"add", "attach", "bind", "bound"} => th["accept"].fd \in Fd
    /\ \A t \in Thread : th[t].at \notin {"idle", "add"} => th[t].pair \in Pair

TypeInv == TypeOK /\ Placed

LocksTyped == th \in [Thread -> Threads] /\ lock \in [Pair -> Thread \cup {Nobody}]

\* A step of t: the other threads stay where they are, the mutexes others hold
\* stay theirs, and t holds one only at a place where it will give it back.
Moves(t) ==
    /\ LocksTyped'
    /\ \A v \in Thread \ {t} : /\ th'[v].at = th[v].at
                               /\ th'[v].pair = th[v].pair
                               /\ th'[v].fd = th[v].fd
    /\ \A p \in Pair : lock'[p] = lock[p] \/ lock'[p] \in {Nobody, t}
    /\ \A p \in Pair : lock'[p] = t => th'[t].pair = p /\ th'[t].at \in Holding

\* What LocksGivenBack needs of a step is that it is one thread's.
LEMMA MovesKeepLocks ==
    ASSUME LocksGivenBack, NEW t \in Thread, Moves(t), lock \in [Pair -> Thread \cup {Nobody}]
    PROVE  LocksGivenBack'
<1> SUFFICES ASSUME NEW p \in Pair, lock'[p] # Nobody
             PROVE  /\ th'[lock'[p]].pair = p
                    /\ th'[lock'[p]].at \in Holding
  BY DEF LocksGivenBack, Holding
<1>1. CASE lock'[p] = t
  BY <1>1 DEF Moves
<1>2. CASE lock'[p] # t
  <2>1. lock'[p] = lock[p] /\ lock[p] \in Thread \ {t}
    BY <1>2 DEF Moves
  <2>2. th[lock[p]].pair = p /\ th[lock[p]].at \in Holding
    BY <2>1 DEF LocksGivenBack, Holding
  <2>3. /\ th'[lock[p]].pair = th[lock[p]].pair
        /\ th'[lock[p]].at = th[lock[p]].at
    BY <2>1 DEF Moves
  <2> QED BY <2>1, <2>2, <2>3
<1> QED BY <1>1, <1>2

\* Of the threads only the notes to close an item change.
LEMMA ResumedSame ==
    ASSUME th \in [Thread -> Threads], NEW p, NEW side
    PROVE  /\ Resumed(p, side) \in [Thread -> Threads]
           /\ \A v \in Thread : /\ Resumed(p, side)[v].at = th[v].at
                                /\ Resumed(p, side)[v].pair = th[v].pair
                                /\ Resumed(p, side)[v].side = th[v].side
                                /\ Resumed(p, side)[v].fd = th[v].fd
<1> DEFINE y(u) == [th[u] EXCEPT !.same = FALSE]
           noted(u) == Noted(u) /\ th[u].pair = p /\ th[u].side = side
<1>1. ASSUME NEW u \in Thread
      PROVE  /\ th[u] \in Threads /\ y(u) \in Threads
             /\ y(u).at = th[u].at /\ y(u).pair = th[u].pair
             /\ y(u).side = th[u].side /\ y(u).fd = th[u].fd
  <2>1. th[u] \in Threads
    OBVIOUS
  <2> QED BY <2>1 DEF Threads
<1>2. Resumed(p, side) = [u \in Thread |-> IF noted(u) THEN y(u) ELSE th[u]]
  BY DEF Resumed
<1> HIDE DEF y, noted
<1>3. \A v \in Thread : Resumed(p, side)[v] = y(v) \/ Resumed(p, side)[v] = th[v]
  BY <1>2
<1> QED BY <1>1, <1>2, <1>3

\* A thread that ends gives back what it held.
LEMMA FinishMoves ==
    ASSUME LocksTyped, NEW t \in Thread, NEW u \in [Thread -> Threads],
           \A v \in Thread : /\ u[v].at = th[v].at /\ u[v].pair = th[v].pair
                             /\ u[v].fd = th[v].fd,
           Finish(t, u)
    PROVE  /\ Moves(t)
           /\ th'[t].at \in {"idle", "toFree"}
           /\ th'[t].at = "toFree" => th'[t].pair = th[t].pair
<1>1. /\ th' \in [Thread -> Threads]
      /\ \A v \in Thread \ {t} : th'[v] = u[v]
      /\ th'[t].at \in {"idle", "toFree"}
      /\ th'[t].at = "toFree" => th'[t].pair = u[t].pair
  BY DEF Finish, Threads, Idle, NoFd, Side
<1>2. /\ lock' \in [Pair -> Thread \cup {Nobody}]
      /\ \A p \in Pair : lock'[p] = IF lock[p] = t THEN Nobody ELSE lock[p]
  BY DEF Finish, Unlocked, LocksTyped
<1>3. Nobody # t
  BY DEF Nobody, Thread, Side
<1> QED BY <1>1, <1>2, <1>3 DEF Moves, LocksTyped

\* A thread that may hold the mutex of its pair starts to close an item.
LEMMA StartCloseMoves ==
    ASSUME LocksTyped, NEW t \in Thread, StartClose(t, th),
           \A p \in Pair : lock[p] = t => th[t].pair = p
    PROVE  /\ Moves(t)
           /\ th'[t].at \in {"idle", "toFree"}
           /\ th'[t].at = "toFree" => th'[t].pair = th[t].pair
<1>1. CASE item[th[t].pair][th[t].side].open
  <2>1. /\ th' = [th EXCEPT ![t].at = "toFree", ![t].fd = NoFd]
        /\ lock' = lock
    BY <1>1 DEF StartClose
  <2>2. /\ th' \in [Thread -> Threads]
        /\ \A v \in Thread \ {t} : th'[v] = th[v]
        /\ th'[t].at = "toFree" /\ th'[t].pair = th[t].pair
    <3>1. th \in [Thread -> Threads] /\ th[t] \in Threads
      BY DEF LocksTyped
    <3>2. /\ [th[t] EXCEPT !.at = "toFree", !.fd = NoFd] \in Threads
          /\ [th[t] EXCEPT !.at = "toFree", !.fd = NoFd].at = "toFree"
          /\ [th[t] EXCEPT !.at = "toFree", !.fd = NoFd].pair = th[t].pair
      BY <3>1 DEF Threads, NoFd
    <3>3. th' = [th EXCEPT ![t] = [th[t] EXCEPT !.at = "toFree", !.fd = NoFd]]
      BY <2>1, <3>1 DEF Threads
    <3> QED BY <3>1, <3>2, <3>3
  <2>3. LocksTyped'
    BY <2>1, <2>2 DEF LocksTyped
  <2>4. \A p \in Pair : lock'[p] = t => th'[t].pair = p /\ th'[t].at \in Holding
    BY <2>1, <2>2 DEF Holding
  <2> QED BY <2>1, <2>2, <2>3, <2>4 DEF Moves
<1>2. CASE ~ item[th[t].pair][th[t].side].open
  <2>1. Finish(t, th)
    BY <1>2 DEF StartClose
  <2> QED BY <2>1, FinishMoves DEF LocksTyped
<1> QED BY <1>1, <1>2

\* A thread goes on without giving back or taking a mutex.
LEMMA GotoMoves ==
    ASSUME LocksTyped, LocksGivenBack, NEW t \in Thread,
           NEW u \in [Thread -> Threads],
           \A v \in Thread \ {t} : /\ u[v].at = th[v].at
                                   /\ u[v].pair = th[v].pair
                                   /\ u[v].fd = th[v].fd,
           \/ th[t].at \notin Holding
           \/ u[t].pair = th[t].pair /\ u[t].at \in Holding,
           th' = u, lock' = lock
    PROVE  Moves(t)
BY DEF Moves, LocksTyped, LocksGivenBack, Holding, Nobody, Thread, Side

\* The items of the pairs
Item == [open : BOOLEAN, sock : Fd \cup {NoFd}]
Items == [Pair -> [Side -> Item]]

\* An item that is closed, reset or attached is an item.
LEMMA ItemsTyped ==
    ASSUME NEW f \in Items, NEW p, NEW s, NEW x \in Item
    PROVE  /\ [f EXCEPT ![p][s].open = FALSE] \in Items
           /\ [f EXCEPT ![p][s].sock = NoFd] \in Items
           /\ [f EXCEPT ![p][s] = x] \in Items
<1>1. ASSUME NEW z, p \in Pair /\ s \in Side => z \in Item
      PROVE [f EXCEPT ![p] = [f[p] EXCEPT ![s] = z]] \in Items
  <2> DEFINE e == [f[p] EXCEPT ![s] = z]
  <2>1. p \in Pair => e \in [Side -> Item]
    <3>1. p \in Pair => f[p] \in [Side -> Item]
      BY DEF Items
    <3> QED BY <1>1, <3>1
  <2>2. f \in [Pair -> [Side -> Item]]
    BY DEF Items
  <2> HIDE DEF e
  <2>3. [f EXCEPT ![p] = e] \in [Pair -> [Side -> Item]]
    BY <2>1, <2>2
  <2> QED BY <2>3 DEF Items, e
<1>2. p \in Pair /\ s \in Side =>
        /\ [f[p][s] EXCEPT !.open = FALSE] \in Item
        /\ [f[p][s] EXCEPT !.sock = NoFd] \in Item
  <2>1. \A y \in Item : [y EXCEPT !.open = FALSE] \in Item /\ [y EXCEPT !.sock = NoFd] \in Item
    BY DEF Item
  <2>2. p \in Pair /\ s \in Side => f[p][s] \in Item
    BY DEF Items
  <2> QED BY <2>1, <2>2
<1>3. [f EXCEPT ![p] = [f[p] EXCEPT ![s] = [f[p][s] EXCEPT !.open = FALSE]]] \in Items
  BY <1>1, <1>2
<1>4. [f EXCEPT ![p] = [f[p] EXCEPT ![s] = [f[p][s] EXCEPT !.sock = NoFd]]] \in Items
  BY <1>1, <1>2
<1>5. [f EXCEPT ![p] = [f[p] EXCEPT ![s] = x]] \in Items
  BY <1>1
<1> QED BY <1>3, <1>4, <1>5

\* The types of what is not a thread's
RestTyped ==
    /\ stored \in 0..MaxPairs
    /\ active \subseteq Pair
    /\ free \in Seq(Pair)
    /\ item \in Items
    /\ openFd \subseteq Fd
    /\ reg \in [Side -> SUBSET [fd : Fd, pair : Pair]]
    /\ overlap \in BOOLEAN

\* The type invariant is that of the locks and that of the rest.
LEMMA TypesSplit == TypeOK <=> RestTyped /\ LocksTyped
BY DEF TypeOK, RestTyped, LocksTyped, Items, Item

\* A thread whose step leaves it the pair and the socket that its place asks
\* for keeps Placed.
LEMMA MovesKeepPlaced ==
    ASSUME Placed, NEW t \in Thread, Moves(t),
           th'[t].at \notin {"idle", "add"} => th'[t].pair \in Pair,
           IF t = "accept"
           THEN /\ th'[t].at = "add" => stored' < MaxPairs
                /\ th'[t].at \in {"add", "attach", "bind", "bound"} => th'[t].fd \in Fd
           ELSE stored' = stored
    PROVE  Placed'
<1>1. \A v \in Thread : th'[v].at \notin {"idle", "add"} => th'[v].pair \in Pair
  BY DEF Placed, Moves
<1>2. "accept" \in Thread
  BY DEF Thread
<1> QED BY <1>1, <1>2 DEF Placed, Moves

\* The overlap flag stays Boolean.
LEMMA WatchedTyped == ASSUME Watched PROVE overlap' \in BOOLEAN
BY DEF Meet

\* A step of t keeps the types, and moves t only.
Step(t) == Moves(t) /\ TypeInv'

\* The steps that close a pair keep the types and move one thread only.
LEMMA ClosingSteps ==
    ASSUME TypeInv, LocksGivenBack, NEW t \in Thread, Closing(t)
    PROVE  Step(t)
<1> USE DEF TypeInv
<1>0. RestTyped /\ LocksTyped
  BY TypesSplit
<1>a. \A p \in Pair : lock[p] = t => th[t].pair = p
  BY DEF LocksGivenBack, Nobody, Thread, Side
<1>b. Fd \subseteq Nat /\ NoFd \notin Fd
  BY EngineAssumption DEF Fd, NoFd
<1>d. Closed \in Item
  BY DEF Closed, Item
<1>c. ASSUME Moves(t),
             th'[t].at \in {"idle", "toFree", "partner", "partnerResume", "own", "ownResume"},
             th'[t].at # "idle" => th'[t].pair = th[t].pair,
             th[t].at \notin {"idle", "add"},
             stored' = stored
      PROVE  Placed'
  BY <1>c, MovesKeepPlaced DEF Placed
<1>1. CASE ToFree(t)
  <2>0. th[t].at = "toFree" /\ th[t].pair \in Pair /\ th[t].side \in Side
    BY <1>0, <1>1 DEF ToFree, Placed, LocksTyped, Threads
  <2>1. CASE th[t].pair \in active
    <3>1. /\ active' = active \ {th[t].pair} /\ free' = Append(free, th[t].pair)
          /\ th' = [th EXCEPT ![t].at = "partner"] /\ lock' = lock
          /\ UNCHANGED <<stored, item, openFd, reg>> /\ Watched
      BY <1>1, <2>1 DEF ToFree
    <3>2. /\ th' \in [Thread -> Threads] /\ th'[t].at = "partner"
          /\ th'[t].pair = th[t].pair /\ \A v \in Thread \ {t} : th'[v] = th[v]
      BY <1>0, <3>1 DEF LocksTyped, Threads
    <3>3. Moves(t)
      BY <1>0, <2>0, <3>1, <3>2, GotoMoves DEF Holding
    <3>4. RestTyped'
      BY <1>0, <2>0, <3>1, WatchedTyped DEF RestTyped
    <3>5. Placed'
      BY <1>c, <2>0, <3>1, <3>2, <3>3
    <3> QED BY <3>3, <3>4, <3>5, TypesSplit DEF Step, Moves, TypeOK, RestTyped, LocksTyped, Items, Item
  <2>2. CASE th[t].pair \notin active
    <3>1. /\ reg' = [reg EXCEPT ![th[t].side] =
                       {e \in @ : e.fd # item[th[t].pair][th[t].side].sock}]
          /\ UNCHANGED <<stored, active, free, item, openFd>> /\ Watched
          /\ \/ Finish(t, th)
             \/ th' = [th EXCEPT ![t].at = "own"] /\ lock' = lock
      BY <1>1, <2>2 DEF ToFree
    <3>2. /\ Moves(t)
          /\ th'[t].at \in {"idle", "toFree", "own"}
          /\ th'[t].at # "idle" => th'[t].pair = th[t].pair
      <4>1. CASE Finish(t, th)
        <5>1. th \in [Thread -> Threads]
          BY <1>0 DEF LocksTyped
        <5> QED BY <1>0, <4>1, <5>1, FinishMoves
      <4>2. CASE th' = [th EXCEPT ![t].at = "own"] /\ lock' = lock
        <5>1. /\ th' \in [Thread -> Threads] /\ th'[t].at = "own"
              /\ th'[t].pair = th[t].pair /\ \A v \in Thread \ {t} : th'[v] = th[v]
          BY <1>0, <4>2 DEF LocksTyped, Threads
        <5> QED BY <1>0, <2>0, <4>2, <5>1, GotoMoves DEF Holding
      <4> QED BY <3>1, <4>1, <4>2
    <3>3. RestTyped'
      BY <1>0, <2>0, <3>1, WatchedTyped DEF RestTyped
    <3>4. Placed'
      BY <1>c, <2>0, <3>1, <3>2
    <3> QED BY <3>2, <3>3, <3>4 DEF Step, Moves, TypeOK, RestTyped, LocksTyped, Items, Item
  <2> QED BY <2>1, <2>2
<1>2. CASE ClosePartner(t)
  <2>0. th[t].at = "partner" /\ th[t].pair \in Pair /\ Other(th[t].side) \in Side
    BY <1>0, <1>2 DEF ClosePartner, Placed, LocksTyped, Threads, Other, Side
  <2>1. /\ th' = [th EXCEPT ![t].at = "partnerResume"] /\ lock' = lock
        /\ UNCHANGED <<stored, active, free>> /\ Watched
    BY <1>2 DEF ClosePartner, mgr
  <2>2. /\ th' \in [Thread -> Threads] /\ th'[t].at = "partnerResume"
        /\ th'[t].pair = th[t].pair /\ \A v \in Thread \ {t} : th'[v] = th[v]
    BY <1>0, <2>1 DEF LocksTyped, Threads
  <2>3. Moves(t)
    BY <1>0, <2>0, <2>1, <2>2, GotoMoves DEF Holding
  <2>4. /\ openFd' \subseteq Fd
        /\ reg' \in [Side -> SUBSET [fd : Fd, pair : Pair]]
    BY <1>0, <1>2 DEF ClosePartner, RestTyped
  <2>6. item' \in Items
    BY <1>0, <1>2, <1>d, ItemsTyped DEF ClosePartner, RestTyped
  <2>5. Placed'
    BY <1>c, <2>0, <2>1, <2>2, <2>3
  <2> QED BY <1>0, <2>1, <2>3, <2>4, <2>5, <2>6, WatchedTyped
          DEF Step, Moves, TypeOK, RestTyped, LocksTyped, Items, Item
<1>3. CASE ResumePartner(t)
  <2> DEFINE u == Resumed(th[t].pair, Other(th[t].side))
  <2>0. th[t].at = "partnerResume" /\ th[t].pair \in Pair
    BY <1>0, <1>3 DEF ResumePartner, Placed, LocksTyped, Threads
  <2>1. /\ u \in [Thread -> Threads]
        /\ \A v \in Thread : u[v].at = th[v].at /\ u[v].pair = th[v].pair /\ u[v].fd = th[v].fd
    BY <1>0, ResumedSame DEF LocksTyped
  <2>2. /\ item' = [item EXCEPT ![th[t].pair][Other(th[t].side)].sock = NoFd]
        /\ UNCHANGED <<stored, active, free, openFd, reg>> /\ Watched
        /\ \/ Finish(t, u)
           \/ th' = [u EXCEPT ![t].at = "own"] /\ lock' = lock
    BY <1>3 DEF ResumePartner, mgr
  <2>3. /\ Moves(t)
        /\ th'[t].at \in {"idle", "toFree", "own"}
        /\ th'[t].at # "idle" => th'[t].pair = th[t].pair
    <3> HIDE DEF u
    <3>1. CASE Finish(t, u)
      BY <1>0, <2>1, <3>1, FinishMoves
    <3>2. CASE th' = [u EXCEPT ![t].at = "own"] /\ lock' = lock
      <4>1. /\ th' \in [Thread -> Threads] /\ th'[t].at = "own"
            /\ th'[t].pair = u[t].pair /\ \A v \in Thread \ {t} : th'[v] = u[v]
        BY <2>1, <3>2 DEF Threads
      <4> QED BY <1>0, <2>0, <2>1, <3>2, <4>1, GotoMoves DEF Holding
    <3> QED BY <2>2, <3>1, <3>2
  <2>4. item' \in Items
    BY <1>0, <1>d, <2>2, ItemsTyped DEF RestTyped
  <2>5. Placed'
    BY <1>c, <2>0, <2>2, <2>3
  <2> QED BY <1>0, <2>2, <2>3, <2>4, <2>5, WatchedTyped
          DEF Step, Moves, TypeOK, RestTyped, LocksTyped, Items, Item
<1>4. CASE CloseOwn(t)
  <2>0. th[t].at = "own" /\ th[t].pair \in Pair
    BY <1>0, <1>4 DEF CloseOwn, Placed, LocksTyped, Threads
  <2>1. UNCHANGED <<stored, active, free>> /\ Watched
    BY <1>4 DEF CloseOwn, mgr
  <2>2. /\ Moves(t)
        /\ th'[t].at \in {"idle", "toFree", "ownResume"}
        /\ th'[t].at # "idle" => th'[t].pair = th[t].pair
    <3>1. CASE th[t].same
      <4>1. th' = [th EXCEPT ![t].at = "ownResume"] /\ lock' = lock
        BY <1>4, <3>1 DEF CloseOwn
      <4>2. /\ th' \in [Thread -> Threads] /\ th'[t].at = "ownResume"
            /\ th'[t].pair = th[t].pair /\ \A v \in Thread \ {t} : th'[v] = th[v]
        BY <1>0, <4>1 DEF LocksTyped, Threads
      <4> QED BY <1>0, <2>0, <4>1, <4>2, GotoMoves DEF Holding
    <3>2. CASE ~ th[t].same
      <4>1. Finish(t, th) /\ th \in [Thread -> Threads]
        BY <1>0, <1>4, <3>2 DEF CloseOwn, LocksTyped
      <4> QED BY <1>0, <4>1, FinishMoves
    <3> QED BY <3>1, <3>2
  <2>3. /\ openFd' \subseteq Fd
        /\ reg' \in [Side -> SUBSET [fd : Fd, pair : Pair]]
    BY <1>0, <1>4 DEF CloseOwn, Shut, RestTyped
  <2>6. item' \in Items
    <3>1. item' = item \/ item' = [item EXCEPT ![th[t].pair][th[t].side].open = FALSE]
      BY <1>4 DEF CloseOwn
    <3>2. CASE item' = item
      BY <1>0, <3>2 DEF RestTyped
    <3>3. CASE item' = [item EXCEPT ![th[t].pair][th[t].side].open = FALSE]
      BY <1>0, <1>d, <3>3, ItemsTyped DEF RestTyped
    <3> QED BY <3>1, <3>2, <3>3
  <2>4. Placed'
    BY <1>c, <2>0, <2>1, <2>2
  <2> QED BY <1>0, <2>1, <2>2, <2>3, <2>4, <2>6, WatchedTyped
          DEF Step, Moves, TypeOK, RestTyped, LocksTyped, Items, Item
<1>5. CASE ResumeOwn(t)
  <2> DEFINE u == Resumed(th[t].pair, th[t].side)
  <2>0. th[t].at = "ownResume" /\ th[t].pair \in Pair
    BY <1>0, <1>5 DEF ResumeOwn, Placed, LocksTyped, Threads
  <2>1. /\ u \in [Thread -> Threads]
        /\ \A v \in Thread : u[v].at = th[v].at /\ u[v].pair = th[v].pair /\ u[v].fd = th[v].fd
    BY <1>0, ResumedSame DEF LocksTyped
  <2>2. /\ item' = [item EXCEPT ![th[t].pair][th[t].side].sock = NoFd]
        /\ UNCHANGED <<stored, active, free, openFd, reg>> /\ Watched
        /\ Finish(t, u)
    BY <1>5 DEF ResumeOwn, mgr
  <2>3. /\ Moves(t)
        /\ th'[t].at \in {"idle", "toFree"}
        /\ th'[t].at # "idle" => th'[t].pair = th[t].pair
    <3> HIDE DEF u
    <3> QED BY <1>0, <2>1, <2>2, FinishMoves
  <2>4. item' \in Items
    BY <1>0, <1>d, <2>2, ItemsTyped DEF RestTyped
  <2>5. Placed'
    BY <1>c, <2>0, <2>2, <2>3
  <2> QED BY <1>0, <2>2, <2>3, <2>4, <2>5, WatchedTyped
          DEF Step, Moves, TypeOK, RestTyped, LocksTyped, Items, Item
<1> QED BY <1>1, <1>2, <1>3, <1>4, <1>5 DEF Closing

\* The steps that read a socket keep the types and move one thread only.
LEMMA ReadingSteps ==
    ASSUME TypeInv, LocksGivenBack, NEW t \in Side, Reading(t)
    PROVE  Step(t)
<1> USE DEF TypeInv
<1>0. RestTyped /\ LocksTyped /\ t \in Thread /\ t # "accept"
  BY TypesSplit DEF Thread, Side
<1>1. \A p \in Pair : lock[p] = t => th[t].pair = p
  BY <1>0 DEF LocksGivenBack, Nobody, Thread, Side
<1>2. /\ UNCHANGED <<stored, active, free, item, openFd, reg>> /\ Watched
  BY DEF Reading, EpollWait, ForwardLock, Serve, Fail, mgr
<1>3. RestTyped'
  BY <1>0, <1>2, WatchedTyped DEF RestTyped
<1>4. Moves(t) /\ (th'[t].at \notin {"idle", "add"} => th'[t].pair \in Pair)
  <2>1. CASE EpollWait(t)
    <3>1. PICK e \in reg[t] : th' = [th EXCEPT ![t] =
                  [Idle EXCEPT !.at = "event", !.pair = e.pair, !.side = t]]
      BY <2>1 DEF EpollWait
    <3>2. e.pair \in Pair /\ th[t].at = "idle" /\ lock' = lock
      BY <1>0, <2>1, <3>1 DEF RestTyped, EpollWait, Begins
    <3>3. [Idle EXCEPT !.at = "event", !.pair = e.pair, !.side = t] \in Threads
      BY <3>2 DEF Idle, Threads
    <3>4. /\ th' \in [Thread -> Threads] /\ th'[t].pair = e.pair
          /\ \A v \in Thread \ {t} : th'[v] = th[v]
      BY <1>0, <3>1, <3>3 DEF LocksTyped, Idle
    <3> QED BY <1>0, <3>2, <3>4, GotoMoves DEF Holding
  <2>2. CASE ForwardLock(t)
    <3>1. /\ th' = [th EXCEPT ![t].at = "handle"] /\ th[t].at = "event"
          /\ lock' = [lock EXCEPT ![th[t].pair] = t]
      BY <2>2 DEF ForwardLock
    <3>2. /\ th' \in [Thread -> Threads] /\ th'[t].at = "handle"
          /\ th'[t].pair = th[t].pair /\ \A v \in Thread \ {t} : th'[v] = th[v]
      BY <1>0, <3>1 DEF LocksTyped, Threads
    <3>3. th[t].pair \in Pair
      BY <1>0, <3>1 DEF Placed
    <3>4. \A p \in Pair : lock[p] # t
      BY <1>0, <3>1 DEF LocksGivenBack, Nobody, Thread, Side
    <3>5. /\ lock' \in [Pair -> Thread \cup {Nobody}]
          /\ \A p \in Pair : lock'[p] = IF p = th[t].pair THEN t ELSE lock[p]
      BY <1>0, <3>1 DEF LocksTyped
    <3> QED BY <3>2, <3>3, <3>4, <3>5 DEF Moves, LocksTyped, Holding
  <2>3. CASE Serve(t)
    <3>1. th' = [th EXCEPT ![t] = Idle] /\ lock' = Unlocked(t)
      BY <2>3 DEF Serve
    <3>2. Idle \in Threads
      BY DEF Idle, Threads, Side
    <3>3. /\ th' \in [Thread -> Threads] /\ th'[t].at = "idle"
          /\ \A v \in Thread \ {t} : th'[v] = th[v]
      BY <1>0, <3>1, <3>2 DEF LocksTyped, Idle
    <3>4. /\ lock' \in [Pair -> Thread \cup {Nobody}]
          /\ \A p \in Pair : lock'[p] = IF lock[p] = t THEN Nobody ELSE lock[p]
      BY <1>0, <3>1 DEF Unlocked, LocksTyped
    <3>5. Nobody # t
      BY DEF Nobody, Side
    <3> QED BY <3>3, <3>4, <3>5 DEF Moves, LocksTyped
  <2>4. CASE Fail(t)
    <3>1. StartClose(t, th) /\ th[t].at = "handle" /\ th[t].pair \in Pair
      BY <1>0, <2>4 DEF Fail, Placed
    <3> QED BY <1>0, <1>1, <3>1, StartCloseMoves
  <2> QED BY <2>1, <2>2, <2>3, <2>4 DEF Reading
<1>5. Placed'
  BY <1>0, <1>2, <1>4, MovesKeepPlaced
<1>6. TypeOK'
  BY <1>3, <1>4 DEF Moves, TypeOK, RestTyped, LocksTyped, Items, Item
<1> QED BY <1>4, <1>5, <1>6 DEF Step

\* The steps that look for idle pairs keep the types and move one thread only.
LEMMA IdleSteps ==
    ASSUME TypeInv, LocksGivenBack, FindIdle \/ CloseIdle
    PROVE  Step("timer")
<1> DEFINE t == "timer"
<1> USE DEF TypeInv
<1>0. RestTyped /\ LocksTyped /\ t \in Thread /\ t # "accept"
  BY TypesSplit DEF Thread
<1>1. \A p \in Pair : lock[p] = t => th[t].pair = p
  BY <1>0 DEF LocksGivenBack, Nobody, Thread, Side
<1>2. UNCHANGED <<stored, active, free, item, openFd, reg>> /\ Watched
  BY DEF FindIdle, CloseIdle, mgr
<1>3. RestTyped'
  BY <1>0, <1>2, WatchedTyped DEF RestTyped
<1>4. Moves(t) /\ (th'[t].at \notin {"idle", "add"} => th'[t].pair \in Pair)
  <2>1. CASE FindIdle
    <3>1. PICK p \in active : th' = [th EXCEPT ![t] =
                  [Idle EXCEPT !.at = "idlePair", !.pair = p]]
      BY <2>1 DEF FindIdle
    <3>2. p \in Pair /\ th[t].at = "idle" /\ lock' = lock
      BY <1>0, <2>1, <3>1 DEF RestTyped, FindIdle, Begins
    <3>3. [Idle EXCEPT !.at = "idlePair", !.pair = p] \in Threads
      BY <3>2 DEF Idle, Threads, Side
    <3>4. /\ th' \in [Thread -> Threads] /\ th'[t].pair = p
          /\ \A v \in Thread \ {t} : th'[v] = th[v]
      BY <1>0, <3>1, <3>3 DEF LocksTyped, Idle
    <3> QED BY <1>0, <3>2, <3>4, GotoMoves DEF Holding
  <2>2. CASE CloseIdle
    <3>1. StartClose(t, th) /\ th[t].at = "idlePair" /\ th[t].pair \in Pair
      BY <1>0, <2>2 DEF CloseIdle, Placed
    <3> QED BY <1>0, <1>1, <3>1, StartCloseMoves
  <2> QED BY <2>1, <2>2
<1>5. Placed'
  BY <1>0, <1>2, <1>4, MovesKeepPlaced
<1>6. TypeOK'
  BY <1>3, <1>4 DEF Moves, TypeOK, RestTyped, LocksTyped, Items, Item
<1> QED BY <1>4, <1>5, <1>6 DEF Step

\* The steps that accept a connection keep the types and move one thread only.
LEMMA AcceptingSteps ==
    ASSUME TypeInv, LocksGivenBack, Accept \/ Accepting
    PROVE  Step("accept")
<1> DEFINE t == "accept"
           x == th[t]
<1> USE DEF TypeInv
<1>0. RestTyped /\ LocksTyped /\ t \in Thread /\ x \in Threads
  BY TypesSplit DEF Thread, LocksTyped
<1>1. \A p \in Pair : lock[p] = t => x.pair = p
  BY <1>0 DEF LocksGivenBack, Nobody, Thread, Side
<1>2. x.at \in {"add", "attach", "bind", "bound"} => x.fd \in Fd
  BY DEF Placed
<1>3. x.at \notin {"idle", "add"} => x.pair \in Pair
  BY <1>0 DEF Placed
<1>4. ASSUME Moves(t), RestTyped',
             th'[t].at \notin {"idle", "add"} => th'[t].pair \in Pair,
             th'[t].at = "add" => stored' < MaxPairs,
             th'[t].at \in {"add", "attach", "bind", "bound"} => th'[t].fd \in Fd
      PROVE  Step(t)
  <2>1. Placed'
    BY <1>0, <1>4, MovesKeepPlaced
  <2> QED BY <1>4, <2>1 DEF Step, Moves, TypeOK, RestTyped, LocksTyped, Items, Item
<1>5. ASSUME NEW y \in Threads, th' = [th EXCEPT ![t] = y], lock' = lock,
             \/ x.at \notin Holding
             \/ y.pair = x.pair /\ y.at \in Holding
      PROVE  Moves(t) /\ th'[t] = y
  <2>1. /\ th' \in [Thread -> Threads] /\ th'[t] = y
        /\ \A v \in Thread \ {t} : th'[v] = th[v]
    BY <1>0, <1>5 DEF LocksTyped
  <2> QED BY <1>0, <1>5, <2>1, GotoMoves
<1>6. openFd # Fd => NewFd \in Fd
  <2>1. Fd \in SUBSET Nat
    BY EngineAssumption DEF Fd
  <2>2. openFd # Fd => Fd \ openFd # {} /\ Fd \ openFd \in SUBSET Nat
    BY <1>0, <2>1 DEF RestTyped
  <2>3. openFd # Fd => Min(Fd \ openFd) \in Fd \ openFd
    BY <2>2, MinIsLeast
  <2> QED BY <2>3 DEF NewFd
<1>7. Idle \in Threads /\ Idle.at = "idle"
  BY DEF Idle, Threads, Side
<1>8. CASE Accept
  <2>0. /\ x.at = "idle" /\ NewFd \in Fd /\ openFd' = openFd \cup {NewFd}
        /\ UNCHANGED <<stored, item, reg, lock>> /\ Watched
    BY <1>6, <1>8 DEF Accept, Begins
  <2>1. CASE free # <<>>
    <3>1. /\ active' = active \cup {Head(free)} /\ free' = Tail(free)
          /\ th' = [th EXCEPT ![t] =
               [Idle EXCEPT !.at = "attach", !.pair = Head(free), !.fd = NewFd]]
      BY <1>8, <2>1 DEF Accept
    <3>2. Head(free) \in Pair /\ Tail(free) \in Seq(Pair)
      BY <1>0, <2>1, HeadTailProperties DEF RestTyped
    <3> DEFINE y == [Idle EXCEPT !.at = "attach", !.pair = Head(free), !.fd = NewFd]
    <3>3. y \in Threads /\ y.at = "attach" /\ y.pair = Head(free) /\ y.fd = NewFd
      BY <2>0, <3>2 DEF Idle, Threads, Side
    <3>4. RestTyped'
      BY <1>0, <2>0, <3>1, <3>2, WatchedTyped DEF RestTyped
    <3> HIDE DEF y
    <3>5. Moves(t) /\ th'[t] = y
      BY <1>5, <2>0, <3>1, <3>3 DEF Holding, y
    <3> QED BY <1>4, <2>0, <3>2, <3>3, <3>4, <3>5
  <2>2. CASE free = <<>>
    <3>1. /\ stored < MaxPairs /\ active' = active /\ free' = free
          /\ th' = [th EXCEPT ![t] = [Idle EXCEPT !.at = "add", !.fd = NewFd]]
      BY <1>8, <2>2 DEF Accept
    <3> DEFINE y == [Idle EXCEPT !.at = "add", !.fd = NewFd]
    <3>2. y \in Threads /\ y.at = "add" /\ y.fd = NewFd
      BY <2>0 DEF Idle, Threads, Side
    <3>3. RestTyped'
      BY <1>0, <2>0, <3>1, WatchedTyped DEF RestTyped
    <3> HIDE DEF y
    <3>4. Moves(t) /\ th'[t] = y
      BY <1>5, <2>0, <3>1, <3>2 DEF Holding, y
    <3> QED BY <1>4, <2>0, <3>1, <3>2, <3>3, <3>4
  <2> QED BY <2>1, <2>2
<1>9. CASE AddItem
  <2>0. /\ x.at = "add" /\ stored' = stored + 1
        /\ active' = active \cup {stored + 1}
        /\ th' = [th EXCEPT ![t].at = "attach", ![t].pair = stored + 1]
        /\ UNCHANGED <<free, item, openFd, reg, lock>> /\ Watched
    BY <1>9 DEF AddItem
  <2>1. stored + 1 \in Pair /\ stored + 1 \in 0..MaxPairs
    BY <1>0, <2>0, EngineAssumption DEF Placed, RestTyped, Pair
  <2> DEFINE y == [x EXCEPT !.at = "attach", !.pair = stored + 1]
  <2>2. y \in Threads /\ y.at = "attach" /\ y.pair = stored + 1 /\ y.fd = x.fd
    BY <1>0, <2>1 DEF Threads
  <2>3. th' = [th EXCEPT ![t] = y]
    BY <1>0, <2>0 DEF LocksTyped, Threads
  <2>4. RestTyped'
    BY <1>0, <2>0, <2>1, WatchedTyped DEF RestTyped
  <2> HIDE DEF y
  <2>5. Moves(t) /\ th'[t] = y
    BY <1>5, <2>0, <2>2, <2>3 DEF Holding
  <2> QED BY <1>2, <1>4, <2>0, <2>1, <2>2, <2>4, <2>5
<1>10. CASE Attach
  <2>0. /\ x.at = "attach"
        /\ item' = [item EXCEPT ![x.pair]["client"] = [open |-> TRUE, sock |-> x.fd]]
        /\ th' = [th EXCEPT ![t].at = "connect", ![t].fd = NoFd]
        /\ UNCHANGED <<stored, active, free, openFd, reg, lock>> /\ Watched
    BY <1>10 DEF Attach, mgr
  <2>1. [open |-> TRUE, sock |-> x.fd] \in Item
    BY <1>2, <2>0 DEF Item
  <2>2. item' \in Items
    BY <1>0, <2>0, <2>1, ItemsTyped DEF RestTyped
  <2> DEFINE y == [x EXCEPT !.at = "connect", !.fd = NoFd]
  <2>3. y \in Threads /\ y.at = "connect" /\ y.pair = x.pair
    BY <1>0 DEF Threads
  <2>4. th' = [th EXCEPT ![t] = y]
    BY <1>0, <2>0 DEF LocksTyped, Threads
  <2>5. RestTyped'
    BY <1>0, <2>0, <2>2, WatchedTyped DEF RestTyped
  <2> HIDE DEF y
  <2>6. Moves(t) /\ th'[t] = y
    BY <1>5, <2>0, <2>3, <2>4 DEF Holding
  <2> QED BY <1>3, <1>4, <2>0, <2>3, <2>5, <2>6
<1>11. CASE NoSocket
  <2>0. /\ x.at = "connect"
        /\ th' = [th EXCEPT ![t].at = "toFree", ![t].only = TRUE]
        /\ UNCHANGED <<stored, active, free, item, openFd, reg, lock>> /\ Watched
    BY <1>11 DEF NoSocket, mgr
  <2> DEFINE y == [x EXCEPT !.at = "toFree", !.only = TRUE]
  <2>1. y \in Threads /\ y.at = "toFree" /\ y.pair = x.pair
    BY <1>0 DEF Threads
  <2>2. th' = [th EXCEPT ![t] = y]
    BY <1>0, <2>0 DEF LocksTyped, Threads
  <2>3. RestTyped'
    BY <1>0, <2>0, WatchedTyped DEF RestTyped
  <2> HIDE DEF y
  <2>4. Moves(t) /\ th'[t] = y
    BY <1>5, <2>0, <2>1, <2>2 DEF Holding
  <2> QED BY <1>3, <1>4, <2>0, <2>1, <2>3, <2>4
<1>12. CASE ConnectFails
  <2>0. /\ x.at = "connect" /\ StartClose(t, th)
        /\ UNCHANGED <<stored, active, free, item, openFd, reg>> /\ Watched
    BY <1>12 DEF ConnectFails, mgr
  <2>1. RestTyped'
    BY <1>0, <2>0, WatchedTyped DEF RestTyped
  <2>2. /\ Moves(t) /\ th'[t].at \in {"idle", "toFree"}
        /\ th'[t].at = "toFree" => th'[t].pair = x.pair
    BY <1>0, <1>1, <2>0, StartCloseMoves
  <2> QED BY <1>3, <1>4, <2>0, <2>1, <2>2
<1>13. CASE Connect
  <2>0. /\ x.at = "connect" /\ openFd' = openFd \cup {NewFd} /\ NewFd \in Fd
        /\ th' = [th EXCEPT ![t].at = "bind", ![t].fd = NewFd]
        /\ UNCHANGED <<stored, active, free, item, reg, lock>> /\ Watched
    BY <1>6, <1>13 DEF Connect, mgr
  <2> DEFINE y == [x EXCEPT !.at = "bind", !.fd = NewFd]
  <2>1. y \in Threads /\ y.at = "bind" /\ y.pair = x.pair /\ y.fd = NewFd
    BY <1>0, <2>0 DEF Threads
  <2>2. th' = [th EXCEPT ![t] = y]
    BY <1>0, <2>0 DEF LocksTyped, Threads
  <2>3. RestTyped'
    BY <1>0, <2>0, WatchedTyped DEF RestTyped
  <2> HIDE DEF y
  <2>4. Moves(t) /\ th'[t] = y
    BY <1>5, <2>0, <2>1, <2>2 DEF Holding
  <2> QED BY <1>3, <1>4, <2>0, <2>1, <2>3, <2>4
<1>14. CASE BindLock
  <2>0. /\ x.at = "bind" /\ x.pair \in Pair
        /\ th' = [th EXCEPT ![t].at = "bound"]
        /\ lock' = [lock EXCEPT ![x.pair] = t]
        /\ UNCHANGED <<stored, active, free, item, openFd, reg>> /\ Watched
    BY <1>3, <1>14 DEF BindLock, mgr
  <2>1. /\ th' \in [Thread -> Threads] /\ th'[t].at = "bound"
        /\ th'[t].pair = x.pair /\ th'[t].fd = x.fd
        /\ \A v \in Thread \ {t} : th'[v] = th[v]
    BY <1>0, <2>0 DEF LocksTyped, Threads
  <2>2. \A p \in Pair : lock[p] # t
    BY <1>0, <2>0 DEF LocksGivenBack, Nobody, Thread, Side
  <2>3. /\ lock' \in [Pair -> Thread \cup {Nobody}]
        /\ \A p \in Pair : lock'[p] = IF p = x.pair THEN t ELSE lock[p]
    BY <1>0, <2>0 DEF LocksTyped
  <2>4. Moves(t)
    BY <2>0, <2>1, <2>2, <2>3 DEF Moves, LocksTyped, Holding
  <2>5. RestTyped'
    BY <1>0, <2>0, WatchedTyped DEF RestTyped
  <2> QED BY <1>2, <1>4, <2>0, <2>1, <2>4, <2>5
<1>15. CASE BindGone
  <2>0. /\ x.at = "bound" /\ StartClose(t, th)
        /\ openFd' = openFd \ {x.fd}
        /\ reg' = [s \in Side |-> {e \in reg[s] : e.fd # x.fd}]
        /\ UNCHANGED <<stored, active, free, item>> /\ Watched
    BY <1>15 DEF BindGone, Shut, mgr
  <2>1. RestTyped'
    BY <1>0, <2>0, WatchedTyped DEF RestTyped
  <2>2. /\ Moves(t) /\ th'[t].at \in {"idle", "toFree"}
        /\ th'[t].at = "toFree" => th'[t].pair = x.pair
    BY <1>0, <1>1, <2>0, StartCloseMoves
  <2> QED BY <1>3, <1>4, <2>0, <2>1, <2>2
<1>16. CASE Bind
  <2> DEFINE fd == item[x.pair]["client"].sock
  <2>0. /\ x.at = "bound" /\ x.pair \in Pair /\ x.fd \in Fd
        /\ item' = [item EXCEPT ![x.pair]["forward"] = [open |-> TRUE, sock |-> x.fd]]
        /\ UNCHANGED <<stored, active, free, openFd>> /\ Watched
    BY <1>2, <1>3, <1>16 DEF Bind, mgr
  <2>1. item' \in Items
    <3>1. [open |-> TRUE, sock |-> x.fd] \in Item
      BY <2>0 DEF Item
    <3> QED BY <1>0, <2>0, <3>1, ItemsTyped DEF RestTyped
  <2>2. CASE fd \in openFd
    <3>1. /\ reg' = [reg EXCEPT
                  !["client"] = @ \cup {[fd |-> fd, pair |-> x.pair]},
                  !["forward"] = @ \cup {[fd |-> x.fd, pair |-> x.pair]}]
          /\ th' = [th EXCEPT ![t] = Idle] /\ lock' = Unlocked(t)
      BY <1>16, <2>2 DEF Bind
    <3>2. fd \in Fd
      BY <1>0, <2>2 DEF RestTyped
    <3>3. reg' \in [Side -> SUBSET [fd : Fd, pair : Pair]]
      <4> HIDE DEF fd
      <4>1. {[fd |-> fd, pair |-> x.pair], [fd |-> x.fd, pair |-> x.pair]}
              \subseteq [fd : Fd, pair : Pair]
        BY <2>0, <3>2
      <4> QED BY <1>0, <3>1, <4>1 DEF RestTyped, Side
    <3>4. /\ th' \in [Thread -> Threads] /\ th'[t].at = "idle"
          /\ \A v \in Thread \ {t} : th'[v] = th[v]
      BY <1>0, <1>7, <3>1 DEF LocksTyped
    <3>5. /\ lock' \in [Pair -> Thread \cup {Nobody}]
          /\ \A p \in Pair : lock'[p] = IF lock[p] = t THEN Nobody ELSE lock[p]
      BY <1>0, <3>1 DEF Unlocked, LocksTyped
    <3>6. Moves(t)
      BY <3>4, <3>5 DEF Moves, LocksTyped, Nobody
    <3>7. RestTyped'
      BY <1>0, <2>0, <2>1, <3>3, WatchedTyped DEF RestTyped
    <3> QED BY <1>4, <3>4, <3>6, <3>7
  <2>3. CASE fd \notin openFd
    <3>1. StartClose(t, th) /\ reg' = reg
      BY <1>16, <2>3 DEF Bind
    <3>2. /\ Moves(t) /\ th'[t].at \in {"idle", "toFree"}
          /\ th'[t].at = "toFree" => th'[t].pair = x.pair
      BY <1>0, <1>1, <3>1, StartCloseMoves
    <3>3. RestTyped'
      BY <1>0, <2>0, <2>1, <3>1, WatchedTyped DEF RestTyped
    <3> QED BY <1>4, <2>0, <3>2, <3>3
  <2> QED BY <2>2, <2>3
<1> QED BY <1>8, <1>9, <1>10, <1>11, <1>12, <1>13, <1>14, <1>15, <1>16 DEF Accepting

-----------------------------------------------------------------------------

LocksInv == TypeInv /\ LocksGivenBack

\* At first the types hold and no lock is held.
LEMMA LocksInit == Init => LocksInv
<1> SUFFICES ASSUME Init PROVE LocksInv
  OBVIOUS
<1>1. Idle \in Threads /\ Closed \in Item /\ Idle.at = "idle"
  BY DEF Idle, Threads, Side, Closed, Item
<1>2. LocksTyped
  BY <1>1 DEF Init, LocksTyped
<1>3. RestTyped
  <2>1. free \in Seq(Pair) /\ stored \in 0..MaxPairs
    BY EmptySeq, EngineAssumption DEF Init
  <2> QED BY <1>1, <2>1 DEF Init, RestTyped, Items
<1>4. Placed
  BY <1>1 DEF Init, Placed, Thread
<1>5. LocksGivenBack
  BY DEF Init, LocksGivenBack
<1> QED BY <1>2, <1>3, <1>4, <1>5, TypesSplit DEF LocksInv, TypeInv

\* Every step keeps LocksInv.
LEMMA LocksNext == LocksInv /\ [Next]_vars => LocksInv'
<1> SUFFICES ASSUME LocksInv, [Next]_vars PROVE LocksInv'
  OBVIOUS
<1>1. ASSUME NEW t \in Thread, Step(t) PROVE LocksInv'
  BY <1>1, MovesKeepLocks DEF Step, LocksInv, TypeInv, TypeOK
<1>2. {"timer", "accept"} \cup Side \subseteq Thread
  BY DEF Thread
<1>3. ASSUME NEW t \in Thread, Closing(t) PROVE LocksInv'
  BY <1>1, <1>3, ClosingSteps DEF LocksInv
<1>4. ASSUME NEW t \in Side, Reading(t) PROVE LocksInv'
  BY <1>1, <1>2, <1>4, ReadingSteps DEF LocksInv
<1>5. CASE FindIdle \/ CloseIdle
  BY <1>1, <1>2, <1>5, IdleSteps DEF LocksInv
<1>6. CASE Accept \/ Accepting
  BY <1>1, <1>2, <1>6, AcceptingSteps DEF LocksInv
<1>7. CASE UNCHANGED vars
  BY <1>7 DEF LocksInv, TypeInv, TypeOK, Placed, LocksGivenBack, vars
<1> QED BY <1>3, <1>4, <1>5, <1>6, <1>7 DEF Next

\* The variables keep their types: no descriptor and no pair is out of range,
\* whatever is closed and made again.
THEOREM TypeCorrect == Spec => []TypeOK
<1>1. LocksInv => TypeOK
  BY DEF LocksInv, TypeInv
<1> QED BY <1>1, LocksInit, LocksNext, PTL DEF Spec

\* A mutex that is held is held by a thread that is at work on that pair and
\* will give it back (forward_lock, forward_unlock): none is left locked by a
\* bind or an event that failed.
THEOREM LocksGivenBackHolds == Spec => []LocksGivenBack
<1>1. LocksInv => LocksGivenBack
  BY DEF LocksInv
<1> QED BY <1>1, LocksInit, LocksNext, PTL DEF Spec

-----------------------------------------------------------------------------
(* The sockets, as long as no two threads have been at work on one pair. *)

\* The accepting thread has a pair in its hands.
OnPair(p) == th["accept"].at \notin {"idle", "add"} /\ th["accept"].pair = p

\* A thread has taken the pair out of the map and not closed all of it yet.
Closers == {"partner", "partnerResume", "own", "ownResume"}
Settled(p) == \A t \in Thread : th[t].pair = p => th[t].at \notin Closers

\* An epoll watches one of the sockets of the pair.
Noticed(p) == \E s \in Side : \E e \in reg[s] : e.pair = p

\* An open item has a descriptor that is open and that no other open item has,
\* nor the accepting thread in its hands; and only open items are watched.
FdsApart ==
    /\ \A p \in Pair, s \in Side : item[p][s].open => item[p][s].sock \in openFd
    /\ \A p, q \in Pair, r, s \in Side :
         item[p][r].open /\ item[q][s].open /\ item[p][r].sock = item[q][s].sock
           => p = q /\ r = s
    /\ \A s \in Side : \A e \in reg[s] :
         item[e.pair][s].open /\ item[e.pair][s].sock = e.fd
    /\ th["accept"].at \in {"add", "attach", "bind", "bound"} =>
         /\ th["accept"].fd \in openFd
         /\ \A p \in Pair, s \in Side :
              item[p][s].open => item[p][s].sock # th["accept"].fd

\* Nobody has reset the item a thread is to close; the accepting thread alone
\* closes half a pair, and the game server's side is its own thread's.
ThreadOK(t) ==
    /\ th[t].same
    /\ th[t].only => t = "accept" /\ th[t].at \in Closers \cup {"toFree"}
    /\ t # "forward" => th[t].side = "client"
    /\ t = "forward" /\ th[t].at # "idle" => th[t].side = "forward"

\* What a thread is to close is open, and a new connection's pair is in the map.
Begun(p) ==
    /\ \A t \in Thread : th[t].pair = p /\ th[t].at = "toFree" /\ ~ th[t].only =>
         item[p][th[t].side].open
    /\ th["accept"].at = "attach" /\ th["accept"].pair = p => p \in active

\* A closed item has no descriptor, but for the moment after it was closed.
Reset(p) ==
    \A s \in Side :
      \/ item[p][s].open
      \/ item[p][s].sock = NoFd
      \/ \E t \in Thread : th[t].pair = p /\
           \/ th[t].at = "partnerResume" /\ th[t].side = Other(s)
           \/ th[t].at = "ownResume" /\ th[t].side = s

\* How far the closing of a pair has come
HalfClosed(p) ==
    \A t \in Thread : th[t].pair = p /\ th[t].at \in Closers =>
      /\ p \notin active
      /\ item[p][th[t].side].open <=> th[t].at # "ownResume"
      /\ th[t].at # "partner" => ~ item[p][Other(th[t].side)].open /\ ~ Noticed(p)

\* A pair that nobody is closing: out of the map it has no game server; while the
\* accepting thread connects it has none yet, and a client only if it is in the
\* map; otherwise it has both, and both are watched.
Whole(p) ==
    Settled(p) =>
      /\ p \notin active => ~ Noticed(p) /\ ~ item[p]["forward"].open
      /\ OnPair(p) => ~ item[p]["forward"].open /\ ~ Noticed(p)
      /\ OnPair(p) /\ th["accept"].at # "attach" =>
           (item[p]["client"].open <=> p \in active)
      /\ p \in active /\ ~ OnPair(p) =>
           \A s \in Side : /\ item[p][s].open
                           /\ [fd |-> item[p][s].sock, pair |-> p] \in reg[s]

PairOK(p) == Begun(p) /\ Reset(p) /\ HalfClosed(p) /\ Whole(p)

Connected ==
    /\ FdsApart
    /\ \A t \in Thread : ThreadOK(t)
    /\ \A p \in Pair : PairOK(p)

SocketInv == ~ overlap => ~ Meet /\ Connected

\* What a step of a connection's thread starts from
Before == LocksInv /\ PairInv /\ ~ Meet /\ Connected

\* Nothing about a pair changes that no thread which moves is at.
LEMMA ElsewhereKept ==
    ASSUME NEW t \in Thread, NEW q \in Pair, PairOK(q),
           \A v \in Thread \ {t} : th'[v] = th[v],
           th[t].at \in {"idle", "add"} \/ th[t].pair # q,
           th'[t].at \in {"idle", "add"} \/ th'[t].pair # q,
           item'[q] = item[q], q \in active' <=> q \in active,
           \A s \in Side : \A e : e.pair = q => (e \in reg'[s] <=> e \in reg[s])
    PROVE  PairOK(q)'
<1>0. "accept" \in Thread
  BY DEF Thread
<1>1. Noticed(q)' <=> Noticed(q)
  BY DEF Noticed
<1>2. OnPair(q)' <=> OnPair(q)
  BY <1>0 DEF OnPair
<1>3. Settled(q)' <=> Settled(q)
  BY DEF Settled, Closers
<1>4. Begun(q)'
  BY <1>0 DEF Begun, PairOK
<1>5. Reset(q)'
  <2> SUFFICES ASSUME NEW s \in Side, ~ item'[q][s].open, item'[q][s].sock # NoFd
               PROVE  \E v \in Thread : th'[v].pair = q /\
                        \/ th'[v].at = "partnerResume" /\ th'[v].side = Other(s)
                        \/ th'[v].at = "ownResume" /\ th'[v].side = s
    BY DEF Reset
  <2>1. PICK v \in Thread : th[v].pair = q /\
                        \/ th[v].at = "partnerResume" /\ th[v].side = Other(s)
                        \/ th[v].at = "ownResume" /\ th[v].side = s
    BY DEF PairOK, Reset
  <2>2. v # t
    BY <2>1
  <2> QED BY <2>1, <2>2
<1>6. HalfClosed(q)'
  BY <1>1 DEF HalfClosed, PairOK, Closers
<1>7. Whole(q)'
  <2> SUFFICES ASSUME Settled(q)' PROVE Whole(q)'
    BY DEF Whole
  <2>1. \A s \in Side : /\ item'[q][s].open <=> item[q][s].open
                        /\ item'[q][s].sock = item[q][s].sock
    OBVIOUS
  <2>2. \A s \in Side : [fd |-> item[q][s].sock, pair |-> q] \in reg[s]
                          => [fd |-> item'[q][s].sock, pair |-> q] \in reg'[s]
    <3> TAKE s \in Side
    <3> DEFINE e == [fd |-> item[q][s].sock, pair |-> q]
    <3>1. e.pair = q
      OBVIOUS
    <3> HIDE DEF e
    <3>2. e \in reg'[s] <=> e \in reg[s]
      BY <3>1
    <3> QED BY <2>1, <3>2 DEF e
  <2>3. OnPair(q) => th'["accept"] = th["accept"]
    BY <1>0 DEF OnPair
  <2>4. Settled(q)
    BY <1>3
  <2>5. Whole(q)
    BY DEF PairOK
  <2> QED BY <1>1, <1>2, <2>1, <2>2, <2>3, <2>4, <2>5 DEF Whole, Side
<1> QED BY <1>4, <1>5, <1>6, <1>7 DEF PairOK

\* A step of one thread at one pair is judged by that thread and that pair.
LEMMA OneThreadOnePair ==
    ASSUME Connected, NEW t \in Thread, NEW p,
           FdsApart', ThreadOK(t)', p \in Pair => PairOK(p)',
           \A v \in Thread \ {t} : th'[v] = th[v],
           th[t].at \in {"idle", "add"} \/ th[t].pair = p,
           th'[t].at \in {"idle", "add"} \/ th'[t].pair = p,
           \A q \in Pair \ {p} : /\ item'[q] = item[q]
                                 /\ q \in active' <=> q \in active
                                 /\ \A s \in Side : \A e : e.pair = q =>
                                      (e \in reg'[s] <=> e \in reg[s])
    PROVE  Connected'
<1>1. \A v \in Thread : ThreadOK(v)'
  BY DEF ThreadOK, Connected
<1>2. ASSUME NEW q \in Pair PROVE PairOK(q)'
  <2>1. CASE q = p
    BY <2>1
  <2>2. CASE q # p
    BY <2>2, ElsewhereKept DEF Connected
  <2> QED BY <2>1, <2>2
<1> QED BY <1>1, <1>2 DEF Connected

\* A thread that is not closing goes on without changing a socket or what is
\* watched; the accepting thread keeps the pair it has.
LEMMA PairsGoOn ==
    ASSUME Before, NEW t \in Thread, NEW y \in Threads,
           th' = [th EXCEPT ![t] = y], UNCHANGED <<active, item, reg>>,
           th[t].at \notin Closers, y.at \notin Closers,
           y.at = "toFree" /\ ~ y.only => item[y.pair][y.side].open,
           t = "accept" => /\ th[t].at \in {"connect", "bind", "bound"}
                           /\ y.at \in {"bind", "bound", "toFree"}
                           /\ th[t].pair = y.pair,
           NEW p \in Pair
    PROVE  PairOK(p)'
<1>1. /\ th'[t] = y /\ \A v \in Thread \ {t} : th'[v] = th[v]
      /\ "accept" \in Thread
  BY DEF Before, LocksInv, TypeInv, TypeOK, Thread
<1>2. PairOK(p)
  BY DEF Before, Connected
<1>3. Noticed(p)' <=> Noticed(p)
  BY DEF Noticed
<1>4. Settled(p)' <=> Settled(p)
  BY <1>1 DEF Settled
<1>5. OnPair(p)' <=> OnPair(p)
  BY <1>1 DEF OnPair
<1>6. Begun(p)'
  BY <1>1, <1>2 DEF Begun, PairOK
<1>7. Reset(p)'
  <2> SUFFICES ASSUME NEW s \in Side, ~ item[p][s].open, item[p][s].sock # NoFd
               PROVE  \E v \in Thread : th'[v].pair = p /\
                        \/ th'[v].at = "partnerResume" /\ th'[v].side = Other(s)
                        \/ th'[v].at = "ownResume" /\ th'[v].side = s
    BY DEF Reset
  <2>1. PICK v \in Thread : th[v].pair = p /\
                        \/ th[v].at = "partnerResume" /\ th[v].side = Other(s)
                        \/ th[v].at = "ownResume" /\ th[v].side = s
    BY <1>2 DEF PairOK, Reset
  <2>2. v # t
    BY <2>1 DEF Closers
  <2> QED BY <1>1, <2>1, <2>2
<1>8. HalfClosed(p)'
  BY <1>1, <1>2, <1>3 DEF HalfClosed, PairOK
<1>9. Whole(p)'
  <2>1. th["accept"].at = "attach" => th'["accept"].at = "attach"
    BY <1>1
  <2> QED BY <1>2, <1>3, <1>4, <1>5, <2>1 DEF Whole, PairOK
<1> QED BY <1>6, <1>7, <1>8, <1>9 DEF PairOK

\* ... and no descriptor.
LEMMA GoesOn ==
    ASSUME Before, NEW t \in Thread, NEW y \in Threads,
           th' = [th EXCEPT ![t] = y], UNCHANGED <<active, item, openFd, reg>>,
           th[t].at \notin Closers, y.at \notin Closers,
           y.at = "toFree" /\ ~ y.only => item[y.pair][y.side].open,
           t = "accept" => /\ th[t].at \in {"connect", "bind", "bound"}
                           /\ y.at \in {"bind", "bound", "toFree"}
                           /\ th[t].pair = y.pair
                           /\ y.at \in {"bind", "bound"} =>
                                th[t].at = "bind" /\ y.fd = th[t].fd,
           y.same, y.only => t = "accept" /\ y.at = "toFree", t # "forward" => y.side = "client",
           t = "forward" /\ y.at # "idle" => y.side = "forward"
    PROVE  Connected'
<1>1. /\ th'[t] = y /\ \A v \in Thread \ {t} : th'[v] = th[v]
      /\ "accept" \in Thread
  BY DEF Before, LocksInv, TypeInv, TypeOK, Thread
<1>2. \A v \in Thread : ThreadOK(v)'
  BY <1>1 DEF ThreadOK, Before, Connected
<1>3. FdsApart'
  <2>1. /\ th'["accept"].at \in {"add", "attach", "bind", "bound"} =>
             th["accept"].at \in {"add", "attach", "bind", "bound"}
        /\ th'["accept"].at \in {"add", "attach", "bind", "bound"} =>
             th'["accept"].fd = th["accept"].fd
    BY <1>1
  <2> QED BY <2>1 DEF FdsApart, Before, Connected
<1>4. \A p \in Pair : PairOK(p)'
  BY PairsGoOn
<1> QED BY <1>2, <1>3, <1>4 DEF Connected

\* Where CloseSocket leaves the thread: the accepting thread still has its own
\* onEventClientShutdown to make, unless that is what has ended.
LEMMA FinishPlaces ==
    ASSUME th \in [Thread -> Threads], NEW t \in Thread, Finish(t, th)
    PROVE  \E y \in Threads :
             /\ th' = [th EXCEPT ![t] = y] /\ y.same /\ y.side = "client"
             /\ IF t = "accept" /\ ~ th[t].only
                THEN y.at = "toFree" /\ y.pair = th[t].pair /\ y.only
                ELSE y.at = "idle" /\ ~ y.only
<1>1. CASE t = "accept" /\ ~ th[t].only
  <2> DEFINE y == [Idle EXCEPT !.at = "toFree", !.pair = th[t].pair, !.only = TRUE]
  <2>1. /\ y \in Threads /\ y.at = "toFree" /\ y.pair = th[t].pair /\ y.only
        /\ y.same /\ y.side = "client"
    BY DEF Threads, Idle, Side, NoFd
  <2>2. th' = [th EXCEPT ![t] = y]
    BY <1>1 DEF Finish
  <2> HIDE DEF y
  <2> QED BY <1>1, <2>1, <2>2
<1>2. CASE ~ (t = "accept" /\ ~ th[t].only)
  <2>1. th' = [th EXCEPT ![t] = Idle]
    BY <1>2 DEF Finish
  <2>2. /\ Idle \in Threads /\ Idle.at = "idle" /\ ~ Idle.only
        /\ Idle.same /\ Idle.side = "client"
    BY DEF Threads, Idle, Side, NoFd
  <2> QED BY <1>2, <2>1, <2>2
<1> QED BY <1>1, <1>2

\* ... and where it begins.
LEMMA StartClosePlaces ==
    ASSUME Before, NEW t \in Thread, StartClose(t, th)
    PROVE  \E y \in Threads :
             /\ th' = [th EXCEPT ![t] = y] /\ y.same
             /\ \/ /\ item[th[t].pair][th[t].side].open
                   /\ y.at = "toFree" /\ y.pair = th[t].pair
                   /\ y.side = th[t].side /\ y.only = th[t].only
                \/ /\ ~ item[th[t].pair][th[t].side].open /\ y.side = "client"
                   /\ IF t = "accept" /\ ~ th[t].only
                      THEN y.at = "toFree" /\ y.pair = th[t].pair /\ y.only
                      ELSE y.at = "idle" /\ ~ y.only
<1>0. th \in [Thread -> Threads] /\ th[t] \in Threads /\ th[t].same
  BY DEF Before, LocksInv, TypeInv, TypeOK, Connected, ThreadOK
<1>1. CASE item[th[t].pair][th[t].side].open
  <2> DEFINE y == [th[t] EXCEPT !.at = "toFree", !.fd = NoFd]
  <2>1. /\ y \in Threads /\ y.at = "toFree" /\ y.pair = th[t].pair
        /\ y.same = th[t].same /\ y.side = th[t].side /\ y.only = th[t].only
    BY <1>0 DEF Threads, NoFd
  <2>2. th' = [th EXCEPT ![t] = y]
    BY <1>0, <1>1 DEF StartClose, Threads
  <2> HIDE DEF y
  <2> QED BY <1>0, <1>1, <2>1, <2>2
<1>2. CASE ~ item[th[t].pair][th[t].side].open
  <2>1. Finish(t, th)
    BY <1>2 DEF StartClose
  <2> QED BY <1>0, <1>2, <2>1, FinishPlaces
<1> QED BY <1>1, <1>2

\* The _usRountID that resumeData moves on is one that nobody noted.
LEMMA NobodyNoted ==
    ASSUME th \in [Thread -> Threads], NEW p, NEW s,
           \A u \in Thread : Noted(u) /\ th[u].pair = p => th[u].side # s
    PROVE  Resumed(p, s) = th
<1>1. Resumed(p, s) = [u \in Thread |-> th[u]]
  BY Zenon DEF Resumed
<1> QED BY <1>1

\* The reading threads
LEMMA ReadingConnected ==
    ASSUME Before, NEW t \in Side, Reading(t)
    PROVE  Connected'
<1>0. /\ th \in [Thread -> Threads] /\ t \in Thread /\ th[t] \in Threads
      /\ t # "accept" /\ ThreadOK(t)
  BY DEF Before, LocksInv, TypeInv, TypeOK, Connected, Thread, Side
<1>1. UNCHANGED <<active, item, openFd, reg>>
  BY DEF Reading, EpollWait, ForwardLock, Serve, Fail, mgr
<1>2. CASE EpollWait(t)
  <2>1. PICK e \in reg[t] : th' = [th EXCEPT ![t] =
                [Idle EXCEPT !.at = "event", !.pair = e.pair, !.side = t]]
    BY <1>2 DEF EpollWait
  <2>2. e.pair \in Pair /\ th[t].at = "idle"
    BY <1>2 DEF Before, LocksInv, TypeInv, TypeOK, EpollWait, Begins
  <2> DEFINE y == [Idle EXCEPT !.at = "event", !.pair = e.pair, !.side = t]
  <2>3. /\ y \in Threads /\ y.at = "event" /\ y.side = t /\ y.same /\ ~ y.only
        /\ t # "forward" => t = "client"
    BY <2>2 DEF Idle, Threads, Side
  <2>4. th' = [th EXCEPT ![t] = y]
    BY <2>1
  <2> HIDE DEF y
  <2> QED BY <1>0, <1>1, <2>2, <2>3, <2>4, GoesOn DEF Closers
<1>3. CASE ForwardLock(t)
  <2> DEFINE y == [th[t] EXCEPT !.at = "handle"]
  <2>1. /\ y \in Threads /\ y.at = "handle" /\ y.side = th[t].side
        /\ y.pair = th[t].pair /\ y.same = th[t].same /\ y.only = th[t].only
    BY <1>0 DEF Threads
  <2>2. th' = [th EXCEPT ![t] = y] /\ th[t].at = "event"
    BY <1>0, <1>3 DEF ForwardLock, Threads
  <2> HIDE DEF y
  <2> QED BY <1>0, <1>1, <2>1, <2>2, GoesOn DEF Closers, ThreadOK
<1>4. CASE Serve(t)
  <2>1. th' = [th EXCEPT ![t] = Idle] /\ th[t].at = "handle"
    BY <1>4 DEF Serve
  <2>2. /\ Idle \in Threads /\ Idle.at = "idle" /\ Idle.same /\ ~ Idle.only
        /\ Idle.side = "client"
    BY DEF Idle, Threads, Side
  <2> QED BY <1>0, <1>1, <2>1, <2>2, GoesOn DEF Closers
<1>5. CASE Fail(t)
  <2>1. StartClose(t, th) /\ th[t].at = "handle"
    BY <1>5 DEF Fail
  <2>2. PICK y \in Threads :
             /\ th' = [th EXCEPT ![t] = y] /\ y.same
             /\ \/ /\ item[th[t].pair][th[t].side].open
                   /\ y.at = "toFree" /\ y.pair = th[t].pair
                   /\ y.side = th[t].side /\ y.only = th[t].only
                \/ y.side = "client" /\ y.at = "idle" /\ ~ y.only
    BY <1>0, <2>1, StartClosePlaces
  <2> QED BY <1>0, <1>1, <2>1, <2>2, GoesOn DEF Closers, ThreadOK
<1> QED BY <1>2, <1>3, <1>4, <1>5 DEF Reading

\* The main thread
LEMMA IdleConnected ==
    ASSUME Before, FindIdle \/ CloseIdle
    PROVE  Connected'
<1> DEFINE t == "timer"
<1>0. /\ th \in [Thread -> Threads] /\ t \in Thread /\ th[t] \in Threads
      /\ t # "accept" /\ t # "forward" /\ ThreadOK(t)
  BY DEF Before, LocksInv, TypeInv, TypeOK, Connected, Thread, Side
<1>1. UNCHANGED <<active, item, openFd, reg>>
  BY DEF FindIdle, CloseIdle, mgr
<1>2. CASE FindIdle
  <2>1. PICK p \in active : th' = [th EXCEPT ![t] =
                [Idle EXCEPT !.at = "idlePair", !.pair = p]]
    BY <1>2 DEF FindIdle
  <2>2. p \in Pair /\ th[t].at = "idle"
    BY <1>2 DEF Before, LocksInv, TypeInv, TypeOK, FindIdle, Begins
  <2> DEFINE y == [Idle EXCEPT !.at = "idlePair", !.pair = p]
  <2>3. y \in Threads /\ y.at = "idlePair" /\ y.side = "client" /\ y.same /\ ~ y.only
    BY <2>2 DEF Idle, Threads, Side
  <2>4. th' = [th EXCEPT ![t] = y]
    BY <2>1
  <2> HIDE DEF y
  <2> QED BY <1>0, <1>1, <2>2, <2>3, <2>4, GoesOn DEF Closers
<1>3. CASE CloseIdle
  <2>1. StartClose(t, th) /\ th[t].at = "idlePair"
    BY <1>3 DEF CloseIdle
  <2> HIDE DEF t
  <2>2. PICK y \in Threads :
             /\ th' = [th EXCEPT ![t] = y] /\ y.same
             /\ \/ /\ item[th[t].pair][th[t].side].open
                   /\ y.at = "toFree" /\ y.pair = th[t].pair
                   /\ y.side = th[t].side /\ y.only = th[t].only
                \/ y.side = "client" /\ y.at = "idle" /\ ~ y.only
    BY <1>0, <2>1, StartClosePlaces
  <2> QED BY <1>0, <1>1, <2>1, <2>2, GoesOn DEF Closers, ThreadOK
<1> QED BY <1>2, <1>3

\* Two threads are not at work on a pair at once.
LEMMA AloneAtWork ==
    ASSUME NEW t \in Thread, AtWork(t), ~ Meet
    PROVE  \A v \in Thread \ {t} : th[v].pair = th[t].pair => ~ AtWork(v)
BY DEF Meet

\* A pair is taken out of the queue or made: nobody is at work on it, so it has
\* no game server yet.
LEMMA TakenConnected ==
    ASSUME Before, ~ Meet', NEW p \in Pair \ active, NEW y \in Threads,
           th["accept"].at \in {"idle", "add"},
           th' = [th EXCEPT !["accept"] = y], active' = active \cup {p},
           UNCHANGED <<item, reg>>,
           y.at = "attach", y.pair = p, y.same, ~ y.only, y.side = "client",
           FdsApart'
    PROVE  Connected'
<1> DEFINE t == "accept"
<1>1. /\ th'[t] = y /\ \A v \in Thread \ {t} : th'[v] = th[v]
      /\ t \in Thread
  BY DEF Before, LocksInv, TypeInv, TypeOK, Thread
<1>2. ThreadOK(t)'
  BY <1>1 DEF ThreadOK
<1>3. \A v \in Thread \ {t} : th[v].pair = p => ~ AtWork(v)
  <2>1. \A v \in Thread \ {t} : th'[v].pair = p /\ AtWork(v)' => Meet'
    BY <1>1 DEF Meet, AtWork
  <2> QED BY <1>1, <2>1 DEF AtWork
<1>4. Settled(p)
  BY <1>3 DEF Settled, AtWork, Closers
<1>5. PairOK(p) /\ ~ Noticed(p) /\ ~ item[p]["forward"].open
  BY <1>4 DEF Before, Connected, PairOK, Whole
<1>6. Begun(p)'
  BY <1>1, <1>3 DEF Begun, AtWork
<1>7. Reset(p)'
  BY <1>3, <1>4, <1>5 DEF Reset, PairOK, Settled, Closers
<1>8. HalfClosed(p)'
  BY <1>1, <1>3 DEF HalfClosed, AtWork, Closers
<1>9. Whole(p)'
  <2>1. ~ Noticed(p)' /\ OnPair(p)' /\ p \in active'
    BY <1>1, <1>5 DEF Noticed, OnPair
  <2> QED BY <1>1, <1>5, <2>1 DEF Whole
<1>10. PairOK(p)'
  BY <1>6, <1>7, <1>8, <1>9 DEF PairOK
<1>11. /\ th[t].at \in {"idle", "add"} /\ th'[t].pair = p /\ Connected
       /\ \A v \in Thread \ {t} : th'[v] = th[v]
       /\ \A q \in Pair \ {p} : item'[q] = item[q] /\ (q \in active' <=> q \in active)
       /\ reg' = reg
  BY <1>1 DEF Before
<1> HIDE DEF t
<1> QED BY <1>1, <1>2, <1>10, <1>11, OneThreadOnePair

\* Accepting a connection leaves every socket with whom it belongs to.
LEMMA AcceptConnected ==
    ASSUME Before, ~ Meet', Accept
    PROVE  Connected'
<1> DEFINE t == "accept"
<1>1. /\ th \in [Thread -> Threads] /\ t \in Thread /\ th[t].at = "idle"
      /\ Connected /\ openFd \subseteq Fd /\ free \in Seq(Pair)
  BY DEF Before, LocksInv, TypeInv, TypeOK, Thread, Accept, Begins
<1>2. /\ openFd' = openFd \cup {NewFd} /\ UNCHANGED <<item, reg>>
      /\ NewFd \in Fd \ openFd
  <2>1. Fd \in SUBSET Nat /\ openFd # Fd
    BY EngineAssumption DEF Fd, Accept
  <2>2. Fd \ openFd # {} /\ Fd \ openFd \in SUBSET Nat
    BY <1>1, <2>1
  <2>3. Min(Fd \ openFd) \in Fd \ openFd
    BY <2>2, MinIsLeast
  <2> QED BY <2>3 DEF Accept, NewFd
<1>3. ASSUME NEW y \in Threads, y.fd = NewFd, th' = [th EXCEPT ![t] = y]
      PROVE  FdsApart'
  <2>1. th'[t] = y
    BY <1>1, <1>3
  <2>2. FdsApart
    BY <1>1 DEF Connected
  <2>3. \A p \in Pair, s \in Side : item[p][s].open => item[p][s].sock \in openFd
    BY <2>2 DEF FdsApart
  <2>4. \A p \in Pair, s \in Side : item[p][s].open => item[p][s].sock # NewFd
    BY <1>2, <2>3
  <2> QED BY <1>2, <1>3, <2>1, <2>2, <2>4 DEF FdsApart
<1>4. CASE free # <<>>
  <2>1. /\ Head(free) \in Pair /\ Head(free) \notin active
    <3>1. Head(free) = free[1] /\ 1 \in 1..Len(free) /\ free[1] \in Pair
      BY <1>1, <1>4, HeadTailProperties, EmptySeq
    <3> QED BY <3>1 DEF Before, PairInv, PairsConserved, Queued
  <2> DEFINE y == [Idle EXCEPT !.at = "attach", !.pair = Head(free), !.fd = NewFd]
  <2>2. /\ y \in Threads /\ y.at = "attach" /\ y.pair = Head(free) /\ y.fd = NewFd
        /\ y.same /\ ~ y.only /\ y.side = "client"
    BY <1>2, <2>1 DEF Idle, Threads, Side
  <2>3. th' = [th EXCEPT ![t] = y] /\ active' = active \cup {Head(free)}
    BY <1>4 DEF Accept
  <2> HIDE DEF y
  <2>4. FdsApart'
    BY <1>3, <2>2, <2>3
  <2> QED BY <1>1, <1>2, <2>1, <2>2, <2>3, <2>4, TakenConnected
<1>5. CASE free = <<>>
  <2> DEFINE y == [Idle EXCEPT !.at = "add", !.fd = NewFd]
  <2>1. /\ y \in Threads /\ y.at = "add" /\ y.fd = NewFd
        /\ y.same /\ ~ y.only /\ y.side = "client"
    BY <1>2 DEF Idle, Threads, Side
  <2>2. th' = [th EXCEPT ![t] = y] /\ active' = active
    BY <1>5 DEF Accept
  <2> HIDE DEF y
  <2>3. FdsApart'
    BY <1>3, <2>1, <2>2
  <2>4. th'[t] = y /\ \A v \in Thread \ {t} : th'[v] = th[v]
    BY <1>1, <2>2
  <2>5. ThreadOK(t)'
    BY <2>1, <2>4 DEF ThreadOK
  <2>6. 0 \notin Pair
    BY DEF Pair
  <2> HIDE DEF t
  <2> QED BY <1>1, <1>2, <2>1, <2>2, <2>3, <2>4, <2>5, <2>6, OneThreadOnePair
<1> QED BY <1>4, <1>5

\* Storing a new pair leaves every socket with whom it belongs to.
LEMMA AddItemConnected ==
    ASSUME Before, ~ Meet', AddItem
    PROVE  Connected'
<1> DEFINE t == "accept"
           x == th[t]
           p == stored + 1
           y == [x EXCEPT !.at = "attach", !.pair = p]
<1>1. /\ th \in [Thread -> Threads] /\ t \in Thread /\ x \in Threads /\ x.at = "add"
      /\ Connected /\ ThreadOK(t)
  BY DEF Before, LocksInv, TypeInv, TypeOK, Thread, AddItem, Connected
<1>2. p \in Pair /\ p \notin active
  BY <1>1, EngineAssumption
     DEF Before, LocksInv, TypeInv, TypeOK, Placed, Pair, PairInv, PairsConserved
<1>3. /\ y \in Threads /\ y.at = "attach" /\ y.pair = p /\ y.fd = x.fd
      /\ y.same = x.same /\ y.only = x.only /\ y.side = x.side
  BY <1>1, <1>2 DEF Threads
<1>4. th' = [th EXCEPT ![t] = y]
  BY <1>1 DEF AddItem, Threads
<1>5. active' = active \cup {p} /\ UNCHANGED <<item, openFd, reg>>
  BY DEF AddItem
<1>6. x.same /\ ~ x.only /\ x.side = "client"
  BY <1>1 DEF ThreadOK, Closers
<1>7. FdsApart'
  <2>1. th'[t] = y
    BY <1>1, <1>4
  <2> HIDE DEF y
  <2> QED BY <1>1, <1>3, <1>5, <2>1 DEF Connected, FdsApart
<1> HIDE DEF p, y
<1> QED BY <1>1, <1>2, <1>3, <1>4, <1>5, <1>6, <1>7, TakenConnected

\* The client's item gets the descriptor the thread has in its hands.
LEMMA AttachConnected ==
    ASSUME Before, Attach
    PROVE  Connected'
<1> DEFINE t == "accept"
           x == th[t]
           y == [x EXCEPT !.at = "connect", !.fd = NoFd]
<1>1. /\ th \in [Thread -> Threads] /\ t \in Thread /\ x \in Threads /\ x.at = "attach"
      /\ Connected /\ ThreadOK(t) /\ x.pair \in Pair /\ item \in Items
  BY DEF Before, LocksInv, TypeInv, TypeOK, Thread, Attach, Connected, Placed, Items, Item
<1> PICK p \in Pair : p = x.pair
  BY <1>1
<1>2. /\ y \in Threads /\ y.at = "connect" /\ y.pair = p
      /\ y.same = x.same /\ y.only = x.only /\ y.side = x.side
  BY <1>1 DEF Threads, NoFd
<1>3. th' = [th EXCEPT ![t] = y] /\ UNCHANGED <<active, openFd, reg>>
  BY <1>1 DEF Attach, Threads, mgr
<1>4. th'[t] = y /\ \A v \in Thread \ {t} : th'[v] = th[v]
  BY <1>1, <1>3
<1>5. item' = [item EXCEPT ![p]["client"] = [open |-> TRUE, sock |-> x.fd]]
  BY DEF Attach
<1>6. /\ item'[p]["client"].open /\ item'[p]["client"].sock = x.fd
      /\ item'[p]["forward"] = item[p]["forward"]
      /\ \A q \in Pair \ {p} : item'[q] = item[q]
  BY <1>1, <1>5 DEF Items, Side
<1>7. \A v \in Thread \ {t} : th[v].pair = p => ~ AtWork(v)
  BY <1>1, AloneAtWork DEF AtWork, Before
<1> HIDE DEF y
<1>8. ThreadOK(t)'
  BY <1>1, <1>2, <1>4 DEF ThreadOK, Closers
<1>9. Settled(p) /\ OnPair(p) /\ PairOK(p)
  BY <1>1, <1>7 DEF Settled, AtWork, Closers, OnPair, Connected
<1>10. p \in active /\ ~ Noticed(p) /\ ~ item[p]["forward"].open
  BY <1>1, <1>9 DEF PairOK, Begun, Whole
<1>11. \A q \in Pair, s \in Side :
         item'[q][s].open => \/ item[q][s].open /\ item'[q][s] = item[q][s] /\ (q # p \/ s # "client")
                             \/ q = p /\ s = "client" /\ item'[q][s].sock = x.fd
  BY <1>6 DEF Side
<1>12. FdsApart'
  <2>1. /\ x.fd \in openFd
        /\ \A q \in Pair, s \in Side : item[q][s].open => item[q][s].sock # x.fd
    BY <1>1 DEF Connected, FdsApart
  <2>2. \A q \in Pair, s \in Side : item'[q][s].open => item'[q][s].sock \in openFd'
    BY <1>1, <1>3, <1>11, <2>1 DEF Connected, FdsApart
  <2>3. ASSUME NEW q \in Pair, NEW u \in Pair, NEW r \in Side, NEW s \in Side,
               item'[q][r].open, item'[u][s].open, item'[q][r].sock = item'[u][s].sock
        PROVE  q = u /\ r = s
    BY <1>1, <1>11, <2>1, <2>3 DEF Connected, FdsApart
  <2>4. ASSUME NEW s \in Side, NEW e \in reg'[s]
        PROVE  item'[e.pair][s].open /\ item'[e.pair][s].sock = e.fd
    <3>1. e.pair \in Pair /\ e.pair # p /\ e \in reg[s]
      BY <1>3, <1>10 DEF Noticed, Before, LocksInv, TypeInv, TypeOK
    <3> QED BY <1>1, <1>6, <3>1 DEF Connected, FdsApart
  <2> QED BY <1>2, <1>4, <2>2, <2>3, <2>4 DEF FdsApart
<1>13. Begun(p)'
  BY <1>2, <1>4, <1>7 DEF Begun, AtWork
<1>14. Reset(p)'
  <2>1. item[p]["forward"].sock = NoFd
    BY <1>9, <1>10 DEF Reset, PairOK, Side, Settled, Closers
  <2> QED BY <1>6, <2>1 DEF Reset, Side
<1>15. HalfClosed(p)'
  BY <1>2, <1>4, <1>7 DEF HalfClosed, AtWork, Closers
<1>16. Whole(p)'
  <2>1. ~ Noticed(p)' /\ OnPair(p)' /\ p \in active'
    BY <1>2, <1>3, <1>4, <1>10 DEF Noticed, OnPair
  <2> QED BY <1>6, <1>10, <2>1 DEF Whole
<1>17. PairOK(p)'
  BY <1>13, <1>14, <1>15, <1>16 DEF PairOK
<1>18. th[t].pair = p
  OBVIOUS
<1> HIDE DEF t, x
<1> QED BY <1>1, <1>2, <1>3, <1>4, <1>6, <1>8, <1>12, <1>17, <1>18, OneThreadOnePair

\* The accepting thread connects to the game server, or fails to, and locks the
\* pair it has in its hands: no item changes.
LEMMA ConnectConnected ==
    ASSUME Before, NoSocket \/ ConnectFails \/ Connect \/ BindLock
    PROVE  Connected'
<1> DEFINE t == "accept"
           x == th[t]
<1>1. /\ th \in [Thread -> Threads] /\ t \in Thread /\ x \in Threads
      /\ Connected /\ ThreadOK(t) /\ openFd \subseteq Fd
      /\ x.same /\ x.side = "client"
  BY DEF Before, LocksInv, TypeInv, TypeOK, Thread, Connected, ThreadOK
<1>2. UNCHANGED <<active, item, reg>>
  BY DEF NoSocket, ConnectFails, Connect, BindLock, mgr
<1>3. CASE NoSocket
  <2> DEFINE y == [x EXCEPT !.at = "toFree", !.only = TRUE]
  <2>1. /\ y \in Threads /\ y.at = "toFree" /\ y.pair = x.pair
        /\ y.same = x.same /\ y.only /\ y.side = x.side
    BY <1>1 DEF Threads
  <2>2. th' = [th EXCEPT ![t] = y] /\ x.at = "connect" /\ openFd' = openFd
    BY <1>1, <1>3 DEF NoSocket, Threads
  <2> HIDE DEF y
  <2> QED BY <1>1, <1>2, <2>1, <2>2, GoesOn DEF Closers
<1>4. CASE ConnectFails
  <2>1. StartClose(t, th) /\ x.at = "connect" /\ openFd' = openFd
    BY <1>4 DEF ConnectFails
  <2>2. PICK y \in Threads :
             /\ th' = [th EXCEPT ![t] = y] /\ y.same
             /\ \/ /\ item[th[t].pair][th[t].side].open
                   /\ y.at = "toFree" /\ y.pair = th[t].pair
                   /\ y.side = th[t].side /\ y.only = th[t].only
                \/ /\ ~ item[th[t].pair][th[t].side].open /\ y.side = "client"
                   /\ IF t = "accept" /\ ~ th[t].only
                      THEN y.at = "toFree" /\ y.pair = th[t].pair /\ y.only
                      ELSE y.at = "idle" /\ ~ y.only
    BY <1>1, <2>1, StartClosePlaces
  <2>3. ~ x.only
    BY <1>1, <2>1 DEF ThreadOK, Closers
  <2> QED BY <1>1, <1>2, <2>1, <2>2, <2>3, GoesOn DEF Closers
<1>5. CASE Connect
  <2> DEFINE y == [x EXCEPT !.at = "bind", !.fd = NewFd]
  <2>1. openFd' = openFd \cup {NewFd} /\ NewFd \in Fd \ openFd /\ x.at = "connect"
    <3>1. Fd \in SUBSET Nat /\ openFd # Fd
      BY <1>5, EngineAssumption DEF Fd, Connect
    <3>2. Fd \ openFd # {} /\ Fd \ openFd \in SUBSET Nat
      BY <1>1, <3>1
    <3>3. Min(Fd \ openFd) \in Fd \ openFd
      BY <3>2, MinIsLeast
    <3> QED BY <1>5, <3>3 DEF Connect, NewFd
  <2>2. /\ y \in Threads /\ y.at = "bind" /\ y.pair = x.pair /\ y.fd = NewFd
        /\ y.same = x.same /\ y.only = x.only /\ y.side = x.side
    BY <1>1, <2>1 DEF Threads
  <2>3. th' = [th EXCEPT ![t] = y]
    BY <1>1, <1>5 DEF Connect, Threads
  <2> HIDE DEF y
  <2>4. th'[t] = y /\ \A v \in Thread \ {t} : th'[v] = th[v]
    BY <1>1, <2>3
  <2>5. \A p \in Pair : PairOK(p)'
    BY <1>1, <1>2, <2>1, <2>2, <2>3, PairsGoOn DEF Closers
  <2>6. \A v \in Thread : ThreadOK(v)'
    <3>1. ~ x.only
      BY <1>1, <2>1 DEF ThreadOK, Closers
    <3>2. ThreadOK(t)'
      BY <1>1, <2>2, <2>4, <3>1 DEF ThreadOK
    <3>3. \A v \in Thread \ {t} : ThreadOK(v)'
      BY <1>1, <2>4 DEF ThreadOK, Connected
    <3> QED BY <3>2, <3>3
  <2>7. FdsApart'
    <3>1. \A p \in Pair, s \in Side : item[p][s].open => item[p][s].sock \in openFd
      BY <1>1 DEF Connected, FdsApart
    <3>2. \A p \in Pair, s \in Side : item[p][s].open => item[p][s].sock # NewFd
      BY <2>1, <3>1
    <3> QED BY <1>1, <1>2, <2>1, <2>2, <2>4, <3>2 DEF Connected, FdsApart
  <2> QED BY <2>5, <2>6, <2>7 DEF Connected
<1>6. CASE BindLock
  <2> DEFINE y == [x EXCEPT !.at = "bound"]
  <2>1. /\ y \in Threads /\ y.at = "bound" /\ y.pair = x.pair /\ y.fd = x.fd
        /\ y.same = x.same /\ y.only = x.only /\ y.side = x.side
    BY <1>1 DEF Threads
  <2>2. th' = [th EXCEPT ![t] = y] /\ x.at = "bind" /\ openFd' = openFd
    BY <1>1, <1>6 DEF BindLock, Threads
  <2>3. ~ x.only
    BY <1>1, <2>2 DEF ThreadOK, Closers
  <2> HIDE DEF y
  <2> QED BY <1>1, <1>2, <2>1, <2>2, <2>3, GoesOn DEF Closers
<1> QED BY <1>3, <1>4, <1>5, <1>6

\* The pair is gone: only the new descriptor is closed, which no item has.
LEMMA BindGoneConnected ==
    ASSUME Before, BindGone
    PROVE  Connected'
<1> DEFINE t == "accept"
           x == th[t]
<1>1. /\ th \in [Thread -> Threads] /\ t \in Thread /\ x \in Threads
      /\ Connected /\ ThreadOK(t) /\ x.same /\ x.side = "client" /\ x.at = "bound"
      /\ reg \in [Side -> SUBSET [fd : Fd, pair : Pair]]
  BY DEF Before, LocksInv, TypeInv, TypeOK, Thread, Connected, ThreadOK, BindGone
<1>2. /\ UNCHANGED <<active, item>> /\ openFd' = openFd \ {x.fd}
      /\ reg' = [s \in Side |-> {e \in reg[s] : e.fd # x.fd}]
  BY DEF BindGone, Shut, mgr
<1>3. /\ FdsApart
      /\ \A p \in Pair, s \in Side : item[p][s].open => item[p][s].sock # x.fd
  BY <1>1 DEF Connected, FdsApart
<1>4. reg' = reg
  <2>1. ASSUME NEW s \in Side PROVE {e \in reg[s] : e.fd # x.fd} = reg[s]
    <3>1. \A e \in reg[s] : e.pair \in Pair /\ item[e.pair][s].open /\ item[e.pair][s].sock = e.fd
      BY <1>1, <1>3 DEF FdsApart
    <3> QED BY <1>3, <3>1
  <2>2. reg' = [s \in Side |-> reg[s]]
    BY <1>2, <2>1
  <2> QED BY <1>1, <2>2
<1>5. StartClose(t, th) /\ ~ x.only
  BY <1>1 DEF BindGone, ThreadOK, Closers
<1>6. PICK y \in Threads :
           /\ th' = [th EXCEPT ![t] = y] /\ y.same
           /\ y.at = "toFree" /\ y.pair = x.pair /\ y.side = "client"
           /\ y.only \/ item[x.pair][x.side].open
  BY <1>1, <1>5, StartClosePlaces
<1>7. th'[t] = y /\ \A v \in Thread \ {t} : th'[v] = th[v]
  BY <1>1, <1>6
<1>8. \A p \in Pair : PairOK(p)'
  BY <1>1, <1>2, <1>4, <1>6, PairsGoOn DEF Closers
<1>9. \A v \in Thread : ThreadOK(v)'
  BY <1>1, <1>6, <1>7 DEF ThreadOK, Connected
<1>10. FdsApart'
  BY <1>2, <1>3, <1>4, <1>6, <1>7 DEF FdsApart
<1> QED BY <1>8, <1>9, <1>10 DEF Connected

\* The game server's item gets the descriptor the thread has in its hands, and
\* both sockets are watched.
LEMMA BindConnected ==
    ASSUME Before, Bind
    PROVE  Connected'
<1> DEFINE t == "accept"
           x == th[t]
<1>1. /\ th \in [Thread -> Threads] /\ t \in Thread /\ x \in Threads /\ x.at = "bound"
      /\ Connected /\ ThreadOK(t) /\ x.pair \in Pair /\ item \in Items
      /\ reg \in [Side -> SUBSET [fd : Fd, pair : Pair]]
  BY DEF Before, LocksInv, TypeInv, TypeOK, Thread, Bind, Connected, Placed, Items, Item
<1> PICK p \in Pair : p = x.pair
  BY <1>1
<1>2. p \in active /\ UNCHANGED <<active, openFd>>
  BY DEF Bind, mgr
<1>3. \A v \in Thread \ {t} : th[v].pair = p => ~ AtWork(v)
  BY <1>1, AloneAtWork DEF AtWork, Before
<1>4. Settled(p) /\ OnPair(p) /\ PairOK(p)
  BY <1>1, <1>3 DEF Settled, AtWork, Closers, OnPair, Connected
<1>5. ~ Noticed(p) /\ ~ item[p]["forward"].open /\ item[p]["client"].open
  BY <1>1, <1>2, <1>4 DEF PairOK, Whole
<1> PICK fd : fd = item[p]["client"].sock
  OBVIOUS
<1>6. fd \in openFd
  BY <1>1, <1>5 DEF Connected, FdsApart, Side
<1>7. item' = [item EXCEPT ![p]["forward"] = [open |-> TRUE, sock |-> x.fd]]
  BY DEF Bind
<1>8. /\ reg' = [reg EXCEPT !["client"] = @ \cup {[fd |-> fd, pair |-> p]},
                            !["forward"] = @ \cup {[fd |-> x.fd, pair |-> p]}]
      /\ th' = [th EXCEPT ![t] = Idle]
  BY <1>6 DEF Bind
<1>9. /\ Idle.at = "idle" /\ Idle.same /\ ~ Idle.only /\ Idle.side = "client"
  BY DEF Idle
<1>10. th'[t] = Idle /\ \A v \in Thread \ {t} : th'[v] = th[v]
  BY <1>1, <1>8
<1>11. /\ item'[p]["forward"].open /\ item'[p]["forward"].sock = x.fd
       /\ item'[p]["client"] = item[p]["client"]
       /\ \A q \in Pair \ {p} : item'[q] = item[q]
  BY <1>1, <1>7 DEF Items, Side
<1>12. /\ reg'["client"] = reg["client"] \cup {[fd |-> fd, pair |-> p]}
       /\ reg'["forward"] = reg["forward"] \cup {[fd |-> x.fd, pair |-> p]}
  BY <1>1, <1>8 DEF Side
<1>13. ThreadOK(t)'
  BY <1>9, <1>10 DEF ThreadOK
<1>14. \A q \in Pair, s \in Side :
         item'[q][s].open => \/ item[q][s].open /\ item'[q][s] = item[q][s] /\ (q # p \/ s # "forward")
                             \/ q = p /\ s = "forward" /\ item'[q][s].sock = x.fd
  BY <1>11 DEF Side
<1>15. FdsApart'
  <2>1. /\ x.fd \in openFd
        /\ \A q \in Pair, s \in Side : item[q][s].open => item[q][s].sock # x.fd
    BY <1>1 DEF Connected, FdsApart
  <2>2. \A q \in Pair, s \in Side : item'[q][s].open => item'[q][s].sock \in openFd'
    BY <1>1, <1>2, <1>14, <2>1 DEF Connected, FdsApart
  <2>3. ASSUME NEW q \in Pair, NEW u \in Pair, NEW r \in Side, NEW s \in Side,
               item'[q][r].open, item'[u][s].open, item'[q][r].sock = item'[u][s].sock
        PROVE  q = u /\ r = s
    BY <1>1, <1>14, <2>1, <2>3 DEF Connected, FdsApart
  <2>4. ASSUME NEW s \in Side, NEW e \in reg'[s]
        PROVE  item'[e.pair][s].open /\ item'[e.pair][s].sock = e.fd
    <3>1. CASE e \in reg[s]
      <4>1. e.pair \in Pair /\ e.pair # p
        BY <1>1, <1>5, <3>1 DEF Noticed
      <4> QED BY <1>1, <1>11, <3>1, <4>1 DEF Connected, FdsApart
    <3>2. CASE e \notin reg[s]
      <4>1. \/ s = "client" /\ e = [fd |-> fd, pair |-> p]
            \/ s = "forward" /\ e = [fd |-> x.fd, pair |-> p]
        BY <1>12, <2>4, <3>2 DEF Side
      <4> QED BY <1>5, <1>11, <4>1
    <3> QED BY <3>1, <3>2
  <2> QED BY <1>9, <1>10, <2>2, <2>3, <2>4 DEF FdsApart
<1>16. Begun(p)'
  BY <1>3, <1>9, <1>10 DEF Begun, AtWork
<1>17. Reset(p)'
  BY <1>5, <1>11 DEF Reset, Side
<1>18. HalfClosed(p)'
  BY <1>3, <1>9, <1>10 DEF HalfClosed, AtWork, Closers
<1>19. Whole(p)'
  <2>1. ~ OnPair(p)' /\ p \in active'
    BY <1>2, <1>9, <1>10 DEF OnPair
  <2>2. \A s \in Side : /\ item'[p][s].open
                        /\ [fd |-> item'[p][s].sock, pair |-> p] \in reg'[s]
    BY <1>5, <1>11, <1>12 DEF Side
  <2> QED BY <2>1, <2>2 DEF Whole
<1>20. PairOK(p)'
  BY <1>16, <1>17, <1>18, <1>19 DEF PairOK
<1>21. \A q \in Pair \ {p} : \A s \in Side : \A e : e.pair = q =>
         (e \in reg'[s] <=> e \in reg[s])
  BY <1>12 DEF Side
<1>22. th[t].pair = p /\ th'[t].at = "idle"
  BY <1>9, <1>10
<1> HIDE DEF t, x
<1> QED BY <1>1, <1>2, <1>10, <1>11, <1>13, <1>15, <1>20, <1>21, <1>22, OneThreadOnePair

\* A thread that is at work on a pair is alone there: what Connected says of the
\* pair then.
LEMMA ClosingAlone ==
    ASSUME Before, NEW t \in Thread, th[t].at \in Closers \cup {"toFree"}
    PROVE  /\ th \in [Thread -> Threads] /\ th[t] \in Threads /\ th[t].pair \in Pair
           /\ th[t].side \in Side /\ Other(th[t].side) \in Side
           /\ Other(th[t].side) # th[t].side /\ Side = {th[t].side, Other(th[t].side)}
           /\ item \in Items /\ openFd \subseteq Fd /\ NoFd \notin Fd
           /\ reg \in [Side -> SUBSET [fd : Fd, pair : Pair]]
           /\ Connected /\ FdsApart /\ ThreadOK(t) /\ PairOK(th[t].pair)
           /\ \A v \in Thread \ {t} : th[v].pair = th[t].pair => ~ AtWork(v)
<1>1. AtWork(t)
  BY DEF AtWork, Closers
<1>2. th \in [Thread -> Threads] /\ th[t] \in Threads /\ th[t].pair \in Pair
  BY DEF Before, LocksInv, TypeInv, TypeOK, Placed, Closers
<1>3. /\ th[t].side \in Side /\ Other(th[t].side) \in Side
      /\ Other(th[t].side) # th[t].side /\ Side = {th[t].side, Other(th[t].side)}
  BY <1>2 DEF Threads, Other, Side
<1>4. /\ item \in Items /\ openFd \subseteq Fd /\ NoFd \notin Fd
      /\ reg \in [Side -> SUBSET [fd : Fd, pair : Pair]]
  BY DEF Before, LocksInv, TypeInv, TypeOK, Items, Item, NoFd, Fd
<1>5. Connected /\ FdsApart /\ ThreadOK(t) /\ PairOK(th[t].pair)
  BY <1>2 DEF Before, Connected
<1>6. \A v \in Thread \ {t} : th[v].pair = th[t].pair => ~ AtWork(v)
  BY <1>1, AloneAtWork DEF Before
<1> QED BY <1>2, <1>3, <1>4, <1>5, <1>6

\* The pair leaves the map, or is in no map; what is watched stays.
LEMMA ToFreeConnected ==
    ASSUME Before, NEW t \in Thread, ToFree(t)
    PROVE  Connected'
<1> DEFINE x == th[t]
<1>0. x.at = "toFree" /\ "accept" \in Thread
  BY DEF ToFree, Thread
<1>1. th \in [Thread -> Threads] /\ x \in Threads /\ x.pair \in Pair
  BY <1>0, ClosingAlone
<1>a. /\ x.side \in Side /\ Other(x.side) \in Side
      /\ Other(x.side) # x.side /\ Side = {x.side, Other(x.side)}
  BY <1>0, ClosingAlone
<1>b. /\ item \in Items /\ openFd \subseteq Fd /\ NoFd \notin Fd
      /\ reg \in [Side -> SUBSET [fd : Fd, pair : Pair]]
  BY <1>0, ClosingAlone
<1>c. Connected /\ ThreadOK(t) /\ PairOK(x.pair)
  BY <1>0, ClosingAlone
<1>d. FdsApart
  BY <1>0, ClosingAlone
<1>e. \A v \in Thread \ {t} : th[v].pair = x.pair => ~ AtWork(v)
  BY <1>0, ClosingAlone
<1> PICK p \in Pair : p = x.pair
  BY <1>1
<1> PICK s \in Side : s = x.side
  BY <1>a
<1>2. Settled(p) /\ (x.only => OnPair(p) /\ t = "accept" /\ s = "client")
  BY <1>0, <1>c, <1>e DEF Settled, AtWork, Closers, OnPair, ThreadOK
<1>3. Whole(p) /\ Reset(p) /\ Begun(p)
  BY <1>c DEF PairOK
<1>4. UNCHANGED <<item, openFd>>
  BY DEF ToFree
<1>5. x.same /\ (t = "accept" => x.pair = p)
  BY <1>c DEF ThreadOK
<1>6. CASE p \in active
  <2>1. /\ active' = active \ {p} /\ reg' = reg
        /\ th' = [th EXCEPT ![t].at = "partner"]
    BY <1>6 DEF ToFree
  <2>2. /\ th'[t].at = "partner" /\ th'[t].pair = p /\ th'[t].side = s
        /\ th'[t].same = x.same /\ th'[t].only = x.only
        /\ \A v \in Thread \ {t} : th'[v] = th[v]
    BY <1>1, <2>1 DEF Threads
  <2>3. item[p][s].open
    BY <1>0, <1>2, <1>3, <1>6 DEF Whole, Begun
  <2>4. FdsApart'
    <3>1. th'["accept"].at \in {"add", "attach", "bind", "bound"} => th'["accept"] = th["accept"]
      BY <1>0, <2>2
    <3> QED BY <1>b, <1>d, <1>4, <2>1, <3>1 DEF FdsApart
  <2>5. ThreadOK(t)'
    BY <1>0, <1>c, <2>2 DEF ThreadOK, Closers
  <2>6. PairOK(p)'
    <3>1. Begun(p)'
      BY <1>0, <1>e, <2>2 DEF Begun, AtWork
    <3>2. Reset(p)'
      BY <1>2, <1>3, <1>4 DEF Reset, Settled, Closers
    <3>3. HalfClosed(p)'
      BY <1>e, <1>a, <1>4, <2>1, <2>2, <2>3 DEF HalfClosed, AtWork, Closers
    <3>4. ~ Settled(p)'
      BY <2>2 DEF Settled, Closers
    <3> QED BY <3>1, <3>2, <3>3, <3>4 DEF PairOK, Whole
  <2> HIDE DEF x
  <2>7. th[t].pair = p
    BY DEF x
  <2> QED BY <1>c, <1>4, <2>1, <2>2, <2>4, <2>5, <2>6, <2>7, OneThreadOnePair
<1>7. CASE p \notin active
  <2>1. /\ active' = active
        /\ reg' = [reg EXCEPT ![s] = {e \in @ : e.fd # item[p][s].sock}]
        /\ IF x.only THEN Finish(t, th)
           ELSE th' = [th EXCEPT ![t].at = "own"] /\ lock' = lock
    BY <1>7 DEF ToFree
  <2>2. ~ Noticed(p) /\ ~ item[p]["forward"].open
    BY <1>2, <1>3, <1>7 DEF Whole
  <2>3. item[p][s].open \/ item[p][s].sock = NoFd
    BY <1>2, <1>3 DEF Reset, Settled, Closers
  <2>4. reg' = reg
    <3>1. ASSUME NEW e \in reg[s] PROVE e.fd # item[p][s].sock
      <4>1. e.pair # p /\ e.fd \in Fd /\ e.pair \in Pair
        BY <1>b, <2>2 DEF Noticed
      <4>2. item[e.pair][s].open /\ item[e.pair][s].sock = e.fd
        BY <1>b, <1>d DEF FdsApart
      <4> QED BY <1>b, <1>d, <2>3, <4>1, <4>2 DEF FdsApart
    <3>2. {e \in reg[s] : e.fd # item[p][s].sock} = reg[s]
      BY <3>1
    <3> QED BY <1>b, <2>1, <3>2
  <2>5. CASE x.only
    <3>1. Finish(t, th) /\ t = "accept"
      BY <1>2, <2>1, <2>5
    <3>2. PICK y \in Threads : /\ th' = [th EXCEPT ![t] = y] /\ y.same
                               /\ y.side = "client" /\ y.at = "idle" /\ ~ y.only
      BY <1>1, <2>5, <3>1, FinishPlaces
    <3>3. th'[t] = y /\ \A v \in Thread \ {t} : th'[v] = th[v]
      BY <1>1, <3>2
    <3>4. FdsApart'
      BY <1>b, <1>d, <1>4, <2>4, <3>1, <3>2, <3>3 DEF FdsApart
    <3>5. ThreadOK(t)'
      BY <3>1, <3>2, <3>3 DEF ThreadOK
    <3>6. PairOK(p)'
      <4>1. Begun(p)'
        BY <1>e, <3>1, <3>2, <3>3 DEF Begun, AtWork
      <4>2. Reset(p)'
        BY <1>2, <1>3, <1>4 DEF Reset, Settled, Closers
      <4>3. HalfClosed(p)'
        BY <1>e, <1>a, <3>2, <3>3 DEF HalfClosed, AtWork, Closers
      <4>4. ~ OnPair(p)' /\ ~ Noticed(p)' /\ p \notin active'
        BY <1>7, <2>1, <2>2, <2>4, <3>1, <3>2, <3>3 DEF OnPair, Noticed
      <4>5. Whole(p)'
        BY <1>4, <2>2, <4>4 DEF Whole
      <4> QED BY <4>1, <4>2, <4>3, <4>5 DEF PairOK
    <3> HIDE DEF x
    <3>7. th[t].pair = p
      BY DEF x
    <3> QED BY <1>c, <1>4, <2>1, <2>4, <3>2, <3>3, <3>4, <3>5, <3>6, <3>7, OneThreadOnePair
  <2>6. CASE ~ x.only
    <3>1. th' = [th EXCEPT ![t].at = "own"]
      BY <2>1, <2>6
    <3>2. /\ th'[t].at = "own" /\ th'[t].pair = p /\ th'[t].side = s
          /\ th'[t].same = x.same /\ th'[t].only = x.only
          /\ \A v \in Thread \ {t} : th'[v] = th[v]
      BY <1>1, <3>1 DEF Threads
    <3>3. item[p][s].open
      BY <1>0, <1>3, <2>6 DEF Begun
    <3>4. s = "client" /\ Other(s) = "forward"
      BY <2>2, <3>3 DEF Side, Other
    <3>5. FdsApart'
      <4>1. th'["accept"].at \in {"add", "attach", "bind", "bound"} => th'["accept"] = th["accept"]
        BY <1>0, <3>2
      <4> QED BY <1>b, <1>d, <1>4, <2>4, <4>1 DEF FdsApart
    <3>6. ThreadOK(t)'
      BY <1>0, <1>c, <3>2 DEF ThreadOK, Closers
    <3>7. PairOK(p)'
      <4>1. Begun(p)'
        BY <1>0, <1>e, <3>2 DEF Begun, AtWork
      <4>2. Reset(p)'
        BY <1>2, <1>3, <1>4 DEF Reset, Settled, Closers
      <4>3. ~ Noticed(p)' /\ p \notin active'
        BY <1>7, <2>1, <2>2, <2>4 DEF Noticed
      <4>4. HalfClosed(p)'
        BY <1>e, <1>a, <1>4, <2>2, <3>2, <3>3, <3>4, <4>3 DEF HalfClosed, AtWork, Closers
      <4>5. ~ Settled(p)'
        BY <3>2 DEF Settled, Closers
      <4> QED BY <4>1, <4>2, <4>4, <4>5 DEF PairOK, Whole
    <3> HIDE DEF x
    <3>8. th[t].pair = p
      BY DEF x
    <3> QED BY <1>c, <1>4, <2>1, <2>4, <3>2, <3>5, <3>6, <3>7, <3>8, OneThreadOnePair
  <2> QED BY <2>5, <2>6
<1> QED BY <1>6, <1>7

\* The other side's socket is closed, and neither is watched any more.
LEMMA ClosePartnerConnected ==
    ASSUME Before, NEW t \in Thread, ClosePartner(t)
    PROVE  Connected'
<1> DEFINE x == th[t]
<1>0. x.at = "partner" /\ "accept" \in Thread
  BY DEF ClosePartner, Thread
<1>1. th \in [Thread -> Threads] /\ x \in Threads /\ x.pair \in Pair
  BY <1>0, ClosingAlone DEF Closers
<1>a. /\ x.side \in Side /\ Other(x.side) \in Side
      /\ Other(x.side) # x.side /\ Side = {x.side, Other(x.side)}
  BY <1>0, ClosingAlone DEF Closers
<1>b. /\ item \in Items /\ openFd \subseteq Fd /\ NoFd \notin Fd
      /\ reg \in [Side -> SUBSET [fd : Fd, pair : Pair]]
  BY <1>0, ClosingAlone DEF Closers
<1>c. Connected /\ ThreadOK(t) /\ PairOK(x.pair)
  BY <1>0, ClosingAlone DEF Closers
<1>d. FdsApart
  BY <1>0, ClosingAlone DEF Closers
<1>e. \A v \in Thread \ {t} : th[v].pair = x.pair => ~ AtWork(v)
  BY <1>0, ClosingAlone DEF Closers
<1> PICK p \in Pair : p = x.pair
  BY <1>1
<1> PICK s \in Side, o \in Side : s = x.side /\ o = Other(x.side)
  BY <1>a
<1>2. o # s /\ Side = {s, o} /\ Other(o) = s /\ Other(s) = o
  BY <1>a DEF Other, Side
<1> PICK fd : fd = item[p][o].sock
  OBVIOUS
<1>3. /\ item' = [item EXCEPT ![p][o].open = FALSE]
      /\ openFd' = openFd \ {fd}
      /\ reg' = [r \in Side |-> {e \in reg[r] : e.fd \notin {fd, item[p][r].sock}}]
      /\ active' = active
      /\ th' = [th EXCEPT ![t].at = "partnerResume"]
  BY DEF ClosePartner, mgr
<1>4. /\ ~ item'[p][o].open /\ item'[p][o].sock = fd
      /\ item'[p][s] = item[p][s]
      /\ \A q \in Pair \ {p} : item'[q] = item[q]
  <2>1. item' = [item EXCEPT ![p][o].open = FALSE]
    BY <1>3
  <2>2. item[p][o] \in Item /\ item[p] \in [Side -> Item]
    BY <1>b DEF Items
  <2>3. item'[p][o] = [item[p][o] EXCEPT !.open = FALSE]
    BY <1>b, <2>1, <2>2 DEF Items
  <2>4. ~ item'[p][o].open /\ item'[p][o].sock = fd
    BY <2>2, <2>3 DEF Item
  <2> QED BY <1>b, <1>2, <2>1, <2>2, <2>4 DEF Items
<1>5. /\ th'[t].at = "partnerResume" /\ th'[t].pair = p /\ th'[t].side = s
      /\ th'[t].same = x.same /\ th'[t].only = x.only
      /\ \A v \in Thread \ {t} : th'[v] = th[v]
  BY <1>1, <1>3 DEF Threads
<1>6. p \notin active /\ item[p][s].open
  BY <1>0, <1>c DEF PairOK, HalfClosed, Closers
<1>7. item[p][o].open \/ fd = NoFd
  <2>1. \A v \in Thread : th[v].pair = p => th[v].at \notin {"partnerResume", "ownResume"}
    BY <1>0, <1>e DEF AtWork
  <2> QED BY <1>c, <2>1 DEF PairOK, Reset
<1>8. \A q \in Pair, r \in Side : item[q][r].open /\ (q # p \/ r # o) => item[q][r].sock # fd
  BY <1>b, <1>d, <1>7 DEF FdsApart
<1>9. \A r \in Side : \A e \in reg'[r] : e \in reg[r] /\ e.pair # p
  <2> TAKE r \in Side
  <2> TAKE e \in reg'[r]
  <2>1. e \in reg[r] /\ e.fd # item[p][r].sock
    BY <1>3
  <2> QED BY <1>b, <1>d, <2>1 DEF FdsApart
<1>10. \A r \in Side : \A e \in reg[r] : e.pair # p => e \in reg'[r]
  <2> TAKE r \in Side
  <2> TAKE e \in reg[r]
  <2> HAVE e.pair # p
  <2>1. /\ e.pair \in Pair /\ e.fd \in Fd
        /\ item[e.pair][r].open /\ item[e.pair][r].sock = e.fd
    BY <1>b, <1>d DEF FdsApart
  <2>2. e.fd # fd
    BY <1>8, <2>1
  <2>3. e.fd # item[p][r].sock
    <3>1. CASE r = s
      BY <1>b, <1>d, <1>6, <2>1, <3>1 DEF FdsApart
    <3>2. CASE r = o
      BY <2>2, <3>2
    <3> QED BY <1>2, <3>1, <3>2
  <2> QED BY <1>3, <2>2, <2>3
<1>11. ThreadOK(t)'
  BY <1>0, <1>c, <1>5 DEF ThreadOK, Closers
<1>12. \A q \in Pair, r \in Side :
         item'[q][r].open => item[q][r].open /\ item'[q][r] = item[q][r] /\ (q # p \/ r # o)
  BY <1>2, <1>4
<1>13. FdsApart'
  <2>0. openFd' = openFd \ {fd}
    BY <1>3
  <2>a. \A q \in Pair, r \in Side : item[q][r].open => item[q][r].sock \in openFd
    BY <1>d DEF FdsApart
  <2>1. \A q \in Pair, r \in Side : item'[q][r].open => item'[q][r].sock \in openFd'
    BY <2>a, <2>0, <1>8, <1>12
  <2>2. ASSUME NEW q \in Pair, NEW u \in Pair, NEW r \in Side, NEW z \in Side,
               item'[q][r].open, item'[u][z].open, item'[q][r].sock = item'[u][z].sock
        PROVE  q = u /\ r = z
    <3>1. /\ item[q][r].open /\ item[u][z].open
          /\ item[q][r].sock = item[u][z].sock
      BY <1>12, <2>2
    <3> QED BY <1>d, <3>1 DEF FdsApart
  <2>3. ASSUME NEW r \in Side, NEW e \in reg'[r]
        PROVE  item'[e.pair][r].open /\ item'[e.pair][r].sock = e.fd
    <3>1. e \in reg[r] /\ e.pair # p /\ e.pair \in Pair
      BY <1>b, <1>9
    <3> QED BY <1>b, <1>d, <1>4, <3>1 DEF FdsApart
  <2>4. th'["accept"].at \in {"add", "attach", "bind", "bound"} =>
          /\ th'["accept"].fd \in openFd'
          /\ \A q \in Pair, r \in Side :
               item'[q][r].open => item'[q][r].sock # th'["accept"].fd
    <3> SUFFICES ASSUME th'["accept"].at \in {"add", "attach", "bind", "bound"}
                 PROVE  /\ th'["accept"].fd \in openFd'
                        /\ \A q \in Pair, r \in Side :
                             item'[q][r].open => item'[q][r].sock # th'["accept"].fd
      OBVIOUS
    <3>1. th'["accept"] = th["accept"]
      BY <1>0, <1>5
    <3>2. /\ th["accept"].fd \in openFd
          /\ \A q \in Pair, r \in Side :
               item[q][r].open => item[q][r].sock # th["accept"].fd
      BY <1>b, <1>d, <3>1 DEF FdsApart
    <3>3. th["accept"].fd # fd
      BY <1>b, <1>7, <3>2
    <3> QED BY <2>0, <1>12, <3>1, <3>2, <3>3
  <2> QED BY <2>1, <2>2, <2>3, <2>4 DEF FdsApart
<1>14. PairOK(p)'
  <2>1. Begun(p)'
    BY <1>0, <1>e, <1>5 DEF Begun, AtWork
  <2>2. Reset(p)'
    BY <1>2, <1>4, <1>5, <1>6 DEF Reset
  <2>3. ~ Noticed(p)' /\ p \notin active'
    BY <1>3, <1>6, <1>9 DEF Noticed
  <2>4. HalfClosed(p)'
    BY <1>e, <1>a, <1>2, <1>4, <1>5, <1>6, <2>3 DEF HalfClosed, AtWork, Closers
  <2>5. ~ Settled(p)'
    BY <1>5 DEF Settled, Closers
  <2> QED BY <2>1, <2>2, <2>4, <2>5 DEF PairOK, Whole
<1>15. \A q \in Pair \ {p} : \A r \in Side : \A e : e.pair = q =>
         (e \in reg'[r] <=> e \in reg[r])
  BY <1>9, <1>10
<1>16. th[t].pair = p
  OBVIOUS
<1> HIDE DEF x
<1>17. active' = active /\ th'[t].pair = p
  BY <1>3, <1>5
<1> QED BY <1>c, <1>4, <1>5, <1>11, <1>13, <1>14, <1>15, <1>16, <1>17, OneThreadOnePair

\* The other side's item is reset: nobody had noted to close that one.
LEMMA ResumePartnerConnected ==
    ASSUME Before, NEW t \in Thread, ResumePartner(t)
    PROVE  Connected'
<1> DEFINE x == th[t]
<1>0. x.at = "partnerResume" /\ "accept" \in Thread
  BY DEF ResumePartner, Thread
<1>1. th \in [Thread -> Threads] /\ x \in Threads /\ x.pair \in Pair
  BY <1>0, ClosingAlone DEF Closers
<1>a. /\ x.side \in Side /\ Other(x.side) \in Side
      /\ Other(x.side) # x.side /\ Side = {x.side, Other(x.side)}
  BY <1>0, ClosingAlone DEF Closers
<1>b. /\ item \in Items /\ openFd \subseteq Fd /\ NoFd \notin Fd
      /\ reg \in [Side -> SUBSET [fd : Fd, pair : Pair]]
  BY <1>0, ClosingAlone DEF Closers
<1>c. Connected /\ ThreadOK(t) /\ PairOK(x.pair)
  BY <1>0, ClosingAlone DEF Closers
<1>d. FdsApart
  BY <1>0, ClosingAlone DEF Closers
<1>e. \A v \in Thread \ {t} : th[v].pair = x.pair => ~ AtWork(v)
  BY <1>0, ClosingAlone DEF Closers
<1> PICK p \in Pair : p = x.pair
  BY <1>1
<1> PICK s \in Side, o \in Side : s = x.side /\ o = Other(x.side)
  BY <1>a
<1>2. o # s /\ Side = {s, o} /\ Other(o) = s /\ Other(s) = o
  BY <1>a DEF Other, Side
<1>3. Resumed(p, o) = th
  <2>1. \A u \in Thread : Noted(u) /\ th[u].pair = p => th[u].side # o
    BY <1>e, <1>2 DEF Noted, AtWork
  <2> QED BY <1>1, <2>1, NobodyNoted
<1>4. /\ item' = [item EXCEPT ![p][o].sock = NoFd]
      /\ UNCHANGED <<active, openFd, reg>>
      /\ IF x.only THEN Finish(t, th) ELSE th' = [th EXCEPT ![t].at = "own"]
  BY <1>3 DEF ResumePartner, mgr
<1>5. p \notin active /\ item[p][s].open /\ ~ item[p][o].open /\ ~ Noticed(p)
  BY <1>0, <1>c DEF PairOK, HalfClosed, Closers
<1>6. /\ ~ item'[p][o].open /\ item'[p][o].sock = NoFd
      /\ item'[p][s] = item[p][s]
      /\ \A q \in Pair \ {p} : item'[q] = item[q]
  <2>1. item[p][o] \in Item /\ item[p] \in [Side -> Item]
    BY <1>a, <1>b DEF Items
  <2>2. item'[p][o] = [item[p][o] EXCEPT !.sock = NoFd]
    BY <1>a, <1>b, <1>4, <2>1 DEF Items
  <2>3. ~ item'[p][o].open /\ item'[p][o].sock = NoFd
    BY <1>5, <2>1, <2>2 DEF Item
  <2> QED BY <1>a, <1>b, <1>2, <1>4, <2>1, <2>3 DEF Items
<1>7. \A q \in Pair, r \in Side :
         /\ item'[q][r].open => item[q][r].open /\ item'[q][r] = item[q][r]
         /\ item[q][r].open => item'[q][r].open /\ item'[q][r] = item[q][r]
  BY <1>2, <1>5, <1>6
<1>8. ASSUME NEW y \in Threads, th' = [th EXCEPT ![t] = y], y.at \in {"own", "idle"}
      PROVE  FdsApart'
  <2>1. th'[t] = y /\ \A v \in Thread \ {t} : th'[v] = th[v]
    BY <1>1, <1>8
  <2>2. th'["accept"].at \in {"add", "attach", "bind", "bound"} => th'["accept"] = th["accept"]
    BY <1>0, <1>8, <2>1
  <2>3. openFd' = openFd /\ reg' = reg
    BY <1>4
  <2>4. \A r \in Side : \A e \in reg[r] : e.pair \in Pair
    BY DEF Before, LocksInv, TypeInv, TypeOK
  <2>5. \A q \in Pair, r \in Side : item'[q][r].open => item'[q][r].sock \in openFd'
    BY <1>b, <1>d, <1>7, <2>3 DEF FdsApart
  <2>6. ASSUME NEW q \in Pair, NEW u \in Pair, NEW r \in Side, NEW z \in Side,
               item'[q][r].open, item'[u][z].open, item'[q][r].sock = item'[u][z].sock
        PROVE  q = u /\ r = z
    BY <1>b, <1>d, <1>7, <2>6 DEF FdsApart
  <2>7. ASSUME NEW r \in Side, NEW e \in reg'[r]
        PROVE  item'[e.pair][r].open /\ item'[e.pair][r].sock = e.fd
    BY <1>b, <1>d, <1>7, <2>3, <2>4 DEF FdsApart
  <2>8. th'["accept"].at \in {"add", "attach", "bind", "bound"} =>
          /\ th'["accept"].fd \in openFd'
          /\ \A q \in Pair, r \in Side :
               item'[q][r].open => item'[q][r].sock # th'["accept"].fd
    BY <1>b, <1>d, <1>7, <2>2, <2>3 DEF FdsApart
  <2> QED BY <2>5, <2>6, <2>7, <2>8 DEF FdsApart
<1>9. ~ Noticed(p)' /\ p \notin active'
  BY <1>4, <1>5 DEF Noticed
<1>10. Reset(p)'
  BY <1>2, <1>5, <1>6 DEF Reset
<1>11. th[t].pair = p
  OBVIOUS
<1>12. CASE x.only
  <2>1. t = "accept" /\ s = "client" /\ o = "forward"
    BY <1>c, <1>a, <1>12 DEF ThreadOK, Other
  <2>2. PICK y \in Threads : /\ th' = [th EXCEPT ![t] = y] /\ y.same
                             /\ y.side = "client" /\ y.at = "idle" /\ ~ y.only
    BY <1>1, <1>4, <1>12, FinishPlaces
  <2>3. th'[t] = y /\ \A v \in Thread \ {t} : th'[v] = th[v]
    BY <1>1, <2>2
  <2>4. ThreadOK(t)'
    BY <2>1, <2>2, <2>3 DEF ThreadOK
  <2>5. PairOK(p)'
    <3>1. Begun(p)'
      BY <1>e, <2>1, <2>2, <2>3 DEF Begun, AtWork
    <3>2. HalfClosed(p)'
      BY <1>e, <1>a, <2>2, <2>3 DEF HalfClosed, AtWork, Closers
    <3>3. ~ OnPair(p)'
      BY <2>1, <2>2, <2>3 DEF OnPair
    <3>4. Whole(p)'
      BY <1>6, <1>9, <2>1, <3>3 DEF Whole
    <3> QED BY <1>10, <3>1, <3>2, <3>4 DEF PairOK
  <2>6. FdsApart'
    BY <1>8, <2>2
  <2> HIDE DEF x
  <2> QED BY <1>c, <1>4, <1>6, <1>11, <2>2, <2>3, <2>4, <2>5, <2>6, OneThreadOnePair
<1>13. CASE ~ x.only
  <2> DEFINE y == [x EXCEPT !.at = "own"]
  <2>1. /\ y \in Threads /\ y.at = "own" /\ y.pair = p /\ y.side = s
        /\ y.same = x.same /\ y.only = x.only
    BY <1>1 DEF Threads
  <2>2. th' = [th EXCEPT ![t] = y]
    BY <1>1, <1>4, <1>13 DEF Threads
  <2> HIDE DEF y
  <2>3. th'[t] = y /\ \A v \in Thread \ {t} : th'[v] = th[v]
    BY <1>1, <2>2
  <2>4. ThreadOK(t)'
    BY <1>0, <1>c, <2>1, <2>3 DEF ThreadOK, Closers
  <2>5. PairOK(p)'
    <3>1. Begun(p)'
      BY <1>0, <1>e, <2>1, <2>3 DEF Begun, AtWork
    <3>2. HalfClosed(p)'
      BY <1>e, <1>a, <1>2, <1>5, <1>6, <1>9, <2>1, <2>3 DEF HalfClosed, AtWork, Closers
    <3>3. ~ Settled(p)'
      BY <2>1, <2>3 DEF Settled, Closers
    <3> QED BY <1>10, <3>1, <3>2, <3>3 DEF PairOK, Whole
  <2>6. FdsApart'
    BY <1>8, <2>1, <2>2
  <2> HIDE DEF x
  <2> QED BY <1>c, <1>4, <1>6, <1>11, <2>1, <2>3, <2>4, <2>5, <2>6, OneThreadOnePair
<1> QED BY <1>12, <1>13

\* The thread's own socket is closed, which no epoll watches any more.
LEMMA CloseOwnConnected ==
    ASSUME Before, NEW t \in Thread, CloseOwn(t)
    PROVE  Connected'
<1> DEFINE x == th[t]
<1>0. x.at = "own" /\ "accept" \in Thread
  BY DEF CloseOwn, Thread
<1>1. th \in [Thread -> Threads] /\ x \in Threads /\ x.pair \in Pair
  BY <1>0, ClosingAlone DEF Closers
<1>a. /\ x.side \in Side /\ Other(x.side) \in Side
      /\ Other(x.side) # x.side /\ Side = {x.side, Other(x.side)}
  BY <1>0, ClosingAlone DEF Closers
<1>b. /\ item \in Items /\ openFd \subseteq Fd /\ NoFd \notin Fd
      /\ reg \in [Side -> SUBSET [fd : Fd, pair : Pair]]
  BY <1>0, ClosingAlone DEF Closers
<1>c. Connected /\ ThreadOK(t) /\ PairOK(x.pair)
  BY <1>0, ClosingAlone DEF Closers
<1>d. FdsApart
  BY <1>0, ClosingAlone DEF Closers
<1>e. \A v \in Thread \ {t} : th[v].pair = x.pair => ~ AtWork(v)
  BY <1>0, ClosingAlone DEF Closers
<1> PICK p \in Pair : p = x.pair
  BY <1>1
<1> PICK s \in Side, o \in Side : s = x.side /\ o = Other(x.side)
  BY <1>a
<1>2. o # s /\ Side = {s, o} /\ Other(o) = s /\ Other(s) = o
  BY <1>a DEF Other, Side
<1>f. x.same
  BY <1>c DEF ThreadOK
<1> PICK fd : fd = item[p][s].sock
  OBVIOUS
<1>3. /\ item' = [item EXCEPT ![p][s].open = FALSE]
      /\ openFd' = openFd \ {fd}
      /\ reg' = [r \in Side |-> {e \in reg[r] : e.fd # fd}]
      /\ active' = active
      /\ th' = [th EXCEPT ![t].at = "ownResume"]
  BY <1>f DEF CloseOwn, Shut, mgr
<1>4. p \notin active /\ item[p][s].open /\ ~ item[p][o].open /\ ~ Noticed(p)
  BY <1>0, <1>c DEF PairOK, HalfClosed, Closers
<1>5. /\ ~ item'[p][s].open /\ item'[p][s].sock = fd
      /\ item'[p][o] = item[p][o]
      /\ \A q \in Pair \ {p} : item'[q] = item[q]
  <2>1. item' = [item EXCEPT ![p][s].open = FALSE]
    BY <1>3
  <2>2. item[p][s] \in Item /\ item[p] \in [Side -> Item]
    BY <1>b DEF Items
  <2>3. item'[p][s] = [item[p][s] EXCEPT !.open = FALSE]
    BY <1>b, <2>1, <2>2 DEF Items
  <2>4. ~ item'[p][s].open /\ item'[p][s].sock = fd
    BY <2>2, <2>3 DEF Item
  <2> QED BY <1>b, <1>2, <2>1, <2>2, <2>4 DEF Items
<1>6. /\ th'[t].at = "ownResume" /\ th'[t].pair = p /\ th'[t].side = s
      /\ th'[t].same = x.same /\ th'[t].only = x.only
      /\ \A v \in Thread \ {t} : th'[v] = th[v]
  BY <1>1, <1>3 DEF Threads
<1>7. \A q \in Pair, r \in Side : item[q][r].open /\ (q # p \/ r # s) => item[q][r].sock # fd
  BY <1>b, <1>d, <1>4 DEF FdsApart
<1>8. reg' = reg
  <2>1. ASSUME NEW r \in Side PROVE {e \in reg[r] : e.fd # fd} = reg[r]
    <3>1. \A e \in reg[r] : /\ e.pair \in Pair /\ e.pair # p
                            /\ item[e.pair][r].open /\ item[e.pair][r].sock = e.fd
      BY <1>b, <1>d, <1>4 DEF FdsApart, Noticed
    <3> QED BY <1>7, <3>1
  <2>2. reg' = [r \in Side |-> reg[r]]
    BY <1>3, <2>1
  <2> QED BY <1>b, <2>2
<1>9. ThreadOK(t)'
  BY <1>0, <1>c, <1>6 DEF ThreadOK, Closers
<1>10. \A q \in Pair, r \in Side :
         item'[q][r].open => item[q][r].open /\ item'[q][r] = item[q][r] /\ (q # p \/ r # s)
  BY <1>2, <1>5
<1>11. FdsApart'
  <2>0. openFd' = openFd \ {fd}
    BY <1>3
  <2>a. \A q \in Pair, r \in Side : item[q][r].open => item[q][r].sock \in openFd
    BY <1>d DEF FdsApart
  <2>1. \A q \in Pair, r \in Side : item'[q][r].open => item'[q][r].sock \in openFd'
    BY <2>a, <2>0, <1>7, <1>10
  <2>2. ASSUME NEW q \in Pair, NEW u \in Pair, NEW r \in Side, NEW z \in Side,
               item'[q][r].open, item'[u][z].open, item'[q][r].sock = item'[u][z].sock
        PROVE  q = u /\ r = z
    <3>1. /\ item[q][r].open /\ item[u][z].open
          /\ item[q][r].sock = item[u][z].sock
      BY <1>10, <2>2
    <3> QED BY <1>d, <3>1 DEF FdsApart
  <2>3. ASSUME NEW r \in Side, NEW e \in reg'[r]
        PROVE  item'[e.pair][r].open /\ item'[e.pair][r].sock = e.fd
    <3>1. e \in reg[r] /\ e.pair # p /\ e.pair \in Pair
      BY <1>b, <1>4, <1>8 DEF Noticed
    <3> QED BY <1>b, <1>d, <1>5, <3>1 DEF FdsApart
  <2>4. th'["accept"].at \in {"add", "attach", "bind", "bound"} =>
          /\ th'["accept"].fd \in openFd'
          /\ \A q \in Pair, r \in Side :
               item'[q][r].open => item'[q][r].sock # th'["accept"].fd
    <3> SUFFICES ASSUME th'["accept"].at \in {"add", "attach", "bind", "bound"}
                 PROVE  /\ th'["accept"].fd \in openFd'
                        /\ \A q \in Pair, r \in Side :
                             item'[q][r].open => item'[q][r].sock # th'["accept"].fd
      OBVIOUS
    <3>1. th'["accept"] = th["accept"]
      BY <1>0, <1>6
    <3>2. /\ th["accept"].fd \in openFd
          /\ \A q \in Pair, r \in Side :
               item[q][r].open => item[q][r].sock # th["accept"].fd
      BY <1>b, <1>d, <3>1 DEF FdsApart
    <3>3. th["accept"].fd # fd
      BY <1>4, <3>2
    <3> QED BY <2>0, <1>10, <3>1, <3>2, <3>3
  <2> QED BY <2>1, <2>2, <2>3, <2>4 DEF FdsApart
<1>12. PairOK(p)'
  <2>1. Begun(p)'
    BY <1>0, <1>e, <1>6 DEF Begun, AtWork
  <2>2. Reset(p)'
    <3>1. \A v \in Thread : th[v].pair = p => th[v].at \notin {"partnerResume", "ownResume"}
      BY <1>0, <1>e DEF AtWork
    <3>2. item[p][o].sock = NoFd
      BY <1>c, <1>4, <3>1 DEF PairOK, Reset
    <3> QED BY <1>2, <1>5, <1>6, <3>2 DEF Reset
  <2>3. ~ Noticed(p)' /\ p \notin active'
    BY <1>3, <1>4, <1>8 DEF Noticed
  <2>4. HalfClosed(p)'
    BY <1>e, <1>a, <1>2, <1>4, <1>5, <1>6, <2>3 DEF HalfClosed, AtWork, Closers
  <2>5. ~ Settled(p)'
    BY <1>6 DEF Settled, Closers
  <2> QED BY <2>1, <2>2, <2>4, <2>5 DEF PairOK, Whole
<1>13. th[t].pair = p
  OBVIOUS
<1> HIDE DEF x
<1> QED BY <1>c, <1>3, <1>5, <1>6, <1>8, <1>9, <1>11, <1>12, <1>13, OneThreadOnePair

\* The thread's own item is reset, and the pair is closed.
LEMMA ResumeOwnConnected ==
    ASSUME Before, NEW t \in Thread, ResumeOwn(t)
    PROVE  Connected'
<1> DEFINE x == th[t]
<1>0. x.at = "ownResume" /\ "accept" \in Thread
  BY DEF ResumeOwn, Thread
<1>1. th \in [Thread -> Threads] /\ x \in Threads /\ x.pair \in Pair
  BY <1>0, ClosingAlone DEF Closers
<1>a. /\ x.side \in Side /\ Other(x.side) \in Side
      /\ Other(x.side) # x.side /\ Side = {x.side, Other(x.side)}
  BY <1>0, ClosingAlone DEF Closers
<1>b. /\ item \in Items /\ openFd \subseteq Fd /\ NoFd \notin Fd
      /\ reg \in [Side -> SUBSET [fd : Fd, pair : Pair]]
  BY <1>0, ClosingAlone DEF Closers
<1>c. Connected /\ ThreadOK(t) /\ PairOK(x.pair)
  BY <1>0, ClosingAlone DEF Closers
<1>d. FdsApart
  BY <1>0, ClosingAlone DEF Closers
<1>e. \A v \in Thread \ {t} : th[v].pair = x.pair => ~ AtWork(v)
  BY <1>0, ClosingAlone DEF Closers
<1> PICK p \in Pair : p = x.pair
  BY <1>1
<1> PICK s \in Side, o \in Side : s = x.side /\ o = Other(x.side)
  BY <1>a
<1>2. o # s /\ Side = {s, o} /\ Other(o) = s /\ Other(s) = o
  BY <1>a DEF Other, Side
<1>3. Resumed(p, s) = th
  <2>1. \A u \in Thread : ~ (Noted(u) /\ th[u].pair = p)
    BY <1>0, <1>e DEF Noted, AtWork
  <2> QED BY <1>1, <2>1, NobodyNoted
<1>4. /\ item' = [item EXCEPT ![p][s].sock = NoFd]
      /\ UNCHANGED <<active, openFd, reg>> /\ Finish(t, th)
  BY <1>3 DEF ResumeOwn, mgr
<1>5. p \notin active /\ ~ item[p][s].open /\ ~ item[p][o].open /\ ~ Noticed(p)
  BY <1>0, <1>c DEF PairOK, HalfClosed, Closers
<1>6. /\ ~ item'[p][s].open /\ item'[p][s].sock = NoFd
      /\ item'[p][o] = item[p][o]
      /\ \A q \in Pair \ {p} : item'[q] = item[q]
  <2>1. item[p][s] \in Item /\ item[p] \in [Side -> Item]
    BY <1>a, <1>b DEF Items
  <2>2. item'[p][s] = [item[p][s] EXCEPT !.sock = NoFd]
    BY <1>a, <1>b, <1>4, <2>1 DEF Items
  <2>3. ~ item'[p][s].open /\ item'[p][s].sock = NoFd
    BY <1>5, <2>1, <2>2 DEF Item
  <2> QED BY <1>a, <1>b, <1>2, <1>4, <2>1, <2>3 DEF Items
<1>7. \A q \in Pair, r \in Side :
         /\ item'[q][r].open => item[q][r].open /\ item'[q][r] = item[q][r]
         /\ item[q][r].open => item'[q][r].open /\ item'[q][r] = item[q][r]
  BY <1>2, <1>5, <1>6
<1>8. PICK y \in Threads :
         /\ th' = [th EXCEPT ![t] = y] /\ y.same /\ y.side = "client"
         /\ \/ t = "accept" /\ y.at = "toFree" /\ y.pair = p /\ y.only
            \/ y.at = "idle" /\ ~ y.only
  BY <1>1, <1>4, FinishPlaces
<1>9. th'[t] = y /\ \A v \in Thread \ {t} : th'[v] = th[v]
  BY <1>1, <1>8
<1>10. FdsApart'
  <2>1. th'["accept"].at \in {"add", "attach", "bind", "bound"} => th'["accept"] = th["accept"]
    BY <1>0, <1>8, <1>9
  <2>2. \A r \in Side : \A e \in reg[r] : e.pair \in Pair
    BY DEF Before, LocksInv, TypeInv, TypeOK
  <2>3. openFd' = openFd /\ reg' = reg
    BY <1>4
  <2>4. \A q \in Pair, r \in Side : item'[q][r].open => item'[q][r].sock \in openFd'
    BY <1>b, <1>d, <1>7, <2>3 DEF FdsApart
  <2>5. ASSUME NEW q \in Pair, NEW u \in Pair, NEW r \in Side, NEW z \in Side,
               item'[q][r].open, item'[u][z].open, item'[q][r].sock = item'[u][z].sock
        PROVE  q = u /\ r = z
    BY <1>b, <1>d, <1>7, <2>5 DEF FdsApart
  <2>6. ASSUME NEW r \in Side, NEW e \in reg'[r]
        PROVE  item'[e.pair][r].open /\ item'[e.pair][r].sock = e.fd
    BY <1>b, <1>d, <1>7, <2>2, <2>3 DEF FdsApart
  <2>7. th'["accept"].at \in {"add", "attach", "bind", "bound"} =>
          /\ th'["accept"].fd \in openFd'
          /\ \A q \in Pair, r \in Side :
               item'[q][r].open => item'[q][r].sock # th'["accept"].fd
    BY <1>b, <1>d, <1>7, <2>1, <2>3 DEF FdsApart
  <2> QED BY <2>4, <2>5, <2>6, <2>7 DEF FdsApart
<1>11. ThreadOK(t)'
  BY <1>8, <1>9 DEF ThreadOK
<1>12. PairOK(p)'
  <2>1. Begun(p)'
    BY <1>0, <1>e, <1>8, <1>9 DEF Begun, AtWork
  <2>2. Reset(p)'
    <3>1. \A v \in Thread \ {t} : th[v].pair = p => th[v].at \notin {"partnerResume", "ownResume"}
      BY <1>e DEF AtWork
    <3>2. item[p][o].sock = NoFd
      BY <1>0, <1>c, <1>2, <1>5, <3>1 DEF PairOK, Reset
    <3> QED BY <1>2, <1>6, <3>2 DEF Reset
  <2>3. HalfClosed(p)'
    BY <1>e, <1>a, <1>8, <1>9 DEF HalfClosed, AtWork, Closers
  <2>4. ~ Noticed(p)' /\ p \notin active'
    BY <1>4, <1>5 DEF Noticed
  <2>5. \A r \in Side : ~ item'[p][r].open
    BY <1>2, <1>5, <1>6
  <2>6. Whole(p)'
    BY <2>4, <2>5 DEF Whole, Side
  <2> QED BY <2>1, <2>2, <2>3, <2>6 DEF PairOK
<1>13. th[t].pair = p
  OBVIOUS
<1> HIDE DEF x
<1> QED BY <1>c, <1>4, <1>6, <1>8, <1>9, <1>10, <1>11, <1>12, <1>13, OneThreadOnePair

-----------------------------------------------------------------------------

\* Before any client connects no pair has a socket.
LEMMA SocketsInit == Init => SocketInv
<1> SUFFICES ASSUME Init PROVE Connected /\ ~ Meet
  BY DEF SocketInv
<1>1. /\ Idle.at = "idle" /\ Idle.same /\ ~ Idle.only /\ Idle.side = "client"
      /\ ~ Closed.open /\ Closed.sock = NoFd
  BY DEF Idle, Closed
<1>2. /\ \A t \in Thread : th[t] = Idle
      /\ \A p \in Pair, s \in Side : item[p][s] = Closed
      /\ \A s \in Side : reg[s] = {}
      /\ active = {} /\ "accept" \in Thread
      /\ "forward" \in Side
  BY DEF Init, Thread, Side
<1>3. ~ Meet
  BY <1>1, <1>2 DEF Meet, AtWork
<1>4. FdsApart
  BY <1>1, <1>2 DEF FdsApart
<1>5. \A t \in Thread : ThreadOK(t)
  BY <1>1, <1>2 DEF ThreadOK
<1>6. ASSUME NEW p \in Pair PROVE PairOK(p)
  <2>1. ~ Noticed(p) /\ ~ OnPair(p)
    BY <1>1, <1>2 DEF Noticed, OnPair
  <2>2. Begun(p)
    BY <1>1, <1>2 DEF Begun
  <2>3. Reset(p)
    BY <1>1, <1>2 DEF Reset
  <2>4. HalfClosed(p)
    BY <1>1, <1>2 DEF HalfClosed, Closers
  <2>5. Whole(p)
    BY <1>1, <1>2, <2>1 DEF Whole
  <2> QED BY <2>2, <2>3, <2>4, <2>5 DEF PairOK
<1> QED BY <1>3, <1>4, <1>5, <1>6 DEF Connected

\* Every step keeps the invariant of the sockets.
LEMMA SocketsNext ==
    LocksInv /\ PairInv /\ SocketInv /\ [Next]_vars => SocketInv'
<1> SUFFICES ASSUME LocksInv, PairInv, SocketInv, [Next]_vars, ~ overlap'
             PROVE  ~ Meet' /\ Connected'
  BY DEF SocketInv
<1>1. CASE UNCHANGED vars
  <2>1. ~ overlap /\ ~ Meet /\ Connected
    BY <1>1 DEF SocketInv, vars
  <2> USE <1>1 DEF vars
  <2>2. ~ Meet'
    BY <2>1 DEF Meet, AtWork
  <2>3. FdsApart'
    BY <2>1 DEF Connected, FdsApart
  <2>4. \A t \in Thread : ThreadOK(t)'
    BY <2>1 DEF Connected, ThreadOK
  <2>5. ASSUME NEW p \in Pair PROVE PairOK(p)'
    BY <2>1 DEF Connected, PairOK, Begun, Reset, HalfClosed, Whole, Settled, OnPair,
                Noticed
  <2> QED BY <2>2, <2>3, <2>4, <2>5 DEF Connected
<1>2. CASE Next
  <2>1. Watched
    BY <1>2 DEF Next, Closing, ToFree, ClosePartner, ResumePartner, CloseOwn, ResumeOwn,
                Reading, EpollWait, ForwardLock, Serve, Fail, FindIdle, CloseIdle,
                Accept, Accepting, AddItem, Attach, NoSocket, ConnectFails, Connect,
                BindLock, BindGone, Bind
  <2>2. ~ overlap /\ ~ Meet'
    BY <2>1
  <2>3. Before
    BY <2>2 DEF Before, SocketInv
  <2>4. ASSUME NEW t \in Thread, Closing(t) PROVE Connected'
    BY <2>3, <2>4, ToFreeConnected, ClosePartnerConnected, ResumePartnerConnected,
       CloseOwnConnected, ResumeOwnConnected DEF Closing
  <2>5. ASSUME NEW t \in Side, Reading(t) PROVE Connected'
    BY <2>3, <2>5, ReadingConnected
  <2>6. CASE FindIdle \/ CloseIdle
    BY <2>2, <2>3, <2>6, IdleConnected
  <2>7. CASE Accept
    BY <2>2, <2>3, <2>7, AcceptConnected
  <2>8. CASE Accepting
    BY <2>2, <2>3, <2>8, AddItemConnected, AttachConnected, ConnectConnected,
       BindGoneConnected, BindConnected DEF Accepting
  <2> QED BY <1>2, <2>2, <2>4, <2>5, <2>6, <2>7, <2>8 DEF Next
<1> QED BY <1>1, <1>2

\* As long as no two threads have been at work on one pair: the sockets of the
\* pairs are as their threads have left them, whatever was closed, made again
\* and connected in the meantime.
THEOREM SocketInvHolds == Spec => [](LocksInv /\ PairInv /\ SocketInv)
BY LocksInit, PairsInit, SocketsInit, LocksNext, PairsNext, SocketsNext, PTL DEF Spec

\* ... no connection in the map that nobody is at work on has one end only, or
\* an end that no epoll watches (onEventSocketBind, onEventClientClose,
\* onEventForwardClose, CloseSocket).
THEOREM NoHalfOpenHolds == Spec => []NoHalfOpen
<1>1. TypeOK /\ SocketInv => NoHalfOpen
  <2> SUFFICES ASSUME TypeOK, SocketInv, ~ overlap, NEW p \in active,
                      \A t \in Thread : AtWork(t) \/ t = "accept" => th[t].pair # p,
                      NEW s \in Side
               PROVE  /\ item[p][s].open /\ item[p][s].sock \in openFd
                      /\ [fd |-> item[p][s].sock, pair |-> p] \in reg[s]
    BY DEF NoHalfOpen
  <2>1. p \in Pair /\ Connected /\ "accept" \in Thread
    BY DEF TypeOK, SocketInv, Thread
  <2>2. Settled(p) /\ ~ OnPair(p)
    BY <2>1 DEF Settled, AtWork, Closers, OnPair
  <2>3. Whole(p) /\ FdsApart
    BY <2>1 DEF Connected, PairOK
  <2>4. item[p][s].open /\ [fd |-> item[p][s].sock, pair |-> p] \in reg[s]
    BY <2>2, <2>3 DEF Whole
  <2> QED BY <2>1, <2>3, <2>4 DEF FdsApart
<1>2. LocksInv => TypeOK
  BY DEF LocksInv, TypeInv
<1> QED BY <1>1, <1>2, SocketInvHolds, PTL

\* ... the assertions of onEventForwardShutdown and of CloseSocket hold: a game
\* server's connection that closes is one of the map, and what is to be closed
\* has not been reset since.
THEOREM AssertionsHoldHolds == Spec => []AssertionsHold
<1>1. LocksInv /\ SocketInv => AssertionsHold
  <2> SUFFICES ASSUME LocksInv, SocketInv, ~ overlap PROVE AssertionsHold
    BY DEF AssertionsHold
  <2>1. Connected /\ ~ Meet /\ "forward" \in Thread
    BY DEF SocketInv, Thread, Side
  <2>2. \A t \in Thread : th[t].same
    BY <2>1 DEF Connected, ThreadOK
  <2>3. ASSUME th["forward"].at = "toFree" PROVE th["forward"].pair \in active
    <3> DEFINE t == "forward"
    <3>1. AtWork(t) /\ th[t].pair \in Pair
      BY <2>1, <2>3 DEF AtWork, LocksInv, TypeInv, Placed
    <3> PICK p \in Pair : p = th[t].pair
      BY <3>1
    <3>2. \A v \in Thread \ {t} : th[v].pair = p => ~ AtWork(v)
      BY <2>1, <3>1, AloneAtWork
    <3>3. Settled(p)
      BY <2>3, <3>2 DEF Settled, AtWork, Closers
    <3>4. ThreadOK(t) /\ PairOK(p)
      BY <2>1 DEF Connected
    <3>5. ~ th[t].only /\ th[t].side = "forward"
      BY <2>3, <3>4 DEF ThreadOK
    <3>6. item[p]["forward"].open
      BY <2>1, <2>3, <3>4, <3>5 DEF PairOK, Begun
    <3> QED BY <3>3, <3>4, <3>6 DEF PairOK, Whole
  <2> QED BY <2>2, <2>3 DEF AssertionsHold
<1> QED BY <1>1, SocketInvHolds, PTL
=============================================================================
