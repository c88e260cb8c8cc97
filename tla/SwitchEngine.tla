----------------------------- MODULE SwitchEngine -----------------------------
(***************************************************************************)
(* The connections of the forwarding server, TCPNetworkEngine.cpp.         *)
(*                                                                         *)
(* A connection is a pair of items, one to the client and one to the game  *)
(* server, which share a mutex.  CForwardItemMgr keeps the pairs: it hands *)
(* an accepted client a pair of its free queue, or a new one, and a pair   *)
(* whose client or game server closes goes back to the queue.  Each call   *)
(* of the manager holds its mutex and is one step.                         *)
(*                                                                         *)
(* Four threads meet at a pair.  The two threads that read and write hold  *)
(* the mutex of the pair while they handle an event.  The accepting thread *)
(* takes it only to bind the connection to the game server, and the main   *)
(* thread, which closes the pairs that are idle, never takes it.           *)
(***************************************************************************)
EXTENDS Integers, Sequences, FiniteSetsExt

CONSTANTS
    MaxPairs,       \* bound: the pairs that are ever made
    MaxFd,          \* the file descriptors the process may have open
    Bounded         \* bound: nothing begins once two threads have overlapped

ASSUME EngineAssumption ==
    MaxPairs \in Nat \ {0} /\ MaxFd \in Nat \ {0} /\ Bounded \in BOOLEAN

Pair == 1..MaxPairs
Fd == 1..MaxFd
NoFd == 0           \* the -1 of the code

\* Each reading thread serves the items of one side.
Side == {"client", "forward"}
Other(side) == IF side = "client" THEN "forward" ELSE "client"
Thread == Side \cup {"accept", "timer"}
Nobody == "nobody"

VARIABLES
    stored,         \* _vecNetworkItemStorage.size(): the pairs are 1..stored
    active,         \* _mapNetworkItemActive
    free,           \* _queNetworkItemBuffer
    item,           \* the two items of each pair
    openFd,         \* the descriptors that are open
    reg,            \* what each epoll watches: descriptors with their pair
    lock,           \* who holds the mutex of each pair
    th,             \* where each thread is
    overlap         \* two threads were at work on a pair at the same time

mgr == <<stored, active, free>>
vars == <<stored, active, free, item, openFd, reg, lock, th, overlap>>

Closed == [open |-> FALSE, sock |-> NoFd]
Idle == [at |-> "idle", pair |-> 0, side |-> "client", same |-> TRUE,
         only |-> FALSE, fd |-> NoFd]

Init ==
    /\ stored = 0 /\ active = {} /\ free = <<>>
    /\ item = [p \in Pair |-> [s \in Side |-> Closed]]
    /\ openFd = {}
    /\ reg = [s \in Side |-> {}]
    /\ lock = [p \in Pair |-> Nobody]
    /\ th = [t \in Thread |-> Idle]
    /\ overlap = FALSE

-----------------------------------------------------------------------------
(* Threads, descriptors and locks. *)

At(t, at) == th[t].at = at
Goto(t, at) == th' = [th EXCEPT ![t].at = at]

\* An idle thread begins something.
Begins(t) == At(t, "idle") /\ (Bounded => ~ overlap)

\* The kernel hands out the lowest descriptor that is not in use.
NewFd == Min(Fd \ openFd)

\* close: epoll forgets a closed descriptor.
Shut(fd) ==
    /\ openFd' = openFd \ {fd}
    /\ reg' = [s \in Side |-> {e \in reg[s] : e.fd # fd}]

Unlocked(t) == [p \in Pair |-> IF lock[p] = t THEN Nobody ELSE lock[p]]

\* The end of CloseSocket: the reading threads unlock and wait for the next
\* event.  The accepting thread then reports the failed bind with a
\* onEventClientShutdown of its own, unless that is what has just ended.
Finish(t, u) ==
    /\ lock' = Unlocked(t)
    /\ th' = [u EXCEPT ![t] =
         IF t = "accept" /\ ~ @.only
         THEN [Idle EXCEPT !.at = "toFree", !.pair = u[t].pair, !.only = TRUE]
         ELSE Idle]

\* CloseSocket of the item where the thread is: closed already, or to be closed.
\* The item's _usRountID is passed along and compared when its turn comes.
StartClose(t, u) ==
    IF item[u[t].pair][u[t].side].open
    THEN /\ th' = [u EXCEPT ![t].at = "toFree", ![t].fd = NoFd]
         /\ UNCHANGED lock
    ELSE Finish(t, u)

\* resumeData moves the _usRountID on, which others noted to close the item.
Noted(u) ==
    th[u].at \in {"toFree", "partner", "partnerResume", "own"} /\ ~ th[u].only

Resumed(p, side) ==
    [u \in Thread |-> IF Noted(u) /\ th[u].pair = p /\ th[u].side = side
                      THEN [th[u] EXCEPT !.same = FALSE] ELSE th[u]]

\* A thread changes a pair, and does not merely wait for the lock, for the game
\* server's answer or for its turn.
AtWork(t) ==
    th[t].at \notin {"idle", "event", "idlePair", "add", "connect", "bind"}

Meet == \E t, u \in Thread :
            t # u /\ AtWork(t) /\ AtWork(u) /\ th[t].pair = th[u].pair

\* Part of every step: what the other variables become decides.
Watched == overlap' = (overlap \/ Meet')

-----------------------------------------------------------------------------
(* Closing a pair, by whichever thread. *)

\* A mutated form: the pair stays in the map.
ToFree_Kept(t) ==
    /\ At(t, "toFree")
    /\ LET p == th[t].pair
       IN /\ p \in active
          /\ free' = Append(free, p)
          /\ Goto(t, "partner")
    /\ UNCHANGED <<stored, active, item, openFd, reg, lock>>
    /\ Watched

\* ClientItemToFree and ForwardItemToFree: the pair is free for the accepting
\* thread before its sockets are closed.  When it is in no map only this side's
\* events are removed; on the forward side this is an assert(false).
ToFree(t) ==
    /\ At(t, "toFree")
    /\ LET p == th[t].pair
           side == th[t].side
       IN IF p \in active
          THEN /\ active' = active \ {p}
               /\ free' = Append(free, p)
               /\ Goto(t, "partner")
               /\ UNCHANGED <<reg, lock>>
          ELSE /\ reg' = [reg EXCEPT ![side] =
                    {e \in @ : e.fd # item[p][side].sock}]
               /\ IF th[t].only THEN Finish(t, th)
                  ELSE Goto(t, "own") /\ UNCHANGED lock
               /\ UNCHANGED <<active, free>>
    /\ UNCHANGED <<stored, item, openFd>>
    /\ Watched

\* A mutated form: the other item still counts as open.
ClosePartner_StaysOpen(t) ==
    /\ At(t, "partner")
    /\ LET p == th[t].pair
           other == Other(th[t].side)
           fd == item[p][other].sock
       IN /\ openFd' = openFd \ {fd}
          /\ reg' = [s \in Side |-> {e \in reg[s] :
                       e.fd \notin {fd, item[p][s].sock}}]
    /\ Goto(t, "partnerResume")
    /\ UNCHANGED <<mgr, lock, item>>
    /\ Watched

\* onEventClientClose or onEventForwardClose: the events of both sides are
\* removed, and the socket of the other side is closed ...
ClosePartner(t) ==
    /\ At(t, "partner")
    /\ LET p == th[t].pair
           other == Other(th[t].side)
           fd == item[p][other].sock
       IN /\ item' = [item EXCEPT ![p][other].open = FALSE]
          /\ openFd' = openFd \ {fd}
          /\ reg' = [s \in Side |-> {e \in reg[s] :
                       e.fd \notin {fd, item[p][s].sock}}]
    /\ Goto(t, "partnerResume")
    /\ UNCHANGED <<mgr, lock>>
    /\ Watched

\* ... and its item reset.
ResumePartner(t) ==
    /\ At(t, "partnerResume")
    /\ LET p == th[t].pair
           other == Other(th[t].side)
       IN /\ item' = [item EXCEPT ![p][other].sock = NoFd]
          /\ IF th[t].only THEN Finish(t, Resumed(p, other))
             ELSE /\ th' = [Resumed(p, other) EXCEPT ![t].at = "own"]
                  /\ UNCHANGED lock
    /\ UNCHANGED <<mgr, openFd, reg>>
    /\ Watched

\* TCPNetworkItem::CloseSocket: nothing happens when the item has been reset
\* meanwhile; a build with assertions stops there.
CloseOwn(t) ==
    /\ At(t, "own")
    /\ LET p == th[t].pair
           side == th[t].side
       IN IF th[t].same
          THEN /\ item' = [item EXCEPT ![p][side].open = FALSE]
               /\ Shut(item[p][side].sock)
               /\ Goto(t, "ownResume")
               /\ UNCHANGED lock
          ELSE Finish(t, th) /\ UNCHANGED <<item, openFd, reg>>
    /\ UNCHANGED mgr
    /\ Watched

ResumeOwn(t) ==
    /\ At(t, "ownResume")
    /\ LET p == th[t].pair
           side == th[t].side
       IN /\ item' = [item EXCEPT ![p][side].sock = NoFd]
          /\ Finish(t, Resumed(p, side))
    /\ UNCHANGED <<mgr, openFd, reg>>
    /\ Watched

Closing(t) ==
    \/ ToFree(t) \/ ClosePartner(t) \/ ResumePartner(t)
    \/ CloseOwn(t) \/ ResumeOwn(t)

-----------------------------------------------------------------------------
(* The reading threads. *)

\* epoll_wait reports an item; its pair may change hands before it is locked.
EpollWait(t) ==
    /\ Begins(t)
    /\ \E e \in reg[t] :
         th' = [th EXCEPT ![t] =
                  [Idle EXCEPT !.at = "event", !.pair = e.pair, !.side = t]]
    /\ UNCHANGED <<mgr, item, openFd, reg, lock>>
    /\ Watched

ForwardLock(t) ==
    /\ At(t, "event")
    /\ lock[th[t].pair] = Nobody
    /\ lock' = [lock EXCEPT ![th[t].pair] = t]
    /\ Goto(t, "handle")
    /\ UNCHANGED <<mgr, item, openFd, reg>>
    /\ Watched

\* onEventEpollIn and onEventEpollOut, when all goes well
Serve(t) ==
    /\ At(t, "handle")
    /\ item[th[t].pair][t].sock \in openFd
    /\ th' = [th EXCEPT ![t] = Idle]
    /\ lock' = Unlocked(t)
    /\ UNCHANGED <<mgr, item, openFd, reg>>
    /\ Watched

\* The stream ended, an error or a bad packet, or the other side takes no data
Fail(t) ==
    /\ At(t, "handle")
    /\ StartClose(t, th)
    /\ UNCHANGED <<mgr, item, openFd, reg>>
    /\ Watched

Reading(t) == EpollWait(t) \/ ForwardLock(t) \/ Serve(t) \/ Fail(t)

-----------------------------------------------------------------------------
(* The main thread. *)

\* checkTimeout notes a pair of the map as idle.  The items of a pair that was
\* just taken from the queue have no ticks yet and count as idle.
FindIdle ==
    /\ Begins("timer")
    /\ \E p \in active :
         th' = [th EXCEPT !["timer"] = [Idle EXCEPT !.at = "idlePair", !.pair = p]]
    /\ UNCHANGED <<mgr, item, openFd, reg, lock>>
    /\ Watched

\* It closes the pair's client later, whoever is at work on the pair.
CloseIdle ==
    /\ At("timer", "idlePair")
    /\ StartClose("timer", th)
    /\ UNCHANGED <<mgr, item, openFd, reg>>
    /\ Watched

-----------------------------------------------------------------------------
(* The accepting thread. *)

\* socketAccept and getFreeNetworkItem
Accept ==
    /\ Begins("accept")
    /\ openFd # Fd
    /\ openFd' = openFd \cup {NewFd}
    /\ IF free # <<>>
       THEN /\ active' = active \cup {Head(free)}
            /\ free' = Tail(free)
            /\ th' = [th EXCEPT !["accept"] =
                 [Idle EXCEPT !.at = "attach", !.pair = Head(free), !.fd = NewFd]]
       ELSE /\ stored < MaxPairs
            /\ th' = [th EXCEPT !["accept"] =
                 [Idle EXCEPT !.at = "add", !.fd = NewFd]]
            /\ UNCHANGED <<active, free>>
    /\ UNCHANGED <<stored, item, reg, lock>>
    /\ Watched

\* addNetworkItem, when the queue was empty
AddItem ==
    /\ At("accept", "add")
    /\ stored' = stored + 1
    /\ active' = active \cup {stored'}
    /\ th' = [th EXCEPT !["accept"].at = "attach", !["accept"].pair = stored']
    /\ UNCHANGED <<free, item, openFd, reg, lock>>
    /\ Watched

\* attach, without the lock of the pair
Attach ==
    /\ At("accept", "attach")
    /\ item' = [item EXCEPT ![th["accept"].pair]["client"] =
                  [open |-> TRUE, sock |-> th["accept"].fd]]
    /\ th' = [th EXCEPT !["accept"].at = "connect", !["accept"].fd = NoFd]
    /\ UNCHANGED <<mgr, openFd, reg, lock>>
    /\ Watched

\* onEventSocketBind gets no descriptor for the socket to the game server; the
\* client's is not closed.
NoSocket ==
    /\ At("accept", "connect")
    /\ th' = [th EXCEPT !["accept"].at = "toFree", !["accept"].only = TRUE]
    /\ UNCHANGED <<mgr, item, openFd, reg, lock>>
    /\ Watched

\* A mutated form: the failure is returned and the pair is left as it is.
ConnectFails_Left ==
    /\ At("accept", "connect")
    /\ openFd # Fd
    /\ th' = [th EXCEPT !["accept"] = Idle]
    /\ UNCHANGED <<mgr, item, openFd, reg, lock>>
    /\ Watched

\* It is made but does not connect, and is closed again.
ConnectFails ==
    /\ At("accept", "connect")
    /\ openFd # Fd
    /\ StartClose("accept", th)
    /\ UNCHANGED <<mgr, item, openFd, reg>>
    /\ Watched

Connect ==
    /\ At("accept", "connect")
    /\ openFd # Fd
    /\ openFd' = openFd \cup {NewFd}
    /\ th' = [th EXCEPT !["accept"].at = "bind", !["accept"].fd = NewFd]
    /\ UNCHANGED <<mgr, item, reg, lock>>
    /\ Watched

BindLock ==
    /\ At("accept", "bind")
    /\ lock[th["accept"].pair] = Nobody
    /\ lock' = [lock EXCEPT ![th["accept"].pair] = "accept"]
    /\ Goto("accept", "bound")
    /\ UNCHANGED <<mgr, item, openFd, reg>>
    /\ Watched

\* A mutated form: the pair that is gone returns without the unlock.
BindGone_Locked ==
    /\ At("accept", "bound")
    /\ th["accept"].pair \notin active
    /\ Shut(th["accept"].fd)
    /\ th' = [th EXCEPT !["accept"] = Idle]
    /\ UNCHANGED <<mgr, item, lock>>
    /\ Watched

\* The pair was closed while the connection was made.
BindGone ==
    /\ At("accept", "bound")
    /\ th["accept"].pair \notin active
    /\ Shut(th["accept"].fd)
    /\ StartClose("accept", th)
    /\ UNCHANGED <<mgr, item>>
    /\ Watched

\* The game server's socket is attached and both are given to their epolls.
\* The client's is refused when it was closed meanwhile.
Bind ==
    /\ At("accept", "bound")
    /\ LET p == th["accept"].pair
           fd == item[p]["client"].sock
       IN /\ p \in active
          /\ item' = [item EXCEPT ![p]["forward"] =
                        [open |-> TRUE, sock |-> th["accept"].fd]]
          /\ IF fd \in openFd
             THEN /\ reg' = [reg EXCEPT
                       !["client"] = @ \cup {[fd |-> fd, pair |-> p]},
                       !["forward"] = @ \cup {[fd |-> th["accept"].fd, pair |-> p]}]
                  /\ th' = [th EXCEPT !["accept"] = Idle]
                  /\ lock' = Unlocked("accept")
             ELSE StartClose("accept", th) /\ UNCHANGED reg
    /\ UNCHANGED <<mgr, openFd>>
    /\ Watched

Accepting ==
    \/ AddItem \/ Attach \/ NoSocket \/ ConnectFails \/ Connect
    \/ BindLock \/ BindGone \/ Bind

-----------------------------------------------------------------------------

Next ==
    \/ \E t \in Thread : Closing(t)
    \/ \E t \in Side : Reading(t)
    \/ FindIdle \/ CloseIdle
    \/ Accept \/ Accepting

Spec == Init /\ [][Next]_vars

-----------------------------------------------------------------------------
(* Properties. *)

Threads == [at : {"idle", "event", "handle", "toFree", "partner",
                  "partnerResume", "own", "ownResume", "idlePair", "add",
                  "attach", "connect", "bind", "bound"},
            pair : Pair \cup {0}, side : Side, same : BOOLEAN,
            only : BOOLEAN, fd : Fd \cup {NoFd}]

TypeOK ==
    /\ stored \in 0..MaxPairs
    /\ active \subseteq Pair
    /\ free \in Seq(Pair)
    /\ item \in [Pair -> [Side -> [open : BOOLEAN, sock : Fd \cup {NoFd}]]]
    /\ openFd \subseteq Fd
    /\ reg \in [Side -> SUBSET [fd : Fd, pair : Pair]]
    /\ lock \in [Pair -> Thread \cup {Nobody}]
    /\ th \in [Thread -> Threads]
    /\ overlap \in BOOLEAN

\* Every pair that was ever made is in the map or in the queue, in one of the
\* two and once, whatever threads close it at the same time
\* (getFreeNetworkItem, addNetworkItem, ClientItemToFree, ForwardItemToFree).
Queued == {free[i] : i \in 1..Len(free)}

PairsConserved ==
    /\ active \cup Queued = 1..stored
    /\ active \cap Queued = {}
    /\ \A i, j \in 1..Len(free) : free[i] = free[j] => i = j

\* A pair that is in the map and that nobody is at work on has both its sockets,
\* and both are watched: no connection is left with one end, although events and
\* timeouts are acted on when the pair may serve another connection already.
\* It takes that no two threads are at work on a pair at once, which the code
\* does not ensure: a pair is handed out again before it is closed, and the main
\* and the accepting thread close without the lock.
NoHalfOpen ==
    ~ overlap =>
        \A p \in active :
          (\A t \in Thread : AtWork(t) \/ t = "accept" => th[t].pair # p) =>
            \A s \in Side :
                /\ item[p][s].open
                /\ item[p][s].sock \in openFd
                /\ [fd |-> item[p][s].sock, pair |-> p] \in reg[s]

\* The assertions of onEventForwardShutdown, that the pair whose game server
\* closes is in the map, and of CloseSocket, that nobody has reset the item
\* since it was decided to close it, under the same condition.
AssertionsHold ==
    ~ overlap =>
        /\ At("forward", "toFree") => th["forward"].pair \in active
        /\ \A t \in Thread : At(t, "own") => th[t].same

\* A mutex of a pair is held by a thread that is still to give it back: no path
\* of onEventSocketBind or of an event's handler ends with the lock, and nobody
\* waits for a pair for good (forward_lock, forward_unlock).
LocksGivenBack ==
    \A p \in Pair : lock[p] # Nobody =>
        /\ th[lock[p]].pair = p
        /\ th[lock[p]].at \in {"handle", "toFree", "partner", "partnerResume",
                               "own", "ownResume", "bound"}
=============================================================================
