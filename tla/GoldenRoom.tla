------------------------------ MODULE GoldenRoom ------------------------------
(***************************************************************************)
(* The room of the golden game server: its pool of Player objects, its     *)
(* tables and the choice of a table when a user logs in                    *)
(* (model/Room.cpp, process/LoginComingProc.cpp).  The login of a human    *)
(* asks MoneyServer first and goes on when the answer is there; everything  *)
(* else is one step of the event loop.                                     *)
(*                                                                         *)
(* Of a hand only this is kept: who plays, and that the table is at play.  *)
(* GoldenTable has the rest.                                               *)
(***************************************************************************)
EXTENDS Integers, FiniteSets, FiniteSetsExt, Functions

CONSTANTS
    Humans, Robots,     \* the users
    NoUser,             \* the id of a Player object nobody has used
    Ip,                 \* [Humans -> addresses]
    MaxUsers,           \* max_user_count: Player objects
    MaxTables,          \* max_table_count
    NumPlayer,          \* chairs of a table
    MaxAsked            \* bound: logins waiting for MoneyServer

ASSUME RoomAssumption ==
    /\ Humans \cap Robots = {} /\ NoUser \notin Humans \cup Robots
    /\ MaxUsers \in Nat \ {0} /\ MaxTables \in Nat \ {0}
    /\ NumPlayer \in 2..5 /\ MaxAsked \in Nat

Users == Humans \cup Robots
Tables == 0 .. MaxTables - 1
Slots == 0 .. MaxUsers - 1      \* the Player objects, in the order of the pool

VARIABLES
    player,     \* Slots -> the id, status and table of a Player object
    seated,     \* Tables -> the Player objects in player_array
    count,      \* Tables -> m_nCountPlayer
    locked,     \* Tables -> kicktimeflag
    asked,      \* Humans -> the logins MoneyServer has not answered
    down        \* the server has dereferenced a NULL table

vars == <<player, seated, count, locked, asked, down>>

\* What the room consists of
Hall == [player |-> player, seated |-> seated, count |-> count,
         locked |-> locked]

Becomes(h) ==
    /\ player' = h.player /\ seated' = h.seated
    /\ count' = h.count /\ locked' = h.locked
    /\ UNCHANGED down

NoTable == -1

Fresh == [id |-> NoUser, status |-> "LOGOUT", tid |-> NoTable]

Init ==
    /\ player = [i \in Slots |-> Fresh]
    /\ seated = [t \in Tables |-> {}]
    /\ count = [t \in Tables |-> 0]
    /\ locked = [t \in Tables |-> FALSE]
    /\ asked = [u \in Humans |-> 0]
    /\ down = FALSE

-----------------------------------------------------------------------------
(* The Player objects. *)

InTab(h, t, u) == \E i \in h.seated[t] : h.player[i].id = u
AtPlay(h, t) == \E i \in h.seated[t] : h.player[i].status = "ACTIVE"

\* A mutated form: the object of a user who has logged out is not found.
PlayerUID_Online(u) ==
    {i \in Slots : player[i].id = u /\ player[i].status # "LOGOUT"}

\* getPlayerUID: the objects that bear the id, whatever their status
PlayerUID(u) == {i \in Slots : player[i].id = u}

\* getAvailablePlayer
Available == {i \in Slots : player[i].status = "LOGOUT"}

\* playerLeave for the seated objects of I: each is initialised, and a table
\* where one player is left, or none, is unlocked.
Leave(h, I) ==
    LET out == {t \in Tables : h.seated[t] \cap I # {}}
        n == [t \in Tables |-> h.count[t] - Cardinality(h.seated[t] \cap I)]
    IN [player |-> [i \in Slots |-> IF i \in I THEN Fresh ELSE h.player[i]],
        seated |-> [t \in Tables |-> h.seated[t] \ I],
        count |-> n,
        locked |-> [t \in Tables |->
                      h.locked[t] /\ (t \in out => n[t] >= 2)]]

\* Player::leave for an object without a table: the id stays.
LoggedOut(p) == [p EXCEPT !.status = "LOGOUT", !.tid = NoTable]

-----------------------------------------------------------------------------
(* The choice of a table. *)

NotFull(h, t) == h.count[t] < NumPlayer
Empty(h, t) == h.count[t] = 0

\* CheckIP: no human at the table has the address.  Robots have none.
CheckIP(h, t, u) ==
    \A i \in h.seated[t] :
        h.player[i].id \in Humans => Ip[h.player[i].id] # Ip[u]

\* The first table of T, as the loops find it
FirstOf(T) == IF T = {} THEN NoTable ELSE Min(T)

\* A mutated form: only a table where somebody waits is offered.
Unlocked_Company(h) ==
    {t \in Tables : NotFull(h, t) /\ ~ Empty(h, t) /\ ~ h.locked[t]}

\* getAvailableTable()
Unlocked(h) == {t \in Tables : NotFull(h, t) /\ ~ h.locked[t]}

\* getAvailableTable(uid, ip): a table with a free chair where neither the user
\* nor his address is, else an empty one.
Second(h, u) ==
    LET T == {t \in Tables : NotFull(h, t) /\ ~ InTab(h, t, u)
                             /\ CheckIP(h, t, u)}
    IN IF T # {} THEN FirstOf(T) ELSE FirstOf({t \in Tables : Empty(h, t)})

\* A mutated form: the first choice is kept, whoever sits there.
Choose_Given(h, u, t) ==
    IF t \notin Tables \/ h.locked[t] THEN FirstOf(Unlocked(h)) ELSE t

\* doResponse: the table the user asked for, unless it does not exist, is
\* locked or has his address.
Choose(h, u, t) ==
    LET t1 == IF t \notin Tables \/ h.locked[t] THEN FirstOf(Unlocked(h)) ELSE t
    IN IF t1 # NoTable /\ ~ CheckIP(h, t1, u) THEN Second(h, u) ELSE t1

\* playerComming on a chair that is free
Sit(h, i, t) ==
    [h EXCEPT !.player[i].status = "COMING", !.player[i].tid = t,
              !.seated[t] = @ \cup {i}, !.count[t] = @ + 1]

\* playerComming for a user who is at the table with another object: the new
\* one takes the status and the chair of the old one, which is initialised.
Replace(h, i, t) ==
    LET old == CHOOSE j \in h.seated[t] : h.player[j].id = h.player[i].id
    IN [h EXCEPT !.player[i].status = h.player[old].status,
                 !.player[i].tid = t,
                 !.player[old] = Fresh,
                 !.seated[t] = (@ \ {old}) \cup {i}]

\* setKickTimer
KickTimer(h, t) ==
    [h EXCEPT !.locked[t] = @ \/ (h.count[t] > 1 /\ ~ AtPlay(h, t))]

-----------------------------------------------------------------------------
(* Logging in. *)

\* The table a human enters: the chosen one, or the second choice when that is
\* full.  NoTable stands for the NULL that is then dereferenced.
Entered(h, u, t) ==
    IF InTab(h, t, u) \/ NotFull(h, t) THEN t ELSE Second(h, u)

\* The logins that wait for MoneyServer
Waiting == SumFunction(asked)

\* LoginComingProc::doRequest for a human: MoneyServer is asked.  The table the
\* user wants is kept with the request; it may be any, so it is chosen when the
\* answer comes.
LoginComing(u) ==
    /\ ~ down /\ Waiting < MaxAsked
    /\ asked' = [asked EXCEPT ![u] = @ + 1]
    /\ UNCHANGED <<player, seated, count, locked, down>>

Answered(u) ==
    /\ ~ down /\ asked[u] > 0
    /\ asked' = [asked EXCEPT ![u] = @ - 1]

\* MoneyServer refuses, or the call times out.
NoAnswer(u) ==
    /\ Answered(u)
    /\ UNCHANGED <<player, seated, count, locked, down>>

\* A mutated form: an object whose user is at a table is taken over.
SeatedAlready_Never(u) == FALSE

\* The first object that bears the id is at a table.
SeatedAlready(u) ==
    PlayerUID(u) # {} /\ player[Min(PlayerUID(u))].tid \in Tables

\* doResponse: the user is at a table, or no object is free.
TurnAway(u) ==
    /\ Answered(u)
    /\ \/ SeatedAlready(u)
       \/ PlayerUID(u) = {} /\ Available = {}
    /\ UNCHANGED <<player, seated, count, locked, down>>

\* The object of a user who may come in: his own, or one that is free
MayEnter(u) ==
    /\ Answered(u)
    /\ ~ SeatedAlready(u)
    /\ PlayerUID(u) # {} \/ Available # {}

ObjectFor(u) ==
    Min(IF PlayerUID(u) # {} THEN PlayerUID(u) ELSE Available)

Coming(i, u) ==
    [Hall EXCEPT !.player[i].id = u, !.player[i].status = "COMING"]

\* doResponse: too few coins.
TooPoor(u) ==
    LET i == ObjectFor(u)
    IN /\ MayEnter(u)
       /\ Becomes([Coming(i, u) EXCEPT !.player[i] = LoggedOut(@)])

\* doResponse: no table is found.  The object stays taken, without a table.
Stranded(u, t) ==
    LET h == Coming(ObjectFor(u), u)
    IN /\ MayEnter(u)
       /\ Choose(h, u, t) = NoTable
       /\ Becomes(h)

\* doResponse: the user takes a chair, and the others have time to get ready.
TakeChair(u, t) ==
    LET i == ObjectFor(u)
        h == Coming(i, u)
        in == Entered(h, u, Choose(h, u, t))
        h1 == IF InTab(h, in, u) THEN Replace(h, i, in) ELSE Sit(h, i, in)
    IN /\ MayEnter(u)
       /\ Choose(h, u, t) # NoTable
       /\ in # NoTable
       /\ Becomes(KickTimer(h1, in))

\* doResponse: the chosen table is full and no other is found.
NullTable(u, t) ==
    LET h == Coming(ObjectFor(u), u)
    IN /\ MayEnter(u)
       /\ Choose(h, u, t) # NoTable
       /\ Entered(h, u, Choose(h, u, t)) = NoTable
       /\ down' = TRUE
       /\ UNCHANGED <<player, seated, count, locked>>

\* doRequest for a robot: a free object each time, no address, no lock unless
\* the table is chosen for it, and no answer to wait for.
RobotComing(u, t) ==
    LET i == Min(Available)
        h == Coming(i, u)
        t1 == IF t \in Tables THEN t ELSE FirstOf(Unlocked(h))
        t2 == IF t1 = NoTable \/ InTab(h, t1, u) \/ NotFull(h, t1)
              THEN t1 ELSE FirstOf(Unlocked(h))
    IN /\ ~ down /\ Available # {}
       /\ UNCHANGED asked
       /\ Becomes(IF t2 = NoTable THEN h
                  ELSE IF InTab(h, t2, u) THEN Replace(h, i, t2)
                  ELSE Sit(h, i, t2))

-----------------------------------------------------------------------------
(* Leaving, and what the tables do. *)

\* LeaveProcess and LogoutProcess, and GameOver for those who dropped or have
\* too few coins.
LeaveTable(t, I) ==
    /\ ~ down /\ I # {} /\ I \subseteq seated[t]
    /\ Becomes(Leave(Hall, I))
    /\ UNCHANGED asked

\* The kick timer of a table without a hand: unlock, put out who is not ready.
TableKickTimeOut(t) ==
    LET h == [Hall EXCEPT !.locked[t] = FALSE]
    IN /\ ~ down /\ locked[t]
       /\ \E late \in SUBSET seated[t] :
            Becomes(IF AtPlay(h, t) \/ count[t] = 1 THEN h ELSE Leave(h, late))
       /\ UNCHANGED asked

\* GameStart: all are ready.
GameStart(t) ==
    /\ ~ down /\ ~ AtPlay(Hall, t) /\ count[t] > 1
    /\ Becomes([Hall EXCEPT !.locked[t] = FALSE,
                            !.player = [i \in Slots |->
                                IF i \in seated[t]
                                THEN [@[i] EXCEPT !.status = "ACTIVE"]
                                ELSE @[i]]])
    /\ UNCHANGED asked

\* GameOver: those who played may play again, and have time to get ready.
GameOver(t) ==
    LET h == [Hall EXCEPT !.player = [i \in Slots |->
                                IF i \in seated[t]
                                THEN [@[i] EXCEPT !.status = "COMING"]
                                ELSE @[i]]]
    IN /\ ~ down /\ AtPlay(Hall, t)
       /\ Becomes(KickTimer(h, t))
       /\ UNCHANGED asked

\* The objects in use that are at no table
Stray == {i \in Slots : player[i].status # "LOGOUT" /\ player[i].tid = NoTable}

\* A mutated form: who is at no table is left alone.
PutOut_Seated(I) == Leave(Hall, I \ Stray)

\* Whom the heart beat timer puts out: the table of the object lets it go, or
\* the object itself logs out.
PutOut(I) ==
    LET h == Leave(Hall, I \ Stray)
    IN [h EXCEPT !.player = [i \in Slots |->
            IF i \in I \cap Stray THEN LoggedOut(@[i]) ELSE @[i]]]

\* RoomTimer::HeartTimeOut: the clients of I have been silent too long.
HeartTimeOut(I) ==
    /\ ~ down
    /\ I \subseteq {i \in Slots : player[i].status \notin {"LOGOUT", "ACTIVE"}}
    /\ Becomes(PutOut(I))
    /\ UNCHANGED asked

AnyTable == Tables \cup {NoTable}

Next ==
    \/ \E u \in Humans :
         \/ LoginComing(u) \/ NoAnswer(u) \/ TurnAway(u) \/ TooPoor(u)
         \/ \E t \in AnyTable :
              Stranded(u, t) \/ TakeChair(u, t) \/ NullTable(u, t)
    \/ \E u \in Robots, t \in AnyTable : RobotComing(u, t)
    \/ \E t \in Tables : \/ \E I \in SUBSET seated[t] : LeaveTable(t, I)
                         \/ TableKickTimeOut(t) \/ GameStart(t) \/ GameOver(t)
    \/ \E I \in SUBSET Slots : HeartTimeOut(I)

Spec == Init /\ [][Next]_vars

\* No client refreshes the active time of an object without a table, so some
\* heart beat finds every such object silent for too long.
StraysFound ==
    /\ Stray # {}
    /\ \E others \in SUBSET (Slots \ Stray) : HeartTimeOut(Stray \cup others)

FairSpec == Spec /\ WF_vars(StraysFound)

-----------------------------------------------------------------------------
(* What the room promises. *)

\* A Player object is on a chair of the table it points to and of no other,
\* m_nCountPlayer counts them, no user has two chairs at a table, and whoever
\* has logged out has no chair.
ChairsAgree ==
    /\ \A i \in Slots, t \in Tables : i \in seated[t] <=> player[i].tid = t
    /\ \A t \in Tables :
         /\ count[t] = Cardinality(seated[t]) /\ count[t] <= NumPlayer
         /\ IsInjective([i \in seated[t] |-> player[i].id])
    /\ \A i \in Slots : player[i].tid # NoTable => player[i].status # "LOGOUT"

\* However many logins of one human wait for MoneyServer, whatever he does in
\* between and whatever became of his object, he has one Player object.
OneObject ==
    \A i, j \in Slots :
        (player[i].id = player[j].id /\ player[i].id \in Humans) => i = j

\* Two humans with one address are never at the same table.
AddressesApart ==
    \A t \in Tables : \A i, j \in seated[t] :
        (player[i].id \in Humans /\ player[j].id \in Humans
           /\ Ip[player[i].id] = Ip[player[j].id]) => i = j

\* A login fails for want of a table, or brings the server down, only when no
\* table is empty.
TurnedAwayWhenFull ==
    [][(Stray' \ Stray # {} \/ down' # down) =>
          \A t \in Tables : count[t] > 0]_vars

\* Again and again every object that a failed login left without a table is
\* free, so no such login uses up the pool.
StraysFreed == []<>(Stray = {} \/ down)
===============================================================================
