------------------------------ MODULE AllocServer ------------------------------
(***************************************************************************)
(* AllocServer (src/Common/AllocServer): game servers report themselves    *)
(* and the players of their tables; a user who wants to play is given the  *)
(* table with the most players that has a chair left.                      *)
(*                                                                         *)
(* A game server has one connection and makes a new one when it breaks;    *)
(* what it sent may be lost then, and AllocServer may notice the end of    *)
(* the old connection after the new one is there.  Both may restart.       *)
(***************************************************************************)
EXTENDS Integers, Sequences, FiniteSets, FiniteSetsExt, Functions

CONSTANTS
    Svid,           \* the ids of the game servers
    Conn,           \* the connections AllocServer can hold
    None,
    MaxTab,         \* tables of a game server
    NumPlayer,      \* numplayer: chairs of a table
    MaxWire         \* bound: messages on a connection

ASSUME AllocAssumption ==
    /\ Svid \subseteq Nat \ {0}
    /\ MaxTab \in Nat \ {0} /\ NumPlayer \in Nat \ {0} /\ MaxWire \in Nat \ {0}
    /\ MaxTab < 65536
    /\ None \notin Nat /\ None \notin [status : {0, 1}, tabs : Nat]

\* (svid << 16) + i.  The last one is past the tables of the server.
TidOf(s, i) == s * 65536 + i
Tid == {TidOf(s, i) : s \in Svid, i \in 0 .. MaxTab}
SvidOf(t) == t \div 65536
TablesOf(s) == {TidOf(s, i) : i \in 0 .. MaxTab - 1}
Tables == UNION {TablesOf(s) : s \in Svid}

VARIABLES
    server,     \* _svidsMap: Svid -> its status and currTabCount, or None
    handler,    \* serversMap: Svid -> the connection of the server, or None
    list,       \* _tablelistMap: Tid -> m_nUserCount, or None
    bucket,     \* _tableUserCountMap: the tables offered, by players
    link,       \* Conn -> whose it is, the id of its ClientHandler,
                \* whether the game server still holds it, and whether it has
                \* been told to report again
    wire,       \* Conn -> messages on the way to AllocServer
    seats       \* Tables -> the players there really are

book == <<server, handler, list, bucket>>
vars == <<server, handler, list, bucket, link, wire, seats>>

Unused == [svid |-> None, id |-> None, up |-> FALSE, again |-> FALSE]

Init ==
    /\ server = [s \in Svid |-> None]
    /\ handler = [s \in Svid |-> None]
    /\ list = [t \in Tid |-> None]
    /\ bucket = [n \in 0 .. NumPlayer |-> {}]
    /\ link = [c \in Conn |-> Unused]
    /\ wire = [c \in Conn |-> <<>>]
    /\ seats = [t \in Tables |-> 0]

Known(s) == server[s] # None
Links(s) == {c \in Conn : link[c].svid = s}
Linked(s) == \E c \in Links(s) : link[c].up

-----------------------------------------------------------------------------
(* The game servers. *)

Taken(s) == {t \in TablesOf(s) : seats[t] > 0}

\* A mutated form: nothing is said when the connection is made.
Greeting_None(s) == <<>>

\* OnConnected: reportSeverInfo, with the tables that are not empty
Greeting(s) == <<[type |-> "report", tables |-> Restrict(seats, Taken(s))]>>

Connect(s, c) ==
    /\ ~ Linked(s) /\ link[c].svid = None
    /\ link' = [link EXCEPT ![c] = [Unused EXCEPT !.svid = s, !.up = TRUE]]
    /\ wire' = [wire EXCEPT ![c] = Greeting(s)]
    /\ UNCHANGED <<book, seats>>

Send(c, m) ==
    /\ link[c].up /\ Len(wire[c]) < MaxWire
    /\ wire' = [wire EXCEPT ![c] = Append(@, m)]

\* updateTableUserCount: somebody comes to table t or leaves it.  Without a
\* connection nobody is told.
SeatChange(t) ==
    /\ \E n \in {seats[t] - 1, seats[t] + 1} \cap (0 .. NumPlayer) :
         /\ seats' = [seats EXCEPT ![t] = n]
         /\ \/ \E c \in Links(SvidOf(t)) :
                 Send(c, [type |-> "seat", tid |-> t, count |-> n])
            \/ ~ Linked(SvidOf(t)) /\ UNCHANGED wire
    /\ UNCHANGED <<book, link>>

\* updateSeverInfo, by the report timer
ReportTimer(c) ==
    /\ Send(c, [type |-> "update", tabs |-> Cardinality(Taken(link[c].svid))])
    /\ UNCHANGED <<book, link, seats>>

\* processUpdateResponse with -1: report again.
UpdateFailed(c) ==
    /\ link[c].again
    /\ Send(c, [type |-> "report",
                tables |-> Restrict(seats, Taken(link[c].svid))])
    /\ link' = [link EXCEPT ![c].again = FALSE]
    /\ UNCHANGED <<book, seats>>

\* The connection of s breaks; or s restarts, and its tables are empty.
Cut(s) ==
    /\ \E c \in Links(s) :
         /\ link[c].up
         /\ link' = [link EXCEPT ![c].up = FALSE, ![c].again = FALSE]
    /\ \/ UNCHANGED seats
       \/ seats' = [t \in Tables |-> IF SvidOf(t) = s THEN 0 ELSE seats[t]]
    /\ UNCHANGED <<book, wire>>

-----------------------------------------------------------------------------
(* AllocServer: the tables. *)

\* A mutated form: the table is looked for where it will be.
Filed_Wrong(b, t, old, n) == [b EXCEPT ![n] = (@ \ {t}) \cup {t}]

\* A table that had old players is filed under n.
Filed(b, t, old, n) ==
    [k \in DOMAIN b |-> IF k = n THEN b[k] \cup {t}
                        ELSE IF k = old THEN b[k] \ {t} ELSE b[k]]

\* updateTableUserCount, for a server AllocServer knows
UpdateTableUserCount(t, n) ==
    IF ~ Known(SvidOf(t)) THEN UNCHANGED book
    ELSE /\ list' = [list EXCEPT ![t] = n]
         /\ bucket' = Filed(bucket, t, list[t], n)
         /\ UNCHANGED <<server, handler>>

\* addTable, for each table of the report: one whose count is unchanged stays
\* where it is filed, and is not filed anew if it is nowhere.
AddTables(f) ==
    LET new == {t \in DOMAIN f : list[t] # f[t]}
    IN /\ list' = [t \in Tid |-> IF t \in new THEN f[t] ELSE list[t]]
       /\ bucket' = [n \in DOMAIN bucket |->
                       (bucket[n] \ new) \cup {t \in new : f[t] = n}]

\* A mutated form: the last to report is the server, whoever was.
Unregistered_Always(s) == TRUE

\* getServer finds none.
Unregistered(s) == ~ Known(s)

\* SetServerInfoProc: a server that is not known is registered, with the
\* connection if Redis takes it; its tables are noted.
SetServerInfo(c, m) ==
    LET s == link[c].svid
    IN /\ IF Unregistered(s)
          THEN \E status \in {0, 1}, redis \in BOOLEAN :
                 /\ server' = [server EXCEPT ![s] = [status |-> status,
                                                     tabs |-> 0]]
                 /\ handler' = IF redis THEN [handler EXCEPT ![s] = c]
                               ELSE handler
                 /\ link' = IF redis THEN [link EXCEPT ![c].id = s] ELSE link
          ELSE UNCHANGED <<server, handler, link>>
       /\ AddTables(m.tables)

\* UpdateMemberProc: the tables at play are counted anew.  Of an unknown server
\* only Redis is told.  The answer is -1 when Redis fails.
UpdateMember(c, m) ==
    LET s == link[c].svid
    IN /\ server' = IF Known(s) THEN [server EXCEPT ![s].tabs = m.tabs]
                    ELSE server
       /\ \E redis \in BOOLEAN :
            link' = [link EXCEPT ![c].again = @ \/ (~ redis /\ link[c].up)]
       /\ UNCHANGED <<handler, list, bucket>>

\* The next message of a connection
Receive(c) ==
    /\ wire[c] # <<>>
    /\ wire' = [wire EXCEPT ![c] = Tail(@)]
    /\ LET m == Head(wire[c])
       IN \/ m.type = "report" /\ SetServerInfo(c, m)
          \/ m.type = "update" /\ UpdateMember(c, m)
          \/ m.type = "seat" /\ UpdateTableUserCount(m.tid, m.count)
                             /\ UNCHANGED link
    /\ UNCHANGED seats

\* ClientHandler::OnClose: the server that registered on the connection is
\* forgotten, its tables are not.  What is still on the way is lost.
OnClose(c) ==
    LET s == link[c].id
    IN /\ link[c].svid # None /\ ~ link[c].up
       /\ link' = [link EXCEPT ![c] = Unused]
       /\ wire' = [wire EXCEPT ![c] = <<>>]
       /\ server' = IF s = None THEN server ELSE [server EXCEPT ![s] = None]
       /\ handler' = IF s = None THEN handler ELSE [handler EXCEPT ![s] = None]
       /\ UNCHANGED <<list, bucket, seats>>

\* SetServerStatProc: a server is opened or closed to new users.
SetServerStat(s) ==
    /\ Known(s)
    /\ server' = [server EXCEPT ![s].status = 1 - @]
    /\ UNCHANGED <<handler, list, bucket, link, wire, seats>>

\* AllocServer restarts: it knows nothing.
Restart ==
    /\ server' = [s \in Svid |-> None]
    /\ handler' = [s \in Svid |-> None]
    /\ list' = [t \in Tid |-> None]
    /\ bucket' = [n \in 0 .. NumPlayer |-> {}]
    /\ link' = [c \in Conn |-> Unused]
    /\ wire' = [c \in Conn |-> <<>>]
    /\ UNCHANGED seats

-----------------------------------------------------------------------------
(* AllocServer: a table for a user. *)

Open(s) == Known(s) /\ server[s].status = 1
Forgotten(T) == {t \in T : ~ Known(SvidOf(t))}

\* The tables of bucket n that may be given out
Offered(n) == {t \in bucket[n] : Open(SvidOf(t))}

\* getListTable from the fullest bucket down: the first table that is offered
\* goes up one bucket.  Tables of forgotten servers met on the way are dropped.
GetListTable ==
    LET K == {n \in 0 .. NumPlayer - 1 : Offered(n) # {}}
        k == Max(K)
        t == Min(Offered(k))
        met(n) == IF n > k THEN Forgotten(bucket[n])
                  ELSE IF n = k THEN {x \in Forgotten(bucket[n]) : x < t}
                  ELSE {}
        kept == [n \in 0 .. NumPlayer |->
                   IF n = NumPlayer THEN bucket[n] ELSE bucket[n] \ met(n)]
    IN /\ K # {}
       /\ bucket' = Filed(kept, t, k, k + 1)
       /\ list' = [list EXCEPT ![t] = k + 1]
       /\ UNCHANGED <<server, handler, link, wire, seats>>

\* getAllocTable when no table is offered: the next table of an open server,
\* which may be one that is listed already.
NewTable(s) ==
    LET t == TidOf(s, server[s].tabs)
        kept == [n \in 0 .. NumPlayer |->
                   IF n = NumPlayer THEN bucket[n]
                   ELSE bucket[n] \ Forgotten(bucket[n])]
    IN /\ \A n \in 0 .. NumPlayer - 1 : Offered(n) = {}
       /\ Open(s) /\ server[s].tabs <= MaxTab
       /\ IF list[t] # None
          THEN bucket' = kept /\ UNCHANGED <<list, server>>
          ELSE /\ bucket' = [kept EXCEPT ![1] = @ \cup {t}]
               /\ list' = [list EXCEPT ![t] = 1]
               /\ server' = [server EXCEPT ![s].tabs = @ + 1]
       /\ UNCHANGED <<handler, link, wire, seats>>

Next ==
    \/ \E s \in Svid : \/ \E c \in Conn : Connect(s, c)
                       \/ Cut(s) \/ SetServerStat(s) \/ NewTable(s)
    \/ \E t \in Tables : SeatChange(t)
    \/ \E c \in Conn : ReportTimer(c) \/ UpdateFailed(c) \/ Receive(c)
                       \/ OnClose(c)
    \/ GetListTable
    \/ Restart

\* A game server reconnects, what arrives is read and an end is noticed.
Fairness ==
    /\ \A s \in Svid : WF_vars(\E c \in Conn : Connect(s, c))
    /\ \A c \in Conn : WF_vars(Receive(c)) /\ WF_vars(OnClose(c))

Spec == Init /\ [][Next]_vars /\ Fairness

-----------------------------------------------------------------------------
(* What AllocServer promises. *)

\* Whatever is lost, reported twice or given out in between: a table that is
\* offered is offered under the number of players it is listed with, and so
\* only once.
FiledOnce == \A n \in DOMAIN bucket : \A t \in bucket[n] : list[t] = n

\* A connection with the id of a server is the one connection AllocServer sends
\* to for it, and the server is known: OnClose finds what it takes down.
IdIsServer ==
    \A c \in Conn :
        LET s == link[c].id IN s # None => (Known(s) /\ handler[s] = c)

\* A game server that stays connected is known in the end, whatever crashed
\* before, if the end of its last connection was noticed before each new one.
ServerFound ==
    \A s \in Svid :
        ([](Cardinality(Links(s)) < 2) /\ <>[]Linked(s)) => <>[]Known(s)
===============================================================================
