---------------------------- MODULE AllocServer_proofs ----------------------------
(***************************************************************************)
(* Proofs about AllocServer: its books stay in order for any number of     *)
(* game servers, connections and tables, whatever is lost or comes late.   *)
(***************************************************************************)
EXTENDS AllocServer, FiniteSums, FiniteSetTheorems, SequenceTheorems

Infos == [status : {0, 1}, tabs : Nat]
Counts == UNION {[T -> Nat] : T \in SUBSET Tables}
Messages == [type : {"report"}, tables : Counts]
            \cup [type : {"update"}, tabs : Nat]
            \cup [type : {"seat"}, tid : Tables, count : 0 .. NumPlayer]
EndFields == [svid : Svid \cup {None}, id : Svid \cup {None},
           up : BOOLEAN, again : BOOLEAN]
Ends == {e \in EndFields : e.up => e.svid \in Svid}

TypeInv ==
    /\ server \in [Svid -> Infos \cup {None}]
    /\ handler \in [Svid -> Conn \cup {None}]
    /\ list \in [Tid -> Nat \cup {None}]
    /\ bucket \in [0 .. NumPlayer -> SUBSET Tid]
    /\ link \in [Conn -> Ends]
    /\ wire \in [Conn -> Seq(Messages)]
    /\ seats \in [Tables -> 0 .. NumPlayer]

\* The inductive invariant
BookInv == TypeInv /\ FiledOnce /\ IdIsServer

Book == TypeInv' /\ FiledOnce' /\ IdIsServer'

-----------------------------------------------------------------------------
(* Tables and messages. *)

\* Table numbers of the servers are table numbers.
LEMMA TidsTyped ==
    /\ Tid \subseteq Nat /\ Tables \subseteq Tid
    /\ \A s \in Svid, i \in 0 .. MaxTab : TidOf(s, i) \in Tid
<1>1. Tid \subseteq Nat
  BY AllocAssumption DEF Tid, TidOf
<1>2. \A s \in Svid, i \in 0 .. MaxTab : TidOf(s, i) \in Tid
  BY DEF Tid
<1>3. Tables \subseteq Tid
  BY <1>2, AllocAssumption DEF Tables, TablesOf
<1> QED BY <1>1, <1>2, <1>3

\* A bounded set of numbers that is not empty has a greatest element.
LEMMA MaxIsMember ==
    ASSUME NEW n \in Nat, NEW K \in SUBSET (0 .. n), K # {}
    PROVE  Max(K) \in K
<1> DEFINE D == {d \in 0 .. n : n - d \in K}
<1>1. PICK x \in K : TRUE
  OBVIOUS
<1>2. n - x \in 0 .. n /\ n - (n - x) = x
  OBVIOUS
<1>3. D \in SUBSET Nat /\ D # {}
  <2>1. n - x \in D
    BY <1>2
  <2>2. \A d \in D : d \in Nat
    OBVIOUS
  <2> HIDE DEF D
  <2> QED BY <2>1, <2>2
<1>4. Min(D) \in D /\ \A d \in D : Min(D) <= d
  <2> HIDE DEF D
  <2> QED BY <1>3, MinIsLeast
<1> DEFINE m == n - Min(D)
<1>5. m \in K /\ Min(D) \in 0 .. n
  BY <1>4
<1>6. ASSUME NEW k \in K PROVE m >= k
  <2>1. n - k \in 0 .. n /\ n - (n - k) = k
    OBVIOUS
  <2>2. n - k \in D
    BY <2>1
  <2>3. Min(D) <= n - k
    BY <1>4, <2>2
  <2> HIDE DEF D
  <2> QED BY <1>5, <2>1, <2>3
<1> HIDE DEF m
<1> QED BY <1>5, <1>6 DEF Max

\* How many tables of a server are taken is a number.
LEMMA TakenCount ==
    ASSUME NEW s \in Svid
    PROVE  Taken(s) \subseteq Tables /\ Cardinality(Taken(s)) \in Nat
<1>1. Taken(s) \subseteq TablesOf(s) /\ TablesOf(s) \subseteq Tables
  BY DEF Taken, Tables
<1>2. Taken(s) \in SUBSET Nat
  BY <1>1, TidsTyped
<1>3. \A t \in Taken(s) : t <= s * 65536 + MaxTab
  BY <1>1, AllocAssumption DEF TablesOf, TidOf
<1>4. s * 65536 + MaxTab \in Nat
  BY AllocAssumption
<1>5. IsFiniteSet(Taken(s))
  <2> DEFINE T == Taken(s)
             n == s * 65536 + MaxTab
  <2>1. T \in SUBSET Nat /\ n \in Nat /\ \A t \in T : t <= n
    BY <1>2, <1>3, <1>4
  <2> HIDE DEF T, n
  <2>2. IsFiniteSet(T)
    BY <2>1, FS_BoundedSetOfNaturals
  <2> QED BY <2>2 DEF T
<1> QED BY <1>1, <1>5, FS_CardinalityType

\* The report a game server sends when it reconnects is a message.
LEMMA ReportTyped ==
    ASSUME TypeInv, NEW s \in Svid
    PROVE  [type |-> "report", tables |-> Restrict(seats, Taken(s))] \in Messages
<1>1. Restrict(seats, Taken(s)) \in [Taken(s) -> Nat]
  BY TakenCount DEF Restrict, TypeInv
<1>2. Restrict(seats, Taken(s)) \in Counts
  BY <1>1, TakenCount DEF Counts
<1> QED BY <1>2 DEF Messages

-----------------------------------------------------------------------------
(* What the books depend on. *)

\* A step that leaves the books alone, and no connection gets an id.
LEMMA BooksAlone ==
    ASSUME BookInv, UNCHANGED book,
           link' \in [Conn -> Ends], wire' \in [Conn -> Seq(Messages)],
           seats' \in [Tables -> 0 .. NumPlayer],
           \A c \in Conn : link'[c].id \in {link[c].id, None}
    PROVE  Book
<1>1. TypeInv'
  BY DEF BookInv, TypeInv, book
<1>2. FiledOnce'
  BY DEF BookInv, FiledOnce, book
<1>3. IdIsServer'
  BY DEF BookInv, IdIsServer, Known, book
<1> QED BY <1>1, <1>2, <1>3 DEF Book

\* A table that is filed under the number it gets in the list, and taken from
\* where the list had it, is filed once.
LEMMA FiledKeeps ==
    ASSUME list \in [Tid -> Nat \cup {None}],
           NEW b \in [0 .. NumPlayer -> SUBSET Tid],
           \A n \in 0 .. NumPlayer : \A t \in b[n] : list[t] = n,
           NEW x \in Tid, NEW k \in 0 .. NumPlayer,
           bucket' = Filed(b, x, list[x], k), list' = [list EXCEPT ![x] = k]
    PROVE  /\ bucket' \in [0 .. NumPlayer -> SUBSET Tid]
           /\ list' \in [Tid -> Nat \cup {None}]
           /\ FiledOnce'
<1>1. bucket' = [n \in 0 .. NumPlayer |->
                   IF n = k THEN b[n] \cup {x}
                   ELSE IF n = list[x] THEN b[n] \ {x} ELSE b[n]]
  BY DEF Filed
<1>2. bucket' \in [0 .. NumPlayer -> SUBSET Tid]
  BY <1>1
<1>3. list'[x] = k /\ \A t \in Tid : t # x => list'[t] = list[t]
  OBVIOUS
<1>4. ASSUME NEW n \in 0 .. NumPlayer, NEW t \in bucket'[n] PROVE list'[t] = n
  <2>1. t \in Tid /\ (t \in b[n] \/ (t = x /\ n = k))
    BY <1>1, <1>2, <1>4
  <2>2. CASE t # x
    BY <1>3, <2>1, <2>2
  <2>3. CASE t = x /\ n = k
    BY <1>3, <2>3
  <2>4. CASE t = x /\ n # k
    <3>1. list[x] = n
      BY <2>1, <2>4
    <3> QED BY <1>1, <1>4, <2>4, <3>1
  <2> QED BY <2>1, <2>2, <2>3, <2>4
<1>5. k \in Nat
  BY AllocAssumption
<1> QED BY <1>2, <1>4, <1>5 DEF FiledOnce

-----------------------------------------------------------------------------
(* The steps. *)

\* The game servers, and the connections they make and break.
LEMMA GameServerSteps ==
    ASSUME BookInv,
           \/ \E s \in Svid : (\E c \in Conn : Connect(s, c)) \/ Cut(s)
           \/ \E t \in Tables : SeatChange(t)
           \/ \E c \in Conn : ReportTimer(c) \/ UpdateFailed(c)
    PROVE  Book
<1> USE DEF BookInv
<1>0. /\ link \in [Conn -> Ends] /\ wire \in [Conn -> Seq(Messages)]
      /\ seats \in [Tables -> 0 .. NumPlayer]
      /\ \A c \in Conn : link[c] \in Ends
  BY DEF TypeInv
<1>1. ASSUME NEW c \in Conn, NEW m \in Messages, Send(c, m)
      PROVE  wire' \in [Conn -> Seq(Messages)]
  BY <1>0, <1>1 DEF Send
<1>2. ASSUME NEW s \in Svid, NEW c \in Conn, Connect(s, c) PROVE Book
  <2> DEFINE e == [Unused EXCEPT !.svid = s, !.up = TRUE]
  <2>1. e \in Ends /\ e.id = None
    BY DEF Unused, Ends, EndFields
  <2>2. link' = [link EXCEPT ![c] = e] /\ wire' = [wire EXCEPT ![c] = Greeting(s)]
        /\ UNCHANGED <<book, seats>>
    BY <1>2 DEF Connect
  <2>3. Greeting(s) \in Seq(Messages)
    BY ReportTyped DEF Greeting
  <2> HIDE DEF e
  <2> QED BY <1>0, <2>1, <2>2, <2>3, BooksAlone
<1>3. ASSUME NEW s \in Svid, Cut(s) PROVE Book
  <2>1. PICK c \in Conn : link' = [link EXCEPT ![c].up = FALSE, ![c].again = FALSE]
    BY <1>3 DEF Cut, Links
  <2>2. link' \in [Conn -> Ends] /\ \A d \in Conn : link'[d].id = link[d].id
    BY <1>0, <2>1 DEF Ends, EndFields
  <2>3. seats' \in [Tables -> 0 .. NumPlayer]
    BY <1>0, <1>3, AllocAssumption DEF Cut
  <2>4. UNCHANGED <<book, wire>>
    BY <1>3 DEF Cut
  <2> QED BY <1>0, <2>2, <2>3, <2>4, BooksAlone
<1>4. ASSUME NEW t \in Tables, SeatChange(t) PROVE Book
  <2>1. PICK n \in 0 .. NumPlayer :
          /\ seats' = [seats EXCEPT ![t] = n]
          /\ \/ \E c \in Links(SvidOf(t)) :
                   Send(c, [type |-> "seat", tid |-> t, count |-> n])
             \/ UNCHANGED wire
    BY <1>4 DEF SeatChange
  <2>2. [type |-> "seat", tid |-> t, count |-> n] \in Messages
    BY DEF Messages
  <2>3. wire' \in [Conn -> Seq(Messages)]
    BY <1>0, <1>1, <2>1, <2>2 DEF Links
  <2>4. seats' \in [Tables -> 0 .. NumPlayer]
    BY <1>0, <2>1
  <2>5. UNCHANGED <<book, link>>
    BY <1>4 DEF SeatChange
  <2> QED BY <1>0, <2>3, <2>4, <2>5, BooksAlone
<1>5. ASSUME NEW c \in Conn, ReportTimer(c) PROVE Book
  <2>0. link[c].svid \in Svid
    BY <1>0, <1>5 DEF ReportTimer, Send, Ends
  <2>1. [type |-> "update", tabs |-> Cardinality(Taken(link[c].svid))] \in Messages
    BY <2>0, TakenCount DEF Messages
  <2>2. wire' \in [Conn -> Seq(Messages)] /\ UNCHANGED <<book, link, seats>>
    BY <1>1, <1>5, <2>1 DEF ReportTimer
  <2> QED BY <1>0, <2>2, BooksAlone
<1>6. ASSUME NEW c \in Conn, UpdateFailed(c) PROVE Book
  <2>0. link[c].svid \in Svid
    BY <1>0, <1>6 DEF UpdateFailed, Send, Ends
  <2>1. wire' \in [Conn -> Seq(Messages)] /\ UNCHANGED <<book, seats>>
        /\ link' = [link EXCEPT ![c].again = FALSE]
    BY <1>1, <1>6, <2>0, ReportTyped DEF UpdateFailed
  <2>2. link' \in [Conn -> Ends] /\ \A d \in Conn : link'[d].id = link[d].id
    BY <1>0, <2>1 DEF Ends, EndFields
  <2> QED BY <1>0, <2>1, <2>2, BooksAlone
<1> QED BY <1>2, <1>3, <1>4, <1>5, <1>6

\* The messages of a game server.
LEMMA ReceiveSteps ==
    ASSUME BookInv, NEW c \in Conn, Receive(c)
    PROVE  Book
<1> USE DEF BookInv
<1> DEFINE m == Head(wire[c])
           s == link[c].svid
<1>0. /\ server \in [Svid -> Infos \cup {None}]
      /\ handler \in [Svid -> Conn \cup {None}]
      /\ list \in [Tid -> Nat \cup {None}] /\ DOMAIN list = Tid
      /\ bucket \in [0 .. NumPlayer -> SUBSET Tid]
      /\ link \in [Conn -> Ends] /\ wire \in [Conn -> Seq(Messages)]
      /\ seats' = seats /\ seats' \in [Tables -> 0 .. NumPlayer]
      /\ link[c] \in Ends /\ s \in Svid \cup {None}
  BY DEF TypeInv, Receive, Ends, EndFields
<1>1. m \in Messages /\ wire' \in [Conn -> Seq(Messages)]
  <2>1. wire[c] \in Seq(Messages) /\ wire[c] # <<>> /\ wire' = [wire EXCEPT ![c] = Tail(@)]
    BY <1>0 DEF Receive
  <2>2. Head(wire[c]) \in Messages /\ Tail(wire[c]) \in Seq(Messages)
    BY <2>1, HeadTailProperties
  <2> QED BY <1>0, <2>1, <2>2
<1>2. None \notin Infos
  BY AllocAssumption DEF Infos
<1>3. CASE m.type = "report" /\ SetServerInfo(c, m)
  <2>1. m.tables \in Counts
    BY <1>1, <1>3 DEF Messages
  <2>2. PICK T \in SUBSET Tables : m.tables \in [T -> Nat]
    BY <2>1 DEF Counts
  <2> DEFINE f == m.tables
             new == {t \in DOMAIN f : list[t] # f[t]}
  <2>3. /\ list' = [t \in Tid |-> IF t \in new THEN f[t] ELSE list[t]]
        /\ bucket' = [n \in DOMAIN bucket |->
                        (bucket[n] \ new) \cup {t \in new : f[t] = n}]
    BY <1>3 DEF SetServerInfo, AddTables
  <2>4. new \subseteq Tid /\ \A t \in new : f[t] \in Nat
    BY <2>2, TidsTyped
  <2> HIDE DEF new, f
  <2>5. /\ list' \in [Tid -> Nat \cup {None}]
        /\ bucket' \in [0 .. NumPlayer -> SUBSET Tid]
    BY <1>0, <2>3, <2>4
  <2>6. FiledOnce'
    BY <1>0, <2>3, <2>4 DEF FiledOnce
  <2>7. /\ server' \in [Svid -> Infos \cup {None}]
        /\ handler' \in [Svid -> Conn \cup {None}]
        /\ link' \in [Conn -> Ends] /\ IdIsServer'
    <3>1. CASE ~ Unregistered(s)
      <4>1. UNCHANGED <<server, handler, link>>
        BY <1>3, <3>1 DEF SetServerInfo
      <4> QED BY <1>0, <4>1 DEF IdIsServer, Known
    <3>2. CASE Unregistered(s)
      <4>1. PICK status \in {0, 1}, redis \in BOOLEAN :
               /\ server' = [server EXCEPT ![s] = [status |-> status, tabs |-> 0]]
               /\ handler' = IF redis THEN [handler EXCEPT ![s] = c] ELSE handler
               /\ link' = IF redis THEN [link EXCEPT ![c].id = s] ELSE link
        BY <1>3, <3>2 DEF SetServerInfo
      <4> HIDE DEF s, m
      <4>2. [status |-> status, tabs |-> 0] \in Infos
        BY DEF Infos
      <4>3. /\ server' \in [Svid -> Infos \cup {None}]
            /\ \A x \in Svid : server[x] # None => server'[x] # None
            /\ s \in Svid => server'[s] # None
        BY <1>0, <1>2, <4>1, <4>2
      <4>4. handler' \in [Svid -> Conn \cup {None}]
        BY <1>0, <4>1
      <4>5. /\ link' \in [Conn -> Ends]
            /\ \A d \in Conn \ {c} : link'[d].id = link[d].id
            /\ link'[c].id = IF redis THEN s ELSE link[c].id
        BY <1>0, <4>1 DEF Ends, EndFields
      <4>6. ASSUME NEW d \in Conn, link'[d].id # None
            PROVE  server'[link'[d].id] # None /\ handler'[link'[d].id] = d
        <5>1. link'[d].id \in Svid
          BY <4>5, <4>6 DEF Ends, EndFields
        <5>2. CASE d = c /\ redis
          BY <1>0, <4>1, <4>3, <4>5, <5>1, <5>2 DEF Known
        <5>3. CASE ~ (d = c /\ redis)
          <6>1. link'[d].id = link[d].id
            BY <4>5, <5>3
          <6>2. Known(link[d].id) /\ handler[link[d].id] = d
            BY <4>6, <6>1 DEF IdIsServer
          <6>3. link[d].id # s
            BY <3>2, <6>2 DEF Unregistered
          <6> QED BY <1>0, <4>1, <4>3, <5>1, <6>1, <6>2, <6>3 DEF Known
        <5> QED BY <5>2, <5>3
      <4> QED BY <4>3, <4>4, <4>5, <4>6 DEF IdIsServer, Known
    <3> QED BY <3>1, <3>2
  <2> QED BY <1>0, <1>1, <2>5, <2>6, <2>7 DEF Book, TypeInv
<1>4. CASE m.type = "update" /\ UpdateMember(c, m)
  <2>1. m.tabs \in Nat
    BY <1>1, <1>4 DEF Messages
  <2>2. /\ server' = IF Known(s) THEN [server EXCEPT ![s].tabs = m.tabs] ELSE server
        /\ UNCHANGED <<handler, list, bucket>>
        /\ \E redis \in BOOLEAN :
             link' = [link EXCEPT ![c].again = @ \/ (~ redis /\ link[c].up)]
    BY <1>4 DEF UpdateMember
  <2>3. /\ link' \in [Conn -> Ends]
        /\ \A d \in Conn : link'[d].id = link[d].id
    <3>1. PICK redis \in BOOLEAN :
            link' = [link EXCEPT ![c] =
                       [link[c] EXCEPT !.again = @ \/ (~ redis /\ link[c].up)]]
      BY <1>0, <2>2
    <3> DEFINE e == [link[c] EXCEPT !.again = @ \/ (~ redis /\ link[c].up)]
    <3>2. e \in Ends /\ e.id = link[c].id
      <4>1. link[c].again \/ (~ redis /\ link[c].up) \in BOOLEAN
        BY <1>0 DEF Ends, EndFields
      <4> QED BY <1>0, <4>1 DEF Ends, EndFields
    <3> HIDE DEF e
    <3> QED BY <1>0, <3>1, <3>2 DEF e
  <2> HIDE DEF m, s
  <2>4. server' \in [Svid -> Infos \cup {None}] /\ \A x \in Svid : Known(x) => Known(x)'
    <3>1. CASE Known(s) /\ s \in Svid
      <4>1. server[s] \in Infos
        BY <1>0, <3>1 DEF Known
      <4>2. [server[s] EXCEPT !.tabs = m.tabs] \in Infos
        BY <2>1, <4>1 DEF Infos
      <4> QED BY <1>0, <1>2, <2>2, <3>1, <4>2 DEF Known
    <3>2. CASE ~ (Known(s) /\ s \in Svid)
      <4>1. server' = server
        BY <1>0, <2>2, <3>2
      <4> QED BY <1>0, <4>1 DEF Known
    <3> QED BY <3>1, <3>2
  <2>5. IdIsServer'
    BY <1>0, <2>2, <2>3, <2>4 DEF IdIsServer, Ends, EndFields
  <2>6. FiledOnce'
    BY <2>2 DEF FiledOnce
  <2> QED BY <1>0, <1>1, <2>2, <2>3, <2>4, <2>5, <2>6 DEF Book, TypeInv
<1>5. CASE m.type = "seat" /\ UpdateTableUserCount(m.tid, m.count) /\ UNCHANGED link
  <2>1. m.tid \in Tid /\ m.count \in 0 .. NumPlayer
    BY <1>1, <1>5, TidsTyped DEF Messages
  <2>2. CASE ~ Known(SvidOf(m.tid))
    <3>1. UNCHANGED book
      BY <1>5, <2>2 DEF UpdateTableUserCount
    <3> QED BY <1>0, <1>1, <1>5, <3>1, BooksAlone
  <2>3. CASE Known(SvidOf(m.tid))
    <3>1. /\ list' = [list EXCEPT ![m.tid] = m.count]
          /\ bucket' = Filed(bucket, m.tid, list[m.tid], m.count)
          /\ UNCHANGED <<server, handler, link>>
      BY <1>5, <2>3 DEF UpdateTableUserCount
    <3> HIDE DEF m
    <3>2. \A n \in 0 .. NumPlayer : \A t \in bucket[n] : list[t] = n
      BY <1>0 DEF FiledOnce
    <3>3. /\ bucket' \in [0 .. NumPlayer -> SUBSET Tid]
          /\ list' \in [Tid -> Nat \cup {None}]
          /\ FiledOnce'
      BY <1>0, <2>1, <3>1, <3>2, FiledKeeps
    <3>6. IdIsServer'
      BY <3>1 DEF IdIsServer, Known
    <3> QED BY <1>0, <1>1, <3>1, <3>3, <3>6 DEF Book, TypeInv
  <2> QED BY <2>2, <2>3
<1> QED BY <1>3, <1>4, <1>5 DEF Receive

\* The end of a connection, and the orders of the administrator.
LEMMA AdminSteps ==
    ASSUME BookInv,
           \/ \E c \in Conn : OnClose(c)
           \/ \E s \in Svid : SetServerStat(s)
           \/ Restart
    PROVE  Book
<1> USE DEF BookInv
<1>0. /\ server \in [Svid -> Infos \cup {None}]
      /\ handler \in [Svid -> Conn \cup {None}]
      /\ link \in [Conn -> Ends] /\ wire \in [Conn -> Seq(Messages)]
      /\ seats \in [Tables -> 0 .. NumPlayer]
      /\ \A c \in Conn : link[c] \in Ends
  BY DEF TypeInv
<1>1. None \notin Infos /\ None \notin Nat
  BY AllocAssumption DEF Infos
<1>2. Unused \in Ends /\ Unused.id = None
  BY DEF Unused, Ends, EndFields
<1>3. <<>> \in Seq(Messages)
  OBVIOUS
<1>4. ASSUME NEW c \in Conn, OnClose(c) PROVE Book
  <2> DEFINE s == link[c].id
  <2>1. s \in Svid \cup {None}
    BY <1>0 DEF Ends, EndFields
  <2>2. /\ link' = [link EXCEPT ![c] = Unused]
        /\ wire' = [wire EXCEPT ![c] = <<>>]
        /\ server' = IF s = None THEN server ELSE [server EXCEPT ![s] = None]
        /\ handler' = IF s = None THEN handler ELSE [handler EXCEPT ![s] = None]
        /\ UNCHANGED <<list, bucket, seats>>
    BY <1>4 DEF OnClose
  <2>3. link' \in [Conn -> Ends] /\ wire' \in [Conn -> Seq(Messages)]
    BY <1>0, <1>2, <1>3, <2>2
  <2>4. /\ server' \in [Svid -> Infos \cup {None}]
        /\ handler' \in [Svid -> Conn \cup {None}]
    <3> HIDE DEF s
    <3> QED BY <1>0, <2>1, <2>2
  <2>5. ASSUME NEW d \in Conn, link'[d].id # None
        PROVE  server'[link'[d].id] # None /\ handler'[link'[d].id] = d
    <3>1. d # c /\ link'[d] = link[d]
      BY <1>0, <1>2, <2>2, <2>5
    <3>2. Known(link[d].id) /\ handler[link[d].id] = d
      BY <2>5, <3>1 DEF IdIsServer
    <3>3. link[d].id \in Svid
      BY <1>0, <2>5, <3>1 DEF Ends, EndFields
    <3>4. s = None \/ handler[s] = c
      BY DEF IdIsServer
    <3>5. s = None \/ link[d].id # s
      BY <3>1, <3>2, <3>4
    <3> HIDE DEF s
    <3> QED BY <1>0, <2>1, <2>2, <3>1, <3>2, <3>3, <3>5 DEF Known
  <2>6. IdIsServer'
    BY <2>5 DEF IdIsServer, Known
  <2>7. TypeInv'
    BY <2>2, <2>3, <2>4 DEF TypeInv
  <2>8. FiledOnce'
    BY <2>2 DEF FiledOnce
  <2> QED BY <2>6, <2>7, <2>8 DEF Book
<1>5. ASSUME NEW s \in Svid, SetServerStat(s) PROVE Book
  <2>1. server[s] \in Infos
    BY <1>0, <1>5 DEF SetServerStat, Known
  <2>2. [server[s] EXCEPT !.status = 1 - @] \in Infos
    BY <2>1 DEF Infos
  <2>3. server' = [server EXCEPT ![s] = [server[s] EXCEPT !.status = 1 - @]]
        /\ UNCHANGED <<handler, list, bucket, link, wire, seats>>
    BY <1>0, <1>5 DEF SetServerStat
  <2> DEFINE e == [server[s] EXCEPT !.status = 1 - @]
  <2>4. e \in Infos /\ server' = [server EXCEPT ![s] = e]
    BY <2>2, <2>3
  <2> HIDE DEF e
  <2>5. /\ server' \in [Svid -> Infos \cup {None}]
        /\ \A x \in Svid : server[x] # None => server'[x] # None
    BY <1>0, <1>1, <2>4
  <2>6. ASSUME NEW d \in Conn, link'[d].id # None
        PROVE  server'[link'[d].id] # None /\ handler'[link'[d].id] = d
    <3>1. Known(link[d].id) /\ handler[link[d].id] = d /\ link' = link
      BY <2>3, <2>6 DEF IdIsServer
    <3>2. link[d].id \in Svid
      BY <1>0, <2>6, <3>1 DEF Ends, EndFields
    <3> QED BY <2>3, <2>5, <3>1, <3>2 DEF Known
  <2>7. TypeInv'
    BY <2>3, <2>5 DEF TypeInv
  <2>8. FiledOnce' /\ IdIsServer'
    BY <2>3, <2>6 DEF FiledOnce, IdIsServer, Known
  <2> QED BY <2>7, <2>8 DEF Book
<1>6. ASSUME Restart PROVE Book
  <2>1. TypeInv'
    BY <1>0, <1>2, <1>6 DEF Restart, TypeInv
  <2>2. FiledOnce' /\ IdIsServer'
    BY <1>2, <1>6 DEF Restart, FiledOnce, IdIsServer
  <2> QED BY <2>1, <2>2 DEF Book
<1> QED BY <1>4, <1>5, <1>6

\* A table for a user: what is forgotten on the way is only taken away, and
\* the table given out goes from where it was filed to one bucket more.
LEMMA GiveSteps ==
    ASSUME BookInv,
           GetListTable \/ \E s \in Svid : NewTable(s)
    PROVE  Book
<1> USE DEF BookInv
<1>0. /\ server \in [Svid -> Infos \cup {None}]
      /\ list \in [Tid -> Nat \cup {None}]
      /\ bucket \in [0 .. NumPlayer -> SUBSET Tid]
      /\ link \in [Conn -> Ends]
      /\ \A n \in 0 .. NumPlayer : \A t \in bucket[n] : list[t] = n
  BY DEF TypeInv, FiledOnce
<1>1. None \notin Infos /\ None \notin Nat /\ NumPlayer \in Nat \ {0}
      /\ MaxTab \in Nat \ {0}
  BY AllocAssumption DEF Infos
<1>2. ASSUME GetListTable PROVE Book
  <2> DEFINE K == {n \in 0 .. NumPlayer - 1 : Offered(n) # {}}
             k == Max(K)
             t == Min(Offered(k))
             met(n) == IF n > k THEN Forgotten(bucket[n])
                       ELSE IF n = k THEN {x \in Forgotten(bucket[n]) : x < t}
                       ELSE {}
             kept == [n \in 0 .. NumPlayer |->
                        IF n = NumPlayer THEN bucket[n] ELSE bucket[n] \ met(n)]
  <2>1. /\ K # {} /\ bucket' = Filed(kept, t, k, k + 1)
        /\ list' = [list EXCEPT ![t] = k + 1]
        /\ UNCHANGED <<server, handler, link, wire, seats>>
    BY <1>2 DEF GetListTable
  <2>2. k \in K
    <3>1. K \in SUBSET (0 .. NumPlayer - 1) /\ NumPlayer - 1 \in Nat /\ K # {}
      BY <1>1, <2>1
    <3> HIDE DEF K
    <3> QED BY <3>1, MaxIsMember
  <2>3. k \in 0 .. NumPlayer - 1 /\ Offered(k) # {} /\ Offered(k) \subseteq bucket[k]
    BY <2>2 DEF Offered
  <2>4. k \in 0 .. NumPlayer /\ k + 1 \in 0 .. NumPlayer
    BY <1>1, <2>3
  <2> HIDE DEF K, k
  <2>5. t \in Offered(k)
    <3>1. Offered(k) \in SUBSET Nat
      BY <1>0, <2>3, <2>4, TidsTyped
    <3> QED BY <2>3, <3>1, MinIsLeast
  <2>6. t \in Tid /\ list[t] = k
    BY <1>0, <2>3, <2>4, <2>5
  <2>7. /\ kept \in [0 .. NumPlayer -> SUBSET Tid]
        /\ \A n \in 0 .. NumPlayer : kept[n] \subseteq bucket[n]
    BY <1>0
  <2> HIDE DEF t, kept
  <2>8. \A n \in 0 .. NumPlayer : \A x \in kept[n] : list[x] = n
    BY <1>0, <2>7
  <2>9. /\ bucket' \in [0 .. NumPlayer -> SUBSET Tid]
        /\ list' \in [Tid -> Nat \cup {None}]
        /\ FiledOnce'
    BY <1>0, <2>1, <2>4, <2>6, <2>7, <2>8, FiledKeeps
  <2>10. TypeInv' /\ IdIsServer'
    BY <2>1, <2>9 DEF TypeInv, IdIsServer, Known
  <2> QED BY <2>9, <2>10 DEF Book
<1>3. ASSUME NEW s \in Svid, NewTable(s) PROVE Book
  <2> DEFINE t == TidOf(s, server[s].tabs)
             kept == [n \in 0 .. NumPlayer |->
                        IF n = NumPlayer THEN bucket[n]
                        ELSE bucket[n] \ Forgotten(bucket[n])]
  <2>1. /\ Open(s) /\ server[s].tabs <= MaxTab
        /\ IF list[t] # None
           THEN bucket' = kept /\ UNCHANGED <<list, server>>
           ELSE /\ bucket' = [kept EXCEPT ![1] = @ \cup {t}]
                /\ list' = [list EXCEPT ![t] = 1]
                /\ server' = [server EXCEPT ![s].tabs = @ + 1]
        /\ UNCHANGED <<handler, link, wire, seats>>
    BY <1>3 DEF NewTable
  <2>2. server[s] \in Infos /\ server[s].tabs \in 0 .. MaxTab
    BY <1>0, <1>1, <2>1 DEF Open, Known, Infos
  <2>3. t \in Tid
    BY <2>2, TidsTyped
  <2>4. /\ kept \in [0 .. NumPlayer -> SUBSET Tid]
        /\ \A n \in 0 .. NumPlayer : kept[n] \subseteq bucket[n]
    BY <1>0
  <2> HIDE DEF t, kept
  <2>5. CASE list[t] # None
    <3>1. TypeInv'
      BY <2>1, <2>4, <2>5 DEF TypeInv
    <3>2. FiledOnce' /\ IdIsServer'
      BY <1>0, <2>1, <2>4, <2>5 DEF FiledOnce, IdIsServer, Known
    <3> QED BY <3>1, <3>2 DEF Book
  <2>6. CASE list[t] = None
    <3>1. /\ bucket' = [kept EXCEPT ![1] = @ \cup {t}]
          /\ list' = [list EXCEPT ![t] = 1]
          /\ server' = [server EXCEPT ![s].tabs = @ + 1]
      BY <2>1, <2>6
    <3>2. 1 \in 0 .. NumPlayer
      BY <1>1
    <3>3. /\ bucket' \in [0 .. NumPlayer -> SUBSET Tid]
          /\ list' \in [Tid -> Nat \cup {None}]
      BY <1>0, <2>3, <2>4, <3>1, <3>2
    <3>4. ASSUME NEW n \in 0 .. NumPlayer, NEW x \in bucket'[n]
          PROVE  list'[x] = n
      <4>1. x \in Tid /\ (x \in bucket[n] \/ (x = t /\ n = 1))
        BY <2>3, <2>4, <3>1, <3>2, <3>3, <3>4
      <4>2. CASE x = t /\ n = 1
        BY <1>0, <3>1, <4>1, <4>2
      <4>3. CASE x \in bucket[n]
        <5>1. list[x] = n /\ n \in Nat
          BY <1>0, <1>1, <4>3
        <5>2. x # t
          BY <1>1, <2>6, <5>1
        <5> QED BY <1>0, <3>1, <4>1, <5>1, <5>2
      <4> QED BY <4>1, <4>2, <4>3
    <3> DEFINE e == [server[s] EXCEPT !.tabs = @ + 1]
    <3>5. e \in Infos /\ server' = [server EXCEPT ![s] = e]
      BY <1>0, <2>2, <3>1 DEF Infos
    <3> HIDE DEF e
    <3>6. /\ server' \in [Svid -> Infos \cup {None}]
          /\ \A x \in Svid : server[x] # None => server'[x] # None
      BY <1>0, <1>1, <3>5
    <3>7. TypeInv'
      BY <2>1, <3>3, <3>6 DEF TypeInv
    <3>8. FiledOnce'
      BY <3>3, <3>4 DEF FiledOnce
    <3>9. IdIsServer'
      <4>1. ASSUME NEW d \in Conn, link'[d].id # None
            PROVE  server'[link'[d].id] # None /\ handler'[link'[d].id] = d
        <5>1. Known(link[d].id) /\ handler[link[d].id] = d
          BY <2>1, <4>1 DEF IdIsServer
        <5>2. link[d].id \in Svid
          BY <1>0, <2>1, <4>1 DEF Ends, EndFields
        <5> QED BY <2>1, <3>6, <5>1, <5>2 DEF Known
      <4> QED BY <4>1 DEF IdIsServer, Known
    <3> QED BY <3>7, <3>8, <3>9 DEF Book
  <2> QED BY <2>5, <2>6
<1> QED BY <1>2, <1>3

-----------------------------------------------------------------------------
(* The theorems. *)

\* The book of tables holds at first.
LEMMA BookHoldsAtFirst == Init => BookInv
<1> SUFFICES ASSUME Init PROVE BookInv
  OBVIOUS
<1>1. Unused \in Ends /\ Unused.id = None
  BY DEF Unused, Ends, EndFields
<1>2. TypeInv
  <2>1. [c \in Conn |-> <<>>] \in [Conn -> Seq(Messages)]
    OBVIOUS
  <2> QED BY <1>1, <2>1, AllocAssumption DEF Init, TypeInv
<1>3. FiledOnce /\ IdIsServer
  BY <1>1 DEF Init, FiledOnce, IdIsServer
<1> QED BY <1>2, <1>3 DEF BookInv

\* Every step keeps the book of tables.
LEMMA BookIsKept == BookInv /\ [Next]_vars => BookInv'
<1> SUFFICES ASSUME BookInv, [Next]_vars PROVE Book
  BY DEF Book, BookInv
<1>1. CASE UNCHANGED vars
  <2>1. TypeInv'
    BY <1>1 DEF BookInv, TypeInv, vars
  <2>2. FiledOnce'
    BY <1>1 DEF BookInv, FiledOnce, vars
  <2>3. IdIsServer'
    BY <1>1 DEF BookInv, IdIsServer, Known, vars
  <2> QED BY <2>1, <2>2, <2>3 DEF Book
<1>2. ASSUME NEW s \in Svid,
             (\E c \in Conn : Connect(s, c)) \/ Cut(s) \/ SetServerStat(s)
             \/ NewTable(s)
      PROVE  Book
  BY <1>2, GameServerSteps, AdminSteps, GiveSteps
<1>3. ASSUME NEW t \in Tables, SeatChange(t) PROVE Book
  BY <1>3, GameServerSteps
<1>4. ASSUME NEW c \in Conn,
             ReportTimer(c) \/ UpdateFailed(c) \/ Receive(c) \/ OnClose(c)
      PROVE  Book
  BY <1>4, GameServerSteps, ReceiveSteps, AdminSteps
<1>5. ASSUME GetListTable \/ Restart PROVE Book
  BY <1>5, GiveSteps, AdminSteps
<1> QED BY <1>1, <1>2, <1>3, <1>4, <1>5 DEF Next

\* A table is filed under the number of players it is listed with, however many
\* servers report, reconnect and are forgotten.
THEOREM FiledOnceHolds == Spec => []FiledOnce
<1>1. BookInv => FiledOnce
  BY DEF BookInv
<1> QED BY <1>1, BookHoldsAtFirst, BookIsKept, PTL DEF Spec

\* The id of a connection is that of a server that is known by it.
THEOREM IdIsServerHolds == Spec => []IdIsServer
<1>1. BookInv => IdIsServer
  BY DEF BookInv
<1> QED BY <1>1, BookHoldsAtFirst, BookIsKept, PTL DEF Spec
=============================================================================
