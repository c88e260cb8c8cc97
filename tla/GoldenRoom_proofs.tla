---------------------------- MODULE GoldenRoom_proofs ----------------------------
(***************************************************************************)
(* Proofs about the room of the golden game server, for any number of      *)
(* users, Player objects and tables.                                       *)
(*                                                                         *)
(* The invariant is stated of a hall h, the record GoldenRoom's operators  *)
(* work on, and proved of one operator after the other; an action is a     *)
(* composition of them.                                                    *)
(***************************************************************************)
EXTENDS GoldenRoom, FiniteSums, FiniteSetTheorems

Statuses == {"LOGOUT", "COMING", "ACTIVE"}
Objects == [id : Users \cup {NoUser}, status : Statuses,
            tid : Tables \cup {NoTable}]

Halls == [player : [Slots -> Objects], seated : [Tables -> SUBSET Slots],
          count : [Tables -> Nat], locked : [Tables -> BOOLEAN]]

\* The parts of ChairsAgree, OneObject and AddressesApart as predicates on a
\* hall
Chairs(h) == \A i \in Slots, t \in Tables :
                 i \in h.seated[t] <=> h.player[i].tid = t
Counted(h) == \A t \in Tables : /\ h.count[t] = Cardinality(h.seated[t])
                                /\ h.count[t] <= NumPlayer
Named(h) == \A t \in Tables : \A i, j \in h.seated[t] :
                h.player[i].id = h.player[j].id => i = j
InUse(h) == \A i \in Slots : h.player[i].tid # NoTable
                                => h.player[i].status # "LOGOUT"
Single(h) == \A i, j \in Slots :
    (h.player[i].id = h.player[j].id /\ h.player[i].id \in Humans) => i = j
Apart(h) == \A t \in Tables : \A i, j \in h.seated[t] :
    (h.player[i].id \in Humans /\ h.player[j].id \in Humans
       /\ Ip[h.player[i].id] = Ip[h.player[j].id]) => i = j

\* The lock of a table is held only while two or more sit at it, so an empty
\* table is always offered.
Held(h) == \A t \in Tables : h.locked[t] => h.count[t] >= 2

RoomOK(h) ==
    /\ h \in Halls
    /\ Chairs(h) /\ Counted(h) /\ Named(h) /\ InUse(h)
    /\ Single(h) /\ Apart(h) /\ Held(h)

RoomInv == RoomOK(Hall)

Strays(h) == {i \in Slots : h.player[i].status # "LOGOUT"
                            /\ h.player[i].tid = NoTable}

-----------------------------------------------------------------------------
(* Sets of objects and tables. *)

\* A player object fresh from Room::init is a free slot's.
LEMMA FreshOK ==
    /\ Fresh \in Objects /\ Fresh.id = NoUser /\ Fresh.status = "LOGOUT"
    /\ Fresh.tid = NoTable /\ NoTable \notin Tables
BY RoomAssumption DEF Fresh, Objects, Statuses, NoTable, Tables

\* The objects at a table are finitely many.
LEMMA SeatedFinite ==
    ASSUME NEW S \in SUBSET Slots
    PROVE  IsFiniteSet(S) /\ Cardinality(S) \in Nat
<1>1. IsFiniteSet(Slots)
  BY RoomAssumption, FS_Interval DEF Slots
<1>2. IsFiniteSet(S)
  BY <1>1, FS_Subset
<1> QED BY <1>2, FS_CardinalityType

\* The loops find a table of the set they look for, or none.
LEMMA FirstOfOne ==
    ASSUME NEW T \in SUBSET Tables
    PROVE  IF T = {} THEN FirstOf(T) = NoTable ELSE FirstOf(T) \in T
<1>1. Tables \subseteq Nat
  BY RoomAssumption DEF Tables
<1> QED BY <1>1, MinIsLeast DEF FirstOf

\* A non-empty set of slots has a first one.
LEMMA SlotFound ==
    ASSUME NEW S \in SUBSET Slots, S # {}
    PROVE  Min(S) \in S
<1>1. Slots \subseteq Nat
  BY RoomAssumption DEF Slots
<1> QED BY <1>1, MinIsLeast

-----------------------------------------------------------------------------
(* Leaving, locking and the hand. *)

\* Whoever leaves, the room stays in order (playerLeave).
LEMMA LeaveOK ==
    ASSUME NEW h, RoomOK(h), NEW I \in SUBSET Slots
    PROVE  RoomOK(Leave(h, I)) /\ Strays(Leave(h, I)) \subseteq Strays(h)
<1> DEFINE g == Leave(h, I)
<1> USE DEF RoomOK
<1>0. NumPlayer \in Nat /\ NoUser \notin Humans
  BY RoomAssumption
<1>1. /\ g.player = [i \in Slots |-> IF i \in I THEN Fresh ELSE h.player[i]]
      /\ g.seated = [t \in Tables |-> h.seated[t] \ I]
      /\ \A t \in Tables : g.count[t] = h.count[t] - Cardinality(h.seated[t] \cap I)
      /\ g.locked \in [Tables -> BOOLEAN]
      /\ g.count \in [Tables -> Int]
      /\ g = [player |-> g.player, seated |-> g.seated, count |-> g.count, locked |-> g.locked]
      /\ \A t \in Tables : g.locked[t] =>
            /\ h.locked[t]
            /\ h.seated[t] \cap I # {} => g.count[t] >= 2
  <2>1. \A t \in Tables : h.count[t] - Cardinality(h.seated[t] \cap I) \in Int
    <3> TAKE t \in Tables
    <3>1. h.seated[t] \cap I \in SUBSET Slots /\ h.count[t] \in Nat
      BY DEF Halls
    <3> QED BY <3>1, SeatedFinite
  <2> QED BY <2>1 DEF Leave, Halls
<1> HIDE DEF g
<1>2. \A t \in Tables : /\ g.seated[t] = h.seated[t] \ I
                        /\ g.count[t] = Cardinality(g.seated[t])
                        /\ g.count[t] \in Nat /\ g.count[t] <= h.count[t]
                        /\ h.seated[t] \cap I = {} => g.count[t] = h.count[t]
  <2> TAKE t \in Tables
  <2>1. /\ h.seated[t] \in SUBSET Slots /\ h.seated[t] \cap I \in SUBSET Slots
        /\ h.seated[t] \ I \in SUBSET Slots
        /\ h.count[t] = Cardinality(h.seated[t])
    BY DEF Halls, Counted
  <2>2. Cardinality(h.seated[t] \ I)
          = Cardinality(h.seated[t]) - Cardinality(h.seated[t] \cap I)
    BY <2>1, SeatedFinite, FS_Difference
  <2>3. /\ Cardinality(h.seated[t] \ I) \in Nat
        /\ Cardinality(h.seated[t] \cap I) \in Nat
        /\ h.count[t] \in Nat
    BY <2>1, SeatedFinite
  <2>4. h.seated[t] \cap I = {} => Cardinality(h.seated[t] \cap I) = 0
    BY FS_EmptySet
  <2> QED BY <1>1, <2>1, <2>2, <2>3, <2>4
<1>3. g \in Halls
  <2>1. g.player \in [Slots -> Objects]
    BY <1>1, FreshOK DEF Halls
  <2>2. g.seated \in [Tables -> SUBSET Slots]
    BY <1>1 DEF Halls
  <2>3. g.count \in [Tables -> Nat]
    BY <1>1, <1>2
  <2> QED BY <1>1, <2>1, <2>2, <2>3 DEF Halls
<1>4. Chairs(g)
  BY <1>1, <1>2, FreshOK DEF Chairs
<1>5. Counted(g)
  BY <1>0, <1>2 DEF Counted, Halls
<1>6. Named(g)
  BY <1>1, <1>2 DEF Named, Halls
<1>7. InUse(g)
  BY <1>1, FreshOK DEF InUse
<1>8. Single(g)
  BY <1>0, <1>1, FreshOK DEF Single
<1>9. Apart(g)
  BY <1>0, <1>1, <1>2, FreshOK DEF Apart, Halls
<1>10. Held(g)
  BY <1>1, <1>2 DEF Held
<1>11. Strays(g) \subseteq Strays(h)
  BY <1>1, FreshOK DEF Strays
<1> QED BY <1>3, <1>4, <1>5, <1>6, <1>7, <1>8, <1>9, <1>10, <1>11 DEF g

\* The statuses of players who keep their ids and chairs may change if whoever
\* has a chair is not logged out, and whoever has none is.
LEMMA StatusOK ==
    ASSUME NEW h, RoomOK(h), NEW g \in Halls,
           g.seated = h.seated, g.count = h.count,
           \A i \in Slots :
               /\ g.player[i].id = h.player[i].id
               /\ g.player[i].tid = h.player[i].tid
               /\ \/ g.player[i] = h.player[i]
                  \/ g.player[i].tid = NoTable <=> g.player[i].status = "LOGOUT",
           \A t \in Tables : g.locked[t] => h.locked[t] \/ h.count[t] >= 2
    PROVE  RoomOK(g) /\ Strays(g) \subseteq Strays(h)
<1> USE DEF RoomOK
<1>1. Chairs(g) /\ Counted(g) /\ InUse(g)
  BY DEF Chairs, Counted, InUse
<1>2. \A t \in Tables : h.seated[t] \subseteq Slots
  BY DEF Halls
<1>3. Named(g)
  BY <1>2 DEF Named
<1>4. Single(g)
  BY DEF Single
<1>5. Apart(g)
  BY <1>2 DEF Apart
<1>6. Held(g)
  BY DEF Held
<1>7. Strays(g) \subseteq Strays(h)
  BY DEF Strays
<1> QED BY <1>1, <1>3, <1>4, <1>5, <1>6, <1>7

\* setKickTimer locks a table where two or more sit.
LEMMA KickTimerOK ==
    ASSUME NEW h, RoomOK(h), NEW t \in Tables
    PROVE  /\ RoomOK(KickTimer(h, t))
           /\ Strays(KickTimer(h, t)) = Strays(h)
<1> DEFINE g == KickTimer(h, t)
<1> USE DEF RoomOK
<1>1. /\ g \in Halls /\ g.player = h.player
      /\ g.seated = h.seated /\ g.count = h.count
      /\ \A x \in Tables : g.locked[x] =>
            h.locked[x] \/ (x = t /\ h.count[x] > 1)
  BY DEF Halls, KickTimer
<1>2. \A x \in Tables : h.count[x] \in Nat
  BY DEF Halls
<1> HIDE DEF g
<1>3. Held(g)
  BY <1>1, <1>2 DEF Held
<1> QED BY <1>1, <1>3 DEF g, Chairs, Counted, Named, InUse, Single, Apart, Strays

-----------------------------------------------------------------------------
(* Coming to a table. *)

\* An object that is at no table.
Away(h, i) == i \in Slots /\ h.player[i].tid = NoTable

\* playerComming on a free chair: the user is not at the table yet, and has no
\* address in common with it.
LEMMA SitOK ==
    ASSUME NEW h, RoomOK(h), NEW i, Away(h, i), NEW t \in Tables, NotFull(h, t),
           ~ InTab(h, t, h.player[i].id),
           h.player[i].id \in Humans => CheckIP(h, t, h.player[i].id)
    PROVE  RoomOK(Sit(h, i, t)) /\ Strays(Sit(h, i, t)) \subseteq Strays(h) \ {i}
<1> DEFINE g == Sit(h, i, t)
           u == h.player[i].id
<1> USE DEF RoomOK
<1>0. NumPlayer \in Nat /\ h.count[t] \in Nat /\ i \in Slots
  BY RoomAssumption DEF Halls, Away
<1>1. h.player[i] \in Objects /\ h.player \in [Slots -> Objects]
  BY <1>0 DEF Halls
<1> DEFINE o == [[h.player[i] EXCEPT !.status = "COMING"] EXCEPT !.tid = t]
<1>2. o \in Objects /\ o.id = u /\ o.status = "COMING" /\ o.tid = t
  BY <1>1 DEF Objects, Statuses
<1>3. /\ g.player = [h.player EXCEPT ![i] = o]
      /\ g.seated = [h.seated EXCEPT ![t] = @ \cup {i}]
      /\ g.count = [h.count EXCEPT ![t] = @ + 1]
      /\ g.locked = h.locked
      /\ g = [player |-> g.player, seated |-> g.seated, count |-> g.count, locked |-> g.locked]
  <2>1. g = [h EXCEPT !.player[i].status = "COMING", !.player[i].tid = t,
                      !.seated[t] = @ \cup {i}, !.count[t] = @ + 1]
    BY DEF Sit
  <2> HIDE DEF g
  <2> QED BY <1>0, <1>1, <2>1 DEF Halls
<1> HIDE DEF g, o
<1>4. /\ g.player \in [Slots -> Objects]
      /\ \A j \in Slots : g.player[j] = IF j = i THEN o ELSE h.player[j]
  BY <1>1, <1>2, <1>3
<1>5. /\ g.seated \in [Tables -> SUBSET Slots]
      /\ g.seated[t] = h.seated[t] \cup {i}
      /\ \A x \in Tables : x # t => g.seated[x] = h.seated[x]
  BY <1>0, <1>3 DEF Halls
<1>a. \A x \in Tables : \A j \in Slots :
        j \in g.seated[x] <=> j \in h.seated[x] \/ (j = i /\ x = t)
  BY <1>5
<1>b. \A x \in Tables : g.seated[x] \subseteq Slots /\ h.seated[x] \subseteq Slots
  BY <1>5 DEF Halls
<1>6. /\ g.count \in [Tables -> Nat]
      /\ \A x \in Tables : g.count[x] = IF x = t THEN h.count[x] + 1 ELSE h.count[x]
  BY <1>0, <1>3 DEF Halls
<1>7. g \in Halls
  BY <1>3, <1>4, <1>5, <1>6 DEF Halls
<1>8. \A x \in Tables : i \notin h.seated[x]
  BY FreshOK DEF Chairs, Away
<1>9. Chairs(g)
  BY <1>0, <1>a, <1>2, <1>4, <1>8 DEF Chairs
<1>10. Counted(g)
  <2>1. Cardinality(h.seated[t] \cup {i}) = Cardinality(h.seated[t]) + 1
    <3>1. h.seated[t] \in SUBSET Slots
      BY DEF Halls
    <3> QED BY <1>8, <3>1, SeatedFinite, FS_AddElement
  <2>2. g.count[t] = Cardinality(g.seated[t]) /\ g.count[t] <= NumPlayer
    BY <1>0, <1>5, <1>6, <2>1 DEF Counted, NotFull
  <2> QED BY <1>5, <1>6, <2>2 DEF Counted
<1>11. Named(g)
  <2>1. \A j \in h.seated[t] : h.player[j].id # u /\ j \in Slots
    BY DEF InTab, Halls
  <2> QED BY <1>0, <1>a, <1>b, <1>2, <1>4, <1>8, <2>1 DEF Named
<1>12. InUse(g)
  BY <1>2, <1>4 DEF InUse
<1>13. Single(g)
  BY <1>0, <1>2, <1>4 DEF Single
<1>14. Apart(g)
  <2>1. \A j \in h.seated[t] :
          /\ j \in Slots
          /\ u \in Humans /\ h.player[j].id \in Humans => Ip[h.player[j].id] # Ip[u]
    BY DEF CheckIP, Halls
  <2> QED BY <1>0, <1>a, <1>b, <1>2, <1>4, <1>8, <2>1 DEF Apart
<1>15. Held(g)
  BY <1>0, <1>3, <1>6 DEF Held
<1>16. Strays(g) \subseteq Strays(h) \ {i}
  BY <1>2, <1>4, FreshOK DEF Strays
<1> QED BY <1>7, <1>9, <1>10, <1>11, <1>12, <1>13, <1>14, <1>15, <1>16 DEF g

\* playerComming of a robot that is at the table with another object.
LEMMA ReplaceOK ==
    ASSUME NEW h, RoomOK(h), NEW i, Away(h, i), NEW t \in Tables,
           h.player[i].id \in Robots, InTab(h, t, h.player[i].id)
    PROVE  RoomOK(Replace(h, i, t)) /\ Strays(Replace(h, i, t)) \subseteq Strays(h) \ {i}
<1> DEFINE u == h.player[i].id
           old == CHOOSE j \in h.seated[t] : h.player[j].id = u
           g == Replace(h, i, t)
<1> USE DEF RoomOK
<1>0. /\ u \notin Humans /\ NoUser \notin Humans /\ NoUser # u
      /\ i \in Slots /\ h.player \in [Slots -> Objects]
      /\ \A x \in Tables : h.seated[x] \subseteq Slots
  BY RoomAssumption DEF Halls, Away
<1>1. old \in h.seated[t] /\ h.player[old].id = u
  BY DEF InTab
<1>2. old \in Slots /\ h.player[old].tid = t /\ h.player[old].status \in Statuses
      /\ h.player[old].status # "LOGOUT"
  <2> HIDE DEF old
  <2>1. old \in Slots
    BY <1>0, <1>1
  <2>2. h.player[old].tid = t
    BY <1>1, <2>1 DEF Chairs
  <2>3. h.player[old] \in Objects
    BY <1>0, <2>1
  <2> QED BY <2>1, <2>2, <2>3, FreshOK DEF InUse, Objects
<1> DEFINE o == [[h.player[i] EXCEPT !.status = h.player[old].status] EXCEPT !.tid = t]
<1>3. o \in Objects /\ o.id = u /\ o.status # "LOGOUT" /\ o.tid = t
  BY <1>0, <1>2 DEF Objects
<1>4. i # old
  BY <1>2, FreshOK DEF Away
<1>5. /\ g.player = [[h.player EXCEPT ![i] = o] EXCEPT ![old] = Fresh]
      /\ g.seated = [h.seated EXCEPT ![t] = (@ \ {old}) \cup {i}]
      /\ g.count = h.count /\ g.locked = h.locked
      /\ g = [player |-> g.player, seated |-> g.seated, count |-> g.count, locked |-> g.locked]
  <2> HIDE DEF old
  <2>1. g = [h EXCEPT !.player[i].status = h.player[old].status,
                      !.player[i].tid = t,
                      !.player[old] = Fresh,
                      !.seated[t] = (@ \ {old}) \cup {i}]
    BY DEF Replace, old
  <2>2. h \in Halls
    OBVIOUS
  <2> HIDE DEF g, RoomOK
  <2> QED BY <1>0, <2>1, <2>2 DEF Halls
<1> HIDE DEF g, o, old
<1>6. /\ g.player \in [Slots -> Objects]
      /\ \A j \in Slots : g.player[j] = IF j = old THEN Fresh
                                        ELSE IF j = i THEN o ELSE h.player[j]
  <2> HIDE DEF RoomOK
  <2>1. /\ g.player = [[h.player EXCEPT ![i] = o] EXCEPT ![old] = Fresh]
        /\ h.player \in [Slots -> Objects] /\ o \in Objects /\ Fresh \in Objects
    BY <1>0, <1>3, <1>5, FreshOK
  <2> QED BY <2>1
<1>7. /\ g.seated \in [Tables -> SUBSET Slots]
      /\ g.seated[t] = (h.seated[t] \ {old}) \cup {i}
      /\ \A x \in Tables : x # t => g.seated[x] = h.seated[x]
  <2>1. h.seated \in [Tables -> SUBSET Slots]
    BY DEF Halls
  <2>2. (h.seated[t] \ {old}) \cup {i} \in SUBSET Slots
    BY <1>0
  <2> QED BY <1>5, <2>1, <2>2
<1>a. \A x \in Tables : \A j \in Slots :
        j \in g.seated[x] <=> (j \in h.seated[x] /\ (x = t => j # old)) \/ (j = i /\ x = t)
  BY <1>7
<1>b. \A x \in Tables : g.seated[x] \subseteq Slots /\ h.seated[x] \subseteq Slots
  BY <1>0, <1>7
<1>8. g \in Halls
  BY <1>5, <1>6, <1>7 DEF Halls
<1>9. \A x \in Tables : i \notin h.seated[x]
  BY FreshOK DEF Chairs, Away
<1>10. \A x \in Tables : x # t => old \notin h.seated[x]
  BY <1>2 DEF Chairs
<1>11. Chairs(g)
  BY <1>0, <1>a, <1>2, <1>3, <1>4, <1>6, <1>9, FreshOK DEF Chairs
<1>12. Counted(g)
  <2>1. Cardinality((h.seated[t] \ {old}) \cup {i}) = Cardinality(h.seated[t])
    <3>1. IsFiniteSet(h.seated[t]) /\ Cardinality(h.seated[t]) \in Nat
      BY <1>0, SeatedFinite
    <3>2. /\ IsFiniteSet(h.seated[t] \ {old})
          /\ Cardinality(h.seated[t] \ {old}) = Cardinality(h.seated[t]) - 1
      BY <1>1, <3>1, FS_RemoveElement
    <3>3. Cardinality((h.seated[t] \ {old}) \cup {i}) = Cardinality(h.seated[t] \ {old}) + 1
      BY <1>9, <3>2, FS_AddElement
    <3> QED BY <3>1, <3>2, <3>3
  <2>2. g.count[t] = Cardinality(g.seated[t])
    BY <1>5, <1>7, <2>1 DEF Counted
  <2> QED BY <1>5, <1>7, <2>2 DEF Counted
<1>13. Named(g)
  <2>1. \A j \in h.seated[t] : h.player[j].id = u => j = old
    BY <1>1 DEF Named
  <2>2. \A x \in Tables : \A j \in g.seated[x] :
          /\ j = i => x = t /\ g.player[j].id = u
          /\ j # i => j \in h.seated[x] /\ g.player[j] = h.player[j]
                     /\ (x = t => h.player[j].id # u)
    BY <1>0, <1>a, <1>b, <1>3, <1>4, <1>6, <1>9, <1>10, <2>1
  <2> QED BY <2>2 DEF Named
<1>14. InUse(g)
  BY <1>3, <1>6, FreshOK DEF InUse
<1>15. Single(g)
  BY <1>0, <1>3, <1>6, FreshOK DEF Single
<1>16. Apart(g)
  BY <1>0, <1>a, <1>b, <1>3, <1>6, <1>9, <1>10, FreshOK DEF Apart
<1>17. Held(g)
  BY <1>5 DEF Held
<1>18. Strays(g) \subseteq Strays(h) \ {i}
  BY <1>3, <1>4, <1>6, FreshOK DEF Strays
<1> QED BY <1>8, <1>11, <1>12, <1>13, <1>14, <1>15, <1>16, <1>17, <1>18 DEF g

-----------------------------------------------------------------------------
(* Taking an object and choosing a table. *)

\* An object that is at no table is given to a user who has no other, or to a
\* robot.
LEMMA GivenOK ==
    ASSUME NEW h, RoomOK(h), NEW i, Away(h, i), NEW u \in Users,
           u \in Humans => \A j \in Slots : h.player[j].id = u => j = i
    PROVE  LET g == [h EXCEPT !.player[i].id = u, !.player[i].status = "COMING"]
           IN /\ RoomOK(g) /\ Away(g, i) /\ g.player[i].id = u
              /\ Strays(g) \subseteq Strays(h) \cup {i}
              /\ g.player = [h.player EXCEPT ![i].id = u, ![i].status = "COMING"]
              /\ g.seated = h.seated /\ g.count = h.count /\ g.locked = h.locked
              /\ u \in Humans => \A t \in Tables : ~ InTab(g, t, u)
<1> DEFINE g == [h EXCEPT !.player[i].id = u, !.player[i].status = "COMING"]
           o == [h.player[i] EXCEPT !.id = u, !.status = "COMING"]
<1> USE DEF RoomOK
<1>0. /\ i \in Slots /\ h.player[i].tid = NoTable /\ h.player \in [Slots -> Objects]
      /\ \A t \in Tables : h.seated[t] \subseteq Slots
  BY DEF Away, Halls
<1>1. o \in Objects /\ o.id = u /\ o.status = "COMING" /\ o.tid = NoTable
  BY <1>0 DEF Objects, Statuses
<1>2. /\ g.player = [h.player EXCEPT ![i] = o]
      /\ g.player = [h.player EXCEPT ![i].id = u, ![i].status = "COMING"]
      /\ g.seated = h.seated /\ g.count = h.count /\ g.locked = h.locked
      /\ g = [player |-> g.player, seated |-> g.seated, count |-> g.count, locked |-> g.locked]
  <2>1. [h.player EXCEPT ![i].id = u, ![i].status = "COMING"]
          = [h.player EXCEPT ![i] = o]
    BY <1>0
  <2>2. g.player = [h.player EXCEPT ![i].id = u, ![i].status = "COMING"]
    BY <1>0 DEF Halls
  <2>3. /\ g.seated = h.seated /\ g.count = h.count /\ g.locked = h.locked
        /\ g = [player |-> g.player, seated |-> g.seated, count |-> g.count, locked |-> g.locked]
    <3>1. g = [h EXCEPT !.player[i].id = u, !.player[i].status = "COMING"]
      OBVIOUS
    <3>2. h.player[i] \in Objects
      BY <1>0
    <3> HIDE DEF g, o
    <3> QED BY <1>0, <3>1, <3>2 DEF Halls
  <2> QED BY <2>1, <2>2, <2>3
<1> HIDE DEF g, o
<1>3. /\ g.player \in [Slots -> Objects]
      /\ \A j \in Slots : g.player[j] = IF j = i THEN o ELSE h.player[j]
  BY <1>0, <1>1, <1>2
<1>4. \A t \in Tables : i \notin h.seated[t]
  BY <1>0, FreshOK DEF Chairs
<1>5. g \in Halls
  BY <1>2, <1>3 DEF Halls
<1>6. Chairs(g)
  BY <1>0, <1>1, <1>2, <1>3 DEF Chairs
<1>7. Counted(g) /\ Held(g)
  BY <1>2 DEF Counted, Held
<1>8. Named(g)
  BY <1>0, <1>2, <1>3, <1>4 DEF Named
<1>9. InUse(g)
  BY <1>1, <1>3 DEF InUse
<1>10. Single(g)
  BY <1>0, <1>1, <1>3 DEF Single
<1>11. Apart(g)
  BY <1>0, <1>2, <1>3, <1>4 DEF Apart
<1>12. Strays(g) \subseteq Strays(h) \cup {i}
  BY <1>3 DEF Strays
<1>13. u \in Humans => \A t \in Tables : ~ InTab(g, t, u)
  BY <1>0, <1>2, <1>3, <1>4 DEF InTab
<1>14. Away(g, i) /\ g.player[i].id = u
  BY <1>0, <1>1, <1>3 DEF Away
<1> QED BY <1>2, <1>5, <1>6, <1>7, <1>8, <1>9, <1>10, <1>11, <1>12, <1>13, <1>14 DEF g

\* An empty table has nobody, and it is not locked.
LEMMA EmptyTable ==
    ASSUME NEW h, RoomOK(h), NEW t \in Tables
    PROVE  /\ h.count[t] \in Nat
           /\ Empty(h, t) => /\ h.seated[t] = {} /\ NotFull(h, t)
                             /\ ~ h.locked[t]
<1>1. h.seated[t] \in SUBSET Slots /\ h.count[t] \in Nat
  BY DEF RoomOK, Halls
<1>2. h.count[t] = 0 => h.seated[t] = {}
  BY <1>1, SeatedFinite, FS_EmptySet DEF RoomOK, Counted
<1> QED BY <1>1, <1>2, RoomAssumption DEF Empty, NotFull, RoomOK, Held

\* getAvailableTable() and getAvailableTable(uid, ip) find a table with a free
\* chair, or there is no empty table; the second one is right for the user.
LEMMA UnlockedFound ==
    ASSUME NEW h, RoomOK(h)
    PROVE  LET t == FirstOf(Unlocked(h))
           IN IF t = NoTable THEN \A x \in Tables : h.count[x] > 0
              ELSE t \in Tables /\ NotFull(h, t)
<1>1. IF Unlocked(h) = {} THEN FirstOf(Unlocked(h)) = NoTable
      ELSE FirstOf(Unlocked(h)) \in Unlocked(h)
  BY FirstOfOne DEF Unlocked
<1>2. Unlocked(h) = {} => \A x \in Tables : h.count[x] > 0
  BY EmptyTable DEF Unlocked, Empty
<1> QED BY <1>1, <1>2, FreshOK DEF Unlocked

\* The second walk over the tables finds one with a chair for u, or every table
\* has players.
LEMMA SecondFound ==
    ASSUME NEW h, RoomOK(h), NEW u
    PROVE  LET t == Second(h, u)
           IN IF t = NoTable THEN \A x \in Tables : h.count[x] > 0
              ELSE t \in Tables /\ NotFull(h, t) /\ CheckIP(h, t, u)
<1> DEFINE T == {t \in Tables : NotFull(h, t) /\ ~ InTab(h, t, u) /\ CheckIP(h, t, u)}
           E == {t \in Tables : Empty(h, t)}
<1>1. Second(h, u) = IF T # {} THEN FirstOf(T) ELSE FirstOf(E)
  BY DEF Second
<1>2. T \in SUBSET Tables /\ E \in SUBSET Tables
  OBVIOUS
<1>3. CASE T # {}
  BY <1>1, <1>2, <1>3, FirstOfOne, FreshOK
<1>4. CASE T = {} /\ E # {}
  <2>1. FirstOf(E) \in E
    BY <1>2, <1>4, FirstOfOne
  <2>2. h.seated[FirstOf(E)] = {} /\ NotFull(h, FirstOf(E))
    BY <2>1, EmptyTable
  <2> QED BY <1>1, <1>4, <2>1, <2>2, FreshOK DEF CheckIP
<1>5. CASE T = {} /\ E = {}
  <2>1. FirstOf(E) = NoTable
    BY <1>2, <1>5, FirstOfOne
  <2> QED BY <1>1, <1>5, <2>1, EmptyTable DEF Empty
<1> QED BY <1>3, <1>4, <1>5

\* doResponse: the chosen table is right for the user's address.
LEMMA ChooseFound ==
    ASSUME NEW h, RoomOK(h), NEW u, NEW t
    PROVE  LET c == Choose(h, u, t)
           IN IF c = NoTable THEN \A x \in Tables : h.count[x] > 0
              ELSE c \in Tables /\ CheckIP(h, c, u)
<1> DEFINE t1 == IF t \notin Tables \/ h.locked[t] THEN FirstOf(Unlocked(h)) ELSE t
<1>1. IF t1 = NoTable THEN \A x \in Tables : h.count[x] > 0 ELSE t1 \in Tables
  BY UnlockedFound, FreshOK
<1>2. Choose(h, u, t) = IF t1 # NoTable /\ ~ CheckIP(h, t1, u) THEN Second(h, u) ELSE t1
  BY DEF Choose
<1> HIDE DEF t1
<1> QED BY <1>1, <1>2, SecondFound

\* The table the user enters has a free chair and is right for his address.
LEMMA EnteredFound ==
    ASSUME NEW h, RoomOK(h), NEW u, NEW t \in Tables, CheckIP(h, t, u),
           ~ InTab(h, t, u)
    PROVE  LET c == Entered(h, u, t)
           IN IF c = NoTable THEN \A x \in Tables : h.count[x] > 0
              ELSE c \in Tables /\ NotFull(h, c) /\ CheckIP(h, c, u)
BY SecondFound, FreshOK DEF Entered

-----------------------------------------------------------------------------
(* The actions. *)

\* What is proved of every step: the room stays in order, and nobody is left
\* without a table, nor the server brought down, while a table is empty.
GoodStep ==
    /\ RoomInv'
    /\ (Stray' \ Stray # {} \/ down' # down) => \A t \in Tables : count[t] > 0

\* The record Hall is the room's variables.
LEMMA HallFields ==
    /\ Hall.player = player /\ Hall.seated = seated
    /\ Hall.count = count /\ Hall.locked = locked
    /\ Strays(Hall) = Stray
BY DEF Hall, Strays, Stray

\* A hall in order makes a good step, if it has no new stray player while a
\* table is empty.
LEMMA BecomesGood ==
    ASSUME NEW h, RoomOK(h), Becomes(h),
           Strays(h) \subseteq Stray \/ \A t \in Tables : count[t] > 0
    PROVE  GoodStep
<1>1. h = [player |-> h.player, seated |-> h.seated, count |-> h.count, locked |-> h.locked]
  BY DEF RoomOK, Halls
<1>2. Hall' = h /\ down' = down
  BY <1>1 DEF Becomes, Hall
<1>3. Stray' = Strays(h)
  BY DEF Becomes, Stray, Strays
<1> QED BY <1>2, <1>3 DEF GoodStep, RoomInv

\* A step that moves nobody is good.
LEMMA UnchangedGood ==
    ASSUME RoomInv, UNCHANGED <<player, seated, count, locked>>,
           down' = down \/ \A t \in Tables : count[t] > 0
    PROVE  GoodStep
<1>1. Hall' = Hall /\ Stray' = Stray
  BY DEF Hall, Stray
<1> QED BY <1>1 DEF GoodStep, RoomInv

\* The object a human comes with is at no table, and it is his only one.
LEMMA ObjectAway ==
    ASSUME RoomInv, NEW u \in Humans, MayEnter(u)
    PROVE  /\ Away(Hall, ObjectFor(u))
           /\ \A j \in Slots : player[j].id = u => j = ObjectFor(u)
<1> USE HallFields
<1>1. RoomOK(Hall) /\ player \in [Slots -> Objects]
  BY DEF RoomInv, RoomOK, Halls
<1>2. CASE PlayerUID(u) # {}
  <2>1. ObjectFor(u) = Min(PlayerUID(u)) /\ Min(PlayerUID(u)) \in PlayerUID(u)
    BY <1>2, SlotFound DEF ObjectFor, PlayerUID
  <2>2. player[ObjectFor(u)].tid \notin Tables
    BY <1>2, <2>1 DEF MayEnter, SeatedAlready
  <2>3. ObjectFor(u) \in Slots /\ player[ObjectFor(u)].id = u
    BY <2>1 DEF PlayerUID
  <2>4. player[ObjectFor(u)] \in Objects
    BY <1>1, <2>3
  <2>5. player[ObjectFor(u)].tid = NoTable
    BY <2>2, <2>4 DEF Objects
  <2> QED BY <1>1, <2>3, <2>5 DEF Away, RoomOK, Single
<1>3. CASE PlayerUID(u) = {}
  <2>1. Available # {}
    BY <1>3 DEF MayEnter
  <2>2. ObjectFor(u) = Min(Available) /\ Min(Available) \in Available
    BY <1>3, <2>1, SlotFound DEF ObjectFor, Available
  <2>3. ObjectFor(u) \in Slots /\ player[ObjectFor(u)].status = "LOGOUT"
    BY <2>2 DEF Available
  <2> QED BY <1>1, <1>3, <2>3 DEF Away, RoomOK, InUse, PlayerUID
<1> QED BY <1>2, <1>3

\* What a human has become who may come in
LEMMA ComingOK ==
    ASSUME RoomInv, NEW u \in Humans, MayEnter(u)
    PROVE  LET i == ObjectFor(u)
               h == Coming(i, u)
           IN /\ RoomOK(h) /\ Away(h, i) /\ h.player[i].id = u
              /\ Strays(h) \subseteq Stray \cup {i}
              /\ h.count = count /\ h.seated = seated /\ h.locked = locked
              /\ \A t \in Tables : ~ InTab(h, t, u)
<1> DEFINE i == ObjectFor(u)
<1>1. Away(Hall, i) /\ \A j \in Slots : player[j].id = u => j = i
  BY ObjectAway
<1>2. u \in Users /\ RoomOK(Hall)
  BY DEF Users, RoomInv
<1> HIDE DEF i
<1>3. Coming(i, u) = [Hall EXCEPT !.player[i].id = u, !.player[i].status = "COMING"]
  BY DEF Coming
<1>4. LET g == [Hall EXCEPT !.player[i].id = u, !.player[i].status = "COMING"]
      IN /\ RoomOK(g) /\ Away(g, i) /\ g.player[i].id = u
         /\ Strays(g) \subseteq Strays(Hall) \cup {i}
         /\ g.player = [Hall.player EXCEPT ![i].id = u, ![i].status = "COMING"]
         /\ g.seated = Hall.seated /\ g.count = Hall.count /\ g.locked = Hall.locked
         /\ u \in Humans => \A t \in Tables : ~ InTab(g, t, u)
  <2>1. u \in Humans => \A j \in Slots : Hall.player[j].id = u => j = i
    BY <1>1, HallFields
  <2> QED BY <1>1, <1>2, <2>1, GivenOK
<1> DEFINE h == Coming(i, u)
<1>5. /\ RoomOK(h) /\ Away(h, i) /\ h.player[i].id = u
      /\ Strays(h) \subseteq Stray \cup {i}
      /\ h.count = count /\ h.seated = seated /\ h.locked = locked
      /\ \A t \in Tables : ~ InTab(h, t, u)
  BY <1>3, <1>4, HallFields
<1> QED BY <1>5 DEF i

\* The messages of a human player are good steps.
LEMMA HumanSteps ==
    ASSUME RoomInv, NEW u \in Humans,
           \/ LoginComing(u) \/ NoAnswer(u) \/ TurnAway(u) \/ TooPoor(u)
           \/ \E t \in AnyTable :
                Stranded(u, t) \/ TakeChair(u, t) \/ NullTable(u, t)
    PROVE  GoodStep
<1> DEFINE i == ObjectFor(u)
           h == Coming(i, u)
<1>1. CASE LoginComing(u) \/ NoAnswer(u) \/ TurnAway(u)
  BY <1>1, UnchangedGood DEF LoginComing, NoAnswer, TurnAway
<1>0. ASSUME MayEnter(u)
      PROVE  /\ RoomOK(h) /\ Away(h, i) /\ h.player[i].id = u
             /\ Strays(h) \subseteq Stray \cup {i}
             /\ h.count = count
             /\ \A t \in Tables : ~ InTab(h, t, u)
  BY <1>0, ComingOK
<1>2. CASE TooPoor(u)
  <2> DEFINE g == [h EXCEPT !.player[i] = LoggedOut(@)]
             o == LoggedOut(h.player[i])
  <2>1. MayEnter(u) /\ Becomes(g)
    <3>1. TooPoor(u) => MayEnter(u) /\ Becomes([Coming(ObjectFor(u), u) EXCEPT !.player[ObjectFor(u)] = LoggedOut(@)])
      BY DEF TooPoor
    <3> QED BY <1>2, <3>1
  <2>2. /\ RoomOK(h) /\ i \in Slots /\ h.player[i].tid = NoTable
        /\ h.player[i] \in Objects /\ h \in Halls
    BY <1>0, <2>1 DEF Away, RoomOK, Halls
  <2> HIDE DEF h, i
  <2>3. /\ o \in Objects /\ o.id = h.player[i].id /\ o.tid = NoTable
        /\ o.status = "LOGOUT"
    BY <2>2 DEF LoggedOut, Objects, Statuses
  <2>4. /\ g.player = [h.player EXCEPT ![i] = o]
        /\ g.seated = h.seated /\ g.count = h.count /\ g.locked = h.locked
        /\ g = [player |-> g.player, seated |-> g.seated, count |-> g.count, locked |-> g.locked]
    BY <2>2 DEF Halls
  <2> HIDE DEF g, o
  <2>5. /\ g.player \in [Slots -> Objects]
        /\ \A j \in Slots : g.player[j] = IF j = i THEN o ELSE h.player[j]
    BY <2>2, <2>3, <2>4 DEF Halls
  <2>6. g \in Halls
    BY <2>2, <2>4, <2>5 DEF Halls
  <2>7. RoomOK(g) /\ Strays(g) \subseteq Strays(h)
    BY <2>2, <2>3, <2>4, <2>5, <2>6, StatusOK
  <2>8. i \notin Strays(g)
    BY <2>3, <2>5 DEF Strays
  <2>9. Strays(h) \subseteq Stray \cup {i}
    BY <1>0, <2>1
  <2> QED BY <2>1, <2>7, <2>8, <2>9, BecomesGood
<1>3. ASSUME NEW t \in AnyTable, Stranded(u, t) PROVE GoodStep
  <2>1. MayEnter(u) /\ Choose(h, u, t) = NoTable /\ Becomes(h)
    BY <1>3 DEF Stranded
  <2> HIDE DEF h, i
  <2>2. RoomOK(h) /\ \A x \in Tables : h.count[x] > 0
    BY <1>0, <2>1, ChooseFound
  <2> QED BY <1>0, <2>1, <2>2, BecomesGood
<1>4. ASSUME NEW t \in AnyTable, NullTable(u, t) PROVE GoodStep
  <2> DEFINE c == Choose(h, u, t)
  <2>1. /\ MayEnter(u) /\ c # NoTable /\ Entered(h, u, c) = NoTable
        /\ UNCHANGED <<player, seated, count, locked>>
    BY <1>4 DEF NullTable
  <2> HIDE DEF h, i
  <2>2. RoomOK(h) /\ c \in Tables /\ CheckIP(h, c, u) /\ ~ InTab(h, c, u)
    BY <1>0, <2>1, ChooseFound
  <2> HIDE DEF c
  <2>3. \A x \in Tables : h.count[x] > 0
    BY <2>1, <2>2, EnteredFound
  <2> QED BY <1>0, <2>1, <2>3, UnchangedGood
<1>5. ASSUME NEW t \in AnyTable, TakeChair(u, t) PROVE GoodStep
  <2> DEFINE c == Choose(h, u, t)
             in == Entered(h, u, c)
             h1 == IF InTab(h, in, u) THEN Replace(h, i, in) ELSE Sit(h, i, in)
  <2>1. /\ MayEnter(u) /\ c # NoTable /\ in # NoTable
        /\ Becomes(KickTimer(h1, in))
    BY <1>5 DEF TakeChair
  <2>a. h1 = IF InTab(h, in, u) THEN Replace(h, i, in) ELSE Sit(h, i, in)
    OBVIOUS
  <2> HIDE DEF h, i, h1
  <2>2. /\ RoomOK(h) /\ Away(h, i) /\ h.player[i].id = u
        /\ c \in Tables /\ CheckIP(h, c, u) /\ ~ InTab(h, c, u)
    BY <1>0, <2>1, ChooseFound
  <2> HIDE DEF c
  <2>3. in \in Tables /\ NotFull(h, in) /\ CheckIP(h, in, u)
    BY <2>1, <2>2, EnteredFound
  <2> HIDE DEF in
  <2>4. h1 = Sit(h, i, in) /\ ~ InTab(h, in, u)
    BY <1>0, <2>1, <2>3, <2>a
  <2>5. RoomOK(h1) /\ Strays(h1) \subseteq Strays(h) \ {i}
    BY <2>2, <2>3, <2>4, SitOK
  <2>6. RoomOK(KickTimer(h1, in)) /\ Strays(KickTimer(h1, in)) = Strays(h1)
    BY <2>3, <2>5, KickTimerOK
  <2>7. Strays(h) \subseteq Stray \cup {i}
    BY <1>0, <2>1
  <2> QED BY <2>1, <2>5, <2>6, <2>7, BecomesGood
<1> QED BY <1>1, <1>2, <1>3, <1>4, <1>5

\* A robot that comes is a good step.
LEMMA RobotSteps ==
    ASSUME RoomInv, NEW u \in Robots, NEW t \in AnyTable, RobotComing(u, t)
    PROVE  GoodStep
<1> DEFINE i == Min(Available)
           h == Coming(i, u)
           t1 == IF t \in Tables THEN t ELSE FirstOf(Unlocked(h))
           t2 == IF t1 = NoTable \/ InTab(h, t1, u) \/ NotFull(h, t1)
                 THEN t1 ELSE FirstOf(Unlocked(h))
           g == IF t2 = NoTable THEN h
                ELSE IF InTab(h, t2, u) THEN Replace(h, i, t2)
                ELSE Sit(h, i, t2)
<1>1. Available # {} /\ Becomes(g)
  BY DEF RobotComing
<1>2. Away(Hall, i)
  <2>1. i \in Available
    BY <1>1, SlotFound DEF Available
  <2>2. i \in Slots /\ player[i].status = "LOGOUT"
    BY <2>1 DEF Available
  <2> QED BY <2>2, HallFields DEF Away, RoomInv, RoomOK, InUse
<1>a. t1 = IF t \in Tables THEN t ELSE FirstOf(Unlocked(h))
  OBVIOUS
<1>b. t2 = IF t1 = NoTable \/ InTab(h, t1, u) \/ NotFull(h, t1)
           THEN t1 ELSE FirstOf(Unlocked(h))
  OBVIOUS
<1>c. g = IF t2 = NoTable THEN h
          ELSE IF InTab(h, t2, u) THEN Replace(h, i, t2) ELSE Sit(h, i, t2)
  OBVIOUS
<1>d. h = [Hall EXCEPT !.player[i].id = u, !.player[i].status = "COMING"]
  BY DEF Coming
<1> HIDE DEF i, h, t1, t2, g
<1>3. u \in Users /\ u \notin Humans /\ RoomOK(Hall)
  BY RoomAssumption DEF Users, RoomInv
<1>4. /\ RoomOK(h) /\ Away(h, i) /\ h.player[i].id = u
      /\ Strays(h) \subseteq Stray \cup {i} /\ h.count = count
  <2>1. LET f == [Hall EXCEPT !.player[i].id = u, !.player[i].status = "COMING"]
        IN /\ RoomOK(f) /\ Away(f, i) /\ f.player[i].id = u
           /\ Strays(f) \subseteq Strays(Hall) \cup {i}
           /\ f.player = [Hall.player EXCEPT ![i].id = u, ![i].status = "COMING"]
           /\ f.seated = Hall.seated /\ f.count = Hall.count /\ f.locked = Hall.locked
           /\ u \in Humans => \A x \in Tables : ~ InTab(f, x, u)
    BY <1>2, <1>3, GivenOK
  <2> QED BY <1>d, <2>1, HallFields
<1>5. IF t1 = NoTable THEN \A x \in Tables : h.count[x] > 0 ELSE t1 \in Tables
  BY <1>4, <1>a, UnlockedFound, FreshOK
<1>6. IF t2 = NoTable THEN \A x \in Tables : h.count[x] > 0
      ELSE t2 \in Tables /\ (InTab(h, t2, u) \/ NotFull(h, t2))
  BY <1>4, <1>5, <1>b, UnlockedFound
<1>7. CASE t2 = NoTable
  BY <1>1, <1>4, <1>6, <1>7, <1>c, BecomesGood
<1>8. CASE t2 # NoTable /\ InTab(h, t2, u)
  <2>1. g = Replace(h, i, t2) /\ t2 \in Tables
    BY <1>6, <1>8, <1>c
  <2>2. RoomOK(g) /\ Strays(g) \subseteq Strays(h) \ {i}
    BY <1>4, <1>8, <2>1, ReplaceOK
  <2> QED BY <1>1, <1>4, <2>2, BecomesGood
<1>9. CASE t2 # NoTable /\ ~ InTab(h, t2, u)
  <2>1. g = Sit(h, i, t2) /\ t2 \in Tables /\ NotFull(h, t2)
    BY <1>6, <1>9, <1>c
  <2>2. RoomOK(g) /\ Strays(g) \subseteq Strays(h) \ {i}
    BY <1>3, <1>4, <1>9, <2>1, SitOK
  <2> QED BY <1>1, <1>4, <2>2, BecomesGood
<1> QED BY <1>7, <1>8, <1>9

\* What happens at a table is a good step for the room.
LEMMA TableSteps ==
    ASSUME RoomInv, NEW t \in Tables,
           \/ \E I \in SUBSET seated[t] : LeaveTable(t, I)
           \/ TableKickTimeOut(t) \/ GameStart(t) \/ GameOver(t)
    PROVE  GoodStep
<1>0. /\ RoomOK(Hall) /\ player \in [Slots -> Objects]
      /\ seated \in [Tables -> SUBSET Slots] /\ count \in [Tables -> Nat]
      /\ locked \in [Tables -> BOOLEAN]
      /\ Strays(Hall) = Stray
  BY HallFields DEF RoomInv, RoomOK, Halls
<1>1. ASSUME NEW I \in SUBSET seated[t], LeaveTable(t, I) PROVE GoodStep
  <2>1. I \in SUBSET Slots
    BY <1>0
  <2>2. RoomOK(Leave(Hall, I)) /\ Strays(Leave(Hall, I)) \subseteq Stray
    BY <1>0, <2>1, LeaveOK
  <2> QED BY <1>1, <2>2, BecomesGood DEF LeaveTable
<1>2. CASE TableKickTimeOut(t)
  <2> DEFINE h == [Hall EXCEPT !.locked[t] = FALSE]
  <2>1. PICK late \in SUBSET seated[t] :
          Becomes(IF AtPlay(h, t) \/ count[t] = 1 THEN h ELSE Leave(h, late))
    BY <1>2 DEF TableKickTimeOut
  <2>2. /\ h.player = player /\ h.seated = seated /\ h.count = count
        /\ h.locked = [locked EXCEPT ![t] = FALSE]
        /\ h \in Halls
    BY <1>0 DEF Hall, Halls
  <2> HIDE DEF h
  <2>3. RoomOK(h) /\ Strays(h) \subseteq Stray
    BY <1>0, <2>2, StatusOK, HallFields
  <2>4. late \in SUBSET Slots
    BY <1>0
  <2>5. RoomOK(Leave(h, late)) /\ Strays(Leave(h, late)) \subseteq Stray
    BY <2>3, <2>4, LeaveOK
  <2> QED BY <2>1, <2>3, <2>5, BecomesGood
<1>3. CASE GameStart(t)
  <2> DEFINE f == [i \in Slots |-> IF i \in seated[t]
                                   THEN [player[i] EXCEPT !.status = "ACTIVE"]
                                   ELSE player[i]]
             h == [player |-> f, seated |-> seated, count |-> count,
                   locked |-> [locked EXCEPT ![t] = FALSE]]
  <2> DEFINE x == [Hall EXCEPT !.locked[t] = FALSE,
                               !.player = [i \in Slots |->
                                   IF i \in seated[t]
                                   THEN [@[i] EXCEPT !.status = "ACTIVE"]
                                   ELSE @[i]]]
  <2>a. Becomes(x)
    BY <1>3 DEF GameStart
  <2>b. /\ x.player = f /\ x.seated = seated /\ x.count = count
        /\ x.locked = [locked EXCEPT ![t] = FALSE]
    BY DEF Hall
  <2> HIDE DEF x
  <2>1. Becomes(h)
    BY <2>a, <2>b DEF Becomes
  <2>2. \A i \in Slots : /\ f[i] \in Objects
                         /\ f[i].id = player[i].id /\ f[i].tid = player[i].tid
                         /\ \/ f[i] = player[i]
                            \/ f[i].tid # NoTable /\ f[i].status = "ACTIVE"
    BY <1>0, FreshOK, HallFields DEF RoomOK, Chairs, Objects, Statuses
  <2>3. f \in [Slots -> Objects]
    BY <2>2
  <2> HIDE DEF f
  <2>4. h \in Halls
    BY <1>0, <2>3 DEF Halls
  <2>5. RoomOK(h) /\ Strays(h) \subseteq Stray
    BY <1>0, <2>2, <2>4, StatusOK, HallFields
  <2> QED BY <2>1, <2>5, BecomesGood
<1>4. CASE GameOver(t)
  <2> DEFINE f == [i \in Slots |-> IF i \in seated[t]
                                   THEN [player[i] EXCEPT !.status = "COMING"]
                                   ELSE player[i]]
             h == [player |-> f, seated |-> seated, count |-> count,
                   locked |-> locked]
  <2>1. Becomes(KickTimer(h, t))
    BY <1>4 DEF GameOver, Hall
  <2>2. \A i \in Slots : /\ f[i] \in Objects
                         /\ f[i].id = player[i].id /\ f[i].tid = player[i].tid
                         /\ \/ f[i] = player[i]
                            \/ f[i].tid # NoTable /\ f[i].status = "COMING"
    BY <1>0, FreshOK, HallFields DEF RoomOK, Chairs, Objects, Statuses
  <2>3. f \in [Slots -> Objects]
    BY <2>2
  <2> HIDE DEF f
  <2>4. h \in Halls
    BY <1>0, <2>3 DEF Halls
  <2>5. RoomOK(h) /\ Strays(h) \subseteq Stray
    BY <1>0, <2>2, <2>4, StatusOK, HallFields
  <2> HIDE DEF h
  <2>6. RoomOK(KickTimer(h, t)) /\ Strays(KickTimer(h, t)) \subseteq Stray
    BY <2>5, KickTimerOK
  <2> QED BY <2>1, <2>6, BecomesGood
<1> QED BY <1>1, <1>2, <1>3, <1>4

\* Putting silent clients out is a good step.
LEMMA HeartSteps ==
    ASSUME RoomInv, NEW I \in SUBSET Slots, HeartTimeOut(I)
    PROVE  GoodStep
<1> DEFINE h == Leave(Hall, I \ Stray)
           f == [i \in Slots |-> IF i \in I \cap Stray
                                 THEN LoggedOut(h.player[i]) ELSE h.player[i]]
           g == [h EXCEPT !.player = f]
<1>1. Becomes(g)
  BY DEF HeartTimeOut, PutOut
<1>2. RoomOK(h) /\ Strays(h) \subseteq Stray
  BY LeaveOK, HallFields DEF RoomInv
<1>3. \A i \in I \cap Stray : h.player[i] = player[i] /\ player[i].tid = NoTable
  BY HallFields DEF Leave, Stray
<1> HIDE DEF h
<1>4. h \in Halls /\ h.player \in [Slots -> Objects]
  BY <1>2 DEF RoomOK, Halls
<1>5. \A i \in Slots : /\ f[i] \in Objects
                       /\ f[i].id = h.player[i].id /\ f[i].tid = h.player[i].tid
                       /\ \/ f[i] = h.player[i]
                          \/ f[i].tid = NoTable /\ f[i].status = "LOGOUT"
  <2> TAKE i \in Slots
  <2>1. CASE i \in I \cap Stray
    <3>1. f[i] = LoggedOut(h.player[i]) /\ h.player[i] \in Objects
      BY <1>4, <2>1
    <3>2. h.player[i].tid = NoTable
      BY <1>3, <2>1
    <3> HIDE DEF f
    <3> QED BY <3>1, <3>2 DEF LoggedOut, Objects, Statuses
  <2>2. CASE i \notin I \cap Stray
    BY <1>4, <2>2
  <2> QED BY <2>1, <2>2
<1>6. f \in [Slots -> Objects]
  BY <1>5
<1> HIDE DEF f
<1>7. /\ g \in Halls /\ g.player = f /\ g.seated = h.seated /\ g.count = h.count
      /\ g.locked = h.locked
  BY <1>4, <1>6 DEF Halls
<1> HIDE DEF g
<1>8. RoomOK(g) /\ Strays(g) \subseteq Strays(h)
  BY <1>2, <1>5, <1>7, StatusOK
<1> QED BY <1>1, <1>2, <1>8, BecomesGood

-----------------------------------------------------------------------------

\* An empty room satisfies the invariant.
LEMMA RoomInit == Init => RoomInv
<1> SUFFICES ASSUME Init PROVE RoomInv
  OBVIOUS
<1>1. Hall \in Halls
  BY FreshOK DEF Init, Hall, Halls
<1>2. /\ player = [i \in Slots |-> Fresh] /\ seated = [t \in Tables |-> {}]
      /\ count = [t \in Tables |-> 0] /\ locked = [t \in Tables |-> FALSE]
  BY DEF Init
<1>3. 0 <= NumPlayer /\ Cardinality({}) = 0 /\ NoUser \notin Humans
  BY RoomAssumption, FS_EmptySet
<1> QED BY <1>1, <1>2, <1>3, FreshOK, HallFields
        DEF RoomInv, RoomOK, Chairs, Counted, Named, InUse, Single, Apart, Held

\* Every step of the room is good.
LEMMA RoomNext == RoomInv /\ [Next]_vars => GoodStep
<1> SUFFICES ASSUME RoomInv, [Next]_vars PROVE GoodStep
  OBVIOUS
<1>1. CASE UNCHANGED vars
  BY <1>1, UnchangedGood DEF vars
<1>2. CASE Next
  BY <1>2, HumanSteps, RobotSteps, TableSteps, HeartSteps DEF Next
<1> QED BY <1>1, <1>2

\* The room's invariant holds in every reachable state.
LEMMA RoomAlways == Spec => []RoomInv
<1>1. RoomInv /\ [Next]_vars => RoomInv'
  BY RoomNext DEF GoodStep
<1> QED BY <1>1, RoomInit, PTL DEF Spec

\* An object is on a chair of the table it points to and of no other, the count
\* of the table is right, and no user has two chairs at a table (playerComming,
\* playerLeave, Player::init).
THEOREM ChairsAgreeHolds == Spec => []ChairsAgree
<1>1. RoomInv => ChairsAgree
  BY HallFields, FreshOK
     DEF RoomInv, RoomOK, Chairs, Counted, Named, InUse, ChairsAgree, IsInjective
<1> QED BY <1>1, RoomAlways, PTL

\* A human has one Player object, however many of his logins wait for
\* MoneyServer at once (getPlayerUID, doResponse).
THEOREM OneObjectHolds == Spec => []OneObject
<1>1. RoomInv => OneObject
  BY HallFields DEF RoomInv, RoomOK, Single, OneObject
<1> QED BY <1>1, RoomAlways, PTL

\* Two humans with one address are never at the same table (CheckIP and the
\* second choice of a table).
THEOREM AddressesApartHolds == Spec => []AddressesApart
<1>1. RoomInv => AddressesApart
  BY HallFields DEF RoomInv, RoomOK, Apart, AddressesApart
<1> QED BY <1>1, RoomAlways, PTL

\* A login fails for want of a table, or dereferences NULL, only when no table
\* is empty: a locked table always has two players.
THEOREM TurnedAwayWhenFullHolds == Spec => TurnedAwayWhenFull
<1>1. RoomInv /\ [Next]_vars =>
        [(Stray' \ Stray # {} \/ down' # down) => \A t \in Tables : count[t] > 0]_vars
  BY RoomNext DEF GoodStep
<1> QED BY <1>1, RoomAlways, PTL DEF Spec, TurnedAwayWhenFull
=============================================================================
