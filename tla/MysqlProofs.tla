---------------------------- MODULE MysqlProofs ----------------------------
(***************************************************************************)
(* The invariant of MysqlConnections, for any number of threads, of        *)
(* connections, queries and failures; in a section of its own at the end,  *)
(* that of NebCallbacks, whose events these connections store.             *)
(*                                                                         *)
(* What MysqlInv lacks to be inductive: whoever has sent a task that       *)
(* others wait for waits for it itself; the commit is the last task of its *)
(* user in each list; the shared counter of a commit is the number of      *)
(* connections that have not answered it; and a query that is neither      *)
(* stored nor reported is in a list, in an open transaction, or was in one *)
(* that the server has undone, behind a commit still to come.              *)
(***************************************************************************)
EXTENDS MysqlConnections, NebCallbacks, QueueLemmas, FiniteSetTheorems

(* A task sent by user u, and one that u waits for: a commit, or a query   *)
(* with a result.                                                          *)
Commits(t, u) == t.op = "commit" /\ t.id = u
Results(t, u) == t.op = "result" /\ t.id[1] = u
Queries(t, u) == t.op \in {"query", "result"} /\ t.id[1] = u
SentBy(t, u) == Commits(t, u) \/ Queries(t, u)
Answers(t, u) == Commits(t, u) \/ Results(t, u)

(* A task its user waits for is the last one the user has sent.            *)
InOrder(s) ==
    \A u \in Users : \A k, l \in 1 .. Len(s) :
        Answers(s[l], u) /\ SentBy(s[k], u) => k <= l

TasksOf(i) == ToSet(conn[i].tasks)

(* The connections that have not answered the commit of user u.            *)
Pending(u) == {i \in Conn : \E t \in TasksOf(i) : Commits(t, u)}

Committing == {"wait commit", "wait close"}

(* Places for all the connections that may be made. *)
Opening == {u \in Users : user[u] = "wait lock"}
Room == made + Count * Cardinality(Opening) <= MaxConns
Sized == \A u \in Users : Cardinality(owned[u]) <= Count

Queues ==
    /\ \A i \in Conn : InOrder(conn[i].tasks)
    /\ \A i \in Conn, u \in Users : \A t \in TasksOf(i) :
          /\ Commits(t, u) => i \in owned[u] /\ user[u] \in Committing /\ promise[u] = "unset"
          /\ Results(t, u) => user[u] = "wait result" /\ promise[u] = "unset"
    /\ \A i \in Conn : \A t \in TasksOf(i) : t.op = "finish" => conn[i].at = "finish"
    /\ \A i, j \in Conn, u \in Users : \A t \in TasksOf(i), x \in TasksOf(j) :
          Results(t, u) /\ Results(x, u) => i = j

(* The counter of a commit is the number of its answers to come. *)
Counted == \A u \in Users : ko[u] = Cardinality(Pending(u))

(* Query q is before connection i, in its transaction, or was in one that  *)
(* the server has undone and the next commit will tell.                    *)
Held(i, q) ==
    \/ \E t \in TasksOf(i) : t.op \in {"query", "result"} /\ t.id = q
    \/ q \in conn[i].txn
    \/ conn[i].cut /\ conn[i].need

(* Where query q of user u is, until the commit is through. *)
Known(u, q) ==
    \/ q \in stored \union refused \union undone
    \/ InError(u)
    \/ \E i \in owned[u] : Held(i, q) /\ (user[u] = "wait commit" => i \in Pending(u))

(* A user that has not been told of any loss. *)
Relies(u) == \/ user[u] \in {"idle", "wait commit"}
             \/ user[u] = "wait result" /\ promise[u] # "exception"

Tracked ==
    /\ \A i \in Conn : conn[i].txn # {} => conn[i].need
    /\ \A u \in Users : user[u] \in {"wait lock", "create", "update"} => base[u] = issued[u]
    /\ \A u \in Users : Relies(u) => \A n \in base[u] + 1 .. issued[u] : Known(u, <<u, n>>)

MysqlInd == MysqlTypeOK /\ Room /\ Sized /\ InUseRuns /\ Queues /\ Counted /\ Tracked

-----------------------------------------------------------------------------
(* The lists of tasks. *)

(* _push at the end of a list. *)
LEMMA PushTask ==
    ASSUME NEW s \in Seq(Tasks), NEW t \in Tasks, InOrder(s),
           \A u \in Users : \A x \in ToSet(s) : ~(Answers(x, u) /\ SentBy(t, u))
    PROVE  /\ Append(s, t) \in Seq(Tasks)
           /\ ToSet(Append(s, t)) = ToSet(s) \union {t}
           /\ InOrder(Append(s, t))
  <1>1. /\ Append(s, t) \in Seq(Tasks) /\ Len(Append(s, t)) = Len(s) + 1 /\ Len(s) \in Nat
        /\ \A i \in 1 .. Len(s) : Append(s, t)[i] = s[i]
        /\ Append(s, t)[Len(s) + 1] = t
    OBVIOUS
  <1>2. ToSet(Append(s, t)) = ToSet(s) \union {t}
    BY ToSetAppend
  <1>3. \A i \in 1 .. Len(s) : s[i] \in ToSet(s)
    BY ToSetMember
  <1>4. InOrder(Append(s, t))
    <2> SUFFICES ASSUME NEW u \in Users, NEW k \in 1 .. Len(s) + 1, NEW l \in 1 .. Len(s) + 1,
                        Answers(Append(s, t)[l], u), SentBy(Append(s, t)[k], u), l < k
                 PROVE  FALSE
      BY <1>1 DEF InOrder
    <2>1. l \in 1 .. Len(s)
      BY <1>1
    <2>2. CASE k \in 1 .. Len(s)
      <3>1. Append(s, t)[l] = s[l] /\ Append(s, t)[k] = s[k]
        BY <1>1, <2>1, <2>2
      <3> QED BY <1>1, <2>1, <2>2, <3>1 DEF InOrder
    <2>3. CASE k = Len(s) + 1
      <3>1. Append(s, t)[l] = s[l] /\ Append(s, t)[k] = t
        BY <1>1, <2>1, <2>3
      <3> QED BY <1>3, <2>1, <3>1
    <2> QED BY <1>1, <2>2, <2>3
  <1> QED BY <1>1, <1>2, <1>4

(* The thread of a connection takes the first task: if its user waits for  *)
(* it, nothing of this user is left in the list.                           *)
LEMMA TakeTask ==
    ASSUME NEW s \in Seq(Tasks), s # <<>>, InOrder(s)
    PROVE  /\ Tail(s) \in Seq(Tasks) /\ Head(s) \in Tasks
           /\ Head(s) \in ToSet(s)
           /\ ToSet(s) = {Head(s)} \union ToSet(Tail(s))
           /\ InOrder(Tail(s))
           /\ \A u \in Users : Answers(Head(s), u) =>
                \A x \in ToSet(Tail(s)) : ~SentBy(x, u)
  <1>1. /\ Tail(s) \in Seq(Tasks) /\ Len(Tail(s)) = Len(s) - 1 /\ Len(s) \in Nat \ {0}
        /\ \A i \in 1 .. Len(s) - 1 : Tail(s)[i] = s[i + 1]
        /\ Head(s) = s[1] /\ s[1] \in Tasks
    OBVIOUS
  <1>2. \A x : x \in ToSet(s) <=> \E i \in 1 .. Len(s) : x = s[i]
    BY ToSetMember
  <1>3. \A x : x \in ToSet(Tail(s)) <=> \E i \in 1 .. Len(s) - 1 : x = s[i + 1]
    <2>1. \A x : x \in ToSet(Tail(s)) <=> \E i \in 1 .. Len(Tail(s)) : x = Tail(s)[i]
      BY <1>1, ToSetMember
    <2> QED BY <1>1, <2>1
  <1>4. ToSet(s) = {Head(s)} \union ToSet(Tail(s))
    <2>1. \A i \in 1 .. Len(s) : i = 1 \/ (i - 1 \in 1 .. Len(s) - 1 /\ i = (i - 1) + 1)
      BY <1>1
    <2>2. \A i \in 1 .. Len(s) - 1 : i + 1 \in 1 .. Len(s)
      BY <1>1
    <2>3. 1 \in 1 .. Len(s)
      BY <1>1
    <2>4. ASSUME NEW x, x \in ToSet(s) PROVE x = Head(s) \/ x \in ToSet(Tail(s))
      <3>1. PICK i \in 1 .. Len(s) : x = s[i]
        BY <1>2, <2>4
      <3>2. CASE i = 1
        BY <1>1, <3>1, <3>2
      <3>3. CASE i # 1
        <4>1. i - 1 \in 1 .. Len(s) - 1 /\ x = s[(i - 1) + 1]
          BY <2>1, <3>1, <3>3
        <4> QED BY <1>3, <4>1
      <3> QED BY <3>2, <3>3
    <2>5. ASSUME NEW x \in ToSet(Tail(s)) PROVE x \in ToSet(s)
      <3>1. PICK i \in 1 .. Len(s) - 1 : x = s[i + 1]
        BY <1>3
      <3> QED BY <1>2, <2>2, <3>1
    <2>6. Head(s) \in ToSet(s)
      BY <1>1, <1>2, <2>3
    <2> QED BY <2>4, <2>5, <2>6
  <1>5. InOrder(Tail(s))
    <2> SUFFICES ASSUME NEW u \in Users, NEW k \in 1 .. Len(s) - 1, NEW l \in 1 .. Len(s) - 1,
                        Answers(s[l + 1], u), SentBy(s[k + 1], u)
                 PROVE  k <= l
      BY <1>1 DEF InOrder
    <2>1. k + 1 \in 1 .. Len(s) /\ l + 1 \in 1 .. Len(s)
      BY <1>1
    <2>2. k + 1 <= l + 1
      BY <2>1 DEF InOrder
    <2> QED BY <2>2
  <1>6. ASSUME NEW u \in Users, Answers(Head(s), u), NEW x \in ToSet(Tail(s)), SentBy(x, u)
        PROVE  FALSE
    <2>1. PICK i \in 1 .. Len(s) - 1 : x = s[i + 1]
      BY <1>3
    <2>2. i + 1 \in 1 .. Len(s) /\ 1 \in 1 .. Len(s) /\ ~(i + 1 <= 1)
      BY <1>1
    <2> QED BY <1>1, <1>6, <2>1, <2>2 DEF InOrder
  <1> QED BY <1>1, <1>2, <1>4, <1>5, <1>6

-----------------------------------------------------------------------------
(* The types. *)

(* The constants are numbers, and so is what they bound. *)
LEMMA Bounds ==
    ASSUME MysqlTypeOK
    PROVE  made \in Nat /\ Count \in Nat /\ MaxConns \in Nat /\ made <= MaxConns
  <1>1. made \in 0 .. MaxConns
    BY DEF MysqlTypeOK
  <1> QED BY <1>1, CountAssumption, BoundsAssumption

(* The first connections fill the places of the user that gets them. *)
LEMMA GetCount ==
    ASSUME MysqlTypeOK, NEW reused \in SUBSET Reusable, Cardinality(reused) <= Count,
           NEW fresh, fresh = made + 1 .. made + (Count - Cardinality(reused))
    PROVE  /\ IsFiniteSet(reused \union fresh) /\ Cardinality(reused \union fresh) = Count
           /\ Cardinality(fresh) \in 0 .. Count
           /\ fresh = made + 1 .. made + Cardinality(fresh)
           /\ reused \subseteq 1 .. made
  <1>1. made \in Nat /\ Count \in Nat /\ reused \subseteq 1 .. made
    <2>1. made \in 0 .. MaxConns /\ listed \subseteq 1 .. made
      BY DEF MysqlTypeOK
    <2>2. reused \subseteq listed
      BY DEF Reusable
    <2>3. made \in Nat /\ Count \in Nat
      BY <2>1, CountAssumption, BoundsAssumption
    <2> QED BY <2>1, <2>2, <2>3
  <1>2. IsFiniteSet(reused) /\ Cardinality(reused) \in Nat
    <2>1. IsFiniteSet(1 .. made)
      BY <1>1, FS_Interval
    <2> QED BY <1>1, <2>1, FS_Subset, FS_CardinalityType
  <1>3. PICK r \in Nat : r = Cardinality(reused)
    BY <1>2
  <1>4. IsFiniteSet(fresh) /\ Cardinality(fresh) = Count - r
    <2>1. PICK a \in Int, b \in Int : a = made + 1 /\ b = made + (Count - r)
      BY <1>1, <1>3
    <2>2. IsFiniteSet(a .. b) /\ Cardinality(a .. b) = IF a > b THEN 0 ELSE b - a + 1
      BY FS_Interval
    <2>3. fresh = a .. b
      BY <1>3, <2>1
    <2>4. r <= Count /\ Count \in Nat /\ made \in Nat
      BY <1>1, <1>3
    <2>5. (IF a > b THEN 0 ELSE b - a + 1) = Count - r
      BY <2>1, <2>4
    <2> QED BY <2>2, <2>3, <2>5
  <1>5. reused \intersect fresh = {}
    BY <1>1
  <1>6. Cardinality(reused \union fresh) = Cardinality(reused) + Cardinality(fresh)
                                             - Cardinality(reused \intersect fresh)
    BY <1>2, <1>4, FS_Union
  <1>7. Cardinality(reused \intersect fresh) = 0
    BY <1>5, FS_EmptySet
  <1>8. Cardinality(reused \union fresh) = Count
    BY <1>1, <1>3, <1>4, <1>6, <1>7
  <1>9. IsFiniteSet(reused \union fresh)
    BY <1>2, <1>4, FS_Union
  <1>10. Count - r \in 0 .. Count
    BY <1>1, <1>3
  <1> QED BY <1>1, <1>3, <1>4, <1>8, <1>9, <1>10

(* The places that are reserved, as a number. *)
LEMMA RoomNumbers ==
    ASSUME NEW m \in Nat, NEW c \in Nat, NEW b \in Nat, NEW k \in Nat, NEW o \in Nat,
           k = o - 1, m + c * o <= b
    PROVE  m + c <= b /\ m + c + c * k <= b /\ c * k \in Nat
  <1>1. o = k + 1
    OBVIOUS
  <1>2. c * k \in Nat /\ c * (k + 1) = c * k + c
    OBVIOUS
  <1>3. m + c * (k + 1) <= b
    BY <1>1
  <1>4. PICK p \in Nat : p = c * k
    BY <1>2
  <1>5. m + (p + c) <= b
    BY <1>2, <1>3, <1>4
  <1>6. m + c <= b /\ m + c + p <= b
    BY <1>5
  <1> QED BY <1>2, <1>4, <1>6

(* There is a place for every connection that is made. *)
LEMMA RoomForCount ==
    ASSUME MysqlTypeOK, Room, NEW u \in Users, user[u] = "wait lock"
    PROVE  /\ made + Count <= MaxConns
           /\ made + Count + Count * Cardinality(Opening \ {u}) <= MaxConns
           /\ Cardinality(Opening \ {u}) \in Nat
           /\ Count * Cardinality(Opening \ {u}) \in Nat
  <1>1. u \in Opening /\ Opening \subseteq Users
    BY DEF Opening
  <1>2. IsFiniteSet(Opening) /\ Cardinality(Opening) \in Nat
    BY <1>1, UsersAssumption, FS_Subset, FS_CardinalityType
  <1>3. IsFiniteSet(Opening \ {u}) /\ Cardinality(Opening \ {u}) = Cardinality(Opening) - 1
    BY <1>1, <1>2, FS_RemoveElement
  <1>4. Cardinality(Opening \ {u}) \in Nat
    BY <1>3, FS_CardinalityType
  <1> QED BY <1>2, <1>3, <1>4, Bounds, RoomNumbers DEF Room

(* Connections are made within the bound. *)
LEMMA RoomStep ==
    ASSUME MysqlTypeOK, Room, MysqlNext
    PROVE  Room'
  <1>1. ASSUME made' = made, Opening' = Opening PROVE Room'
    BY <1>1 DEF Room
  <1>2. ASSUME NEW u \in Users, NEW x, x # "wait lock", user[u] # "wait lock",
               user' = [user EXCEPT ![u] = x]
        PROVE  Opening' = Opening
    BY <1>2 DEF Opening, MysqlTypeOK
  <1>3. ASSUME NEW u \in Users, Open(u) PROVE Room'
    <2>1. made' = made /\ user' = [user EXCEPT ![u] = "wait lock"]
      BY <1>3 DEF Open, Go
    <2>2. Opening' = {v \in Users : v = u \/ user[v] = "wait lock"}
      BY <2>1 DEF Opening, MysqlTypeOK
    <2> QED BY <1>3, <2>1, <2>2 DEF Open, Room
  <1>4. ASSUME NEW u \in Users, GetConnections(u) PROVE Room'
    <2>1. PICK reused \in SUBSET Reusable :
             /\ Cardinality(reused) <= Count
             /\ made' = made + Cardinality(made + 1 .. made + (Count - Cardinality(reused)))
             /\ \E x : x # "wait lock" /\ user' = [user EXCEPT ![u] = x]
      BY <1>4 DEF GetConnections, FirstReusable, Go
    <2>2. PICK fresh : fresh = made + 1 .. made + (Count - Cardinality(reused))
      OBVIOUS
    <2>3. PICK f \in Nat : f = Cardinality(fresh) /\ f <= Count
      <3>1. Cardinality(fresh) \in 0 .. Count
        BY <2>1, <2>2, GetCount
      <3> QED BY <3>1, CountAssumption
    <2>4. user[u] = "wait lock" /\ made' = made + f
      BY <1>4, <2>1, <2>2, <2>3 DEF GetConnections
    <2>5. Opening' = Opening \ {u}
      BY <2>1 DEF Opening, MysqlTypeOK
    <2>6. PICK p \in Nat : p = Count * Cardinality(Opening \ {u})
      BY <2>4, RoomForCount
    <2>7. made + Count + p <= MaxConns
      BY <2>4, <2>6, RoomForCount
    <2>8. made \in Nat /\ Count \in Nat /\ MaxConns \in Nat
      BY Bounds
    <2>9. (made + f) + p <= MaxConns
      BY <2>3, <2>7, <2>8
    <2> QED BY <2>4, <2>5, <2>6, <2>9 DEF Room
  <1>5. ASSUME NEW u \in Users,
               Created(u) \/ ConnectionsUpdated(u) \/ HasResult(u) \/ Committed(u) \/ Release(u)
                 \/ Commit(u) \/ RunQueryAndGetResult(u) \/ CheckErrors(u) \/ Close(u)
        PROVE  Room'
    <2>1. made' = made /\ user[u] # "wait lock"
      BY <1>5 DEF Created, ConnectionsUpdated, HasResult, Committed, Release, Commit,
                  RunQueryAndGetResult, CheckErrors, Close
    <2>2. PICK x : x # "wait lock" /\ user' = [user EXCEPT ![u] = x]
      BY <1>5 DEF Created, ConnectionsUpdated, HasResult, Committed, Release, Commit,
                  RunQueryAndGetResult, CheckErrors, Close, Go
    <2> QED BY <1>1, <1>2, <2>1, <2>2
  <1>6. ASSUME user' = user, made' = made PROVE Room'
    BY <1>1, <1>6 DEF Opening
  <1>7. ASSUME NEW u \in Users, UpdateConnections(u) \/ RunQuery(u) PROVE Room'
    BY <1>6, <1>7 DEF UpdateConnections, RunQuery
  <1>8. ASSUME NEW i \in Conn, WorkerStep(i) \/ Failure(i) PROVE Room'
    BY <1>6, <1>8 DEF WorkerStep, Failure, Connect, QueryDone, QueryLost, RunCommit, Finish,
                      QueryRefused, DeadLock, StoreResultFails
  <1>9. CASE ServerStops \/ ServerStarts
    BY <1>6, <1>9 DEF ServerStops, ServerStarts
  <1> QED BY <1>3, <1>4, <1>5, <1>7, <1>8, <1>9 DEF MysqlNext, UserStep, UserCall

-----------------------------------------------------------------------------
(* The types. *)

(* A connection that is made. *)
LEMMA NewConnType ==
    ASSUME NEW at \in {"none", "connect", "run", "finish", "ended"}
    PROVE  NewConn(at) \in Connection
  <1>1. <<>> \in Seq(Tasks) /\ {} \in SUBSET Query
    OBVIOUS
  <1> QED BY <1>1 DEF NewConn, Connection

(* get_connections. *)
LEMMA GetTypes ==
    ASSUME MysqlTypeOK, Room, NEW u \in Users, GetConnections(u)
    PROVE  MysqlTypeOK'
  <1>1. PICK reused, fresh :
           /\ reused \in SUBSET Reusable
           /\ fresh = made + 1 .. made + (Count - Cardinality(reused))
           /\ Cardinality(reused) <= Count
           /\ owned' = [owned EXCEPT ![u] = reused \union fresh]
           /\ conn' = [i \in Conn |-> IF i \in fresh THEN NewConn("connect")
                                      ELSE conn[i]]
           /\ made' = made + Cardinality(fresh) /\ listed' = listed \union fresh
           /\ \/ user' = [user EXCEPT ![u] = "idle"] /\ lock' = Nobody
              \/ user' = [user EXCEPT ![u] = "create"] /\ lock' = u
    <2>1. PICK reused \in SUBSET Reusable :
           LET fresh == made + 1 .. made + (Count - Cardinality(reused))
           IN  /\ Cardinality(reused) <= Count
               /\ owned' = [owned EXCEPT ![u] = reused \union fresh]
               /\ conn' = [i \in Conn |-> IF i \in fresh THEN NewConn("connect")
                                          ELSE conn[i]]
               /\ made' = made + Cardinality(fresh) /\ listed' = listed \union fresh
               /\ \/ user' = [user EXCEPT ![u] = "idle"] /\ lock' = Nobody
                  \/ user' = [user EXCEPT ![u] = "create"] /\ lock' = u
      BY DEF GetConnections, FirstReusable, Go
    <2> QED BY <2>1
  <1>2. /\ UNCHANGED <<ko, promise, server, alive, issued, base, stored, refused, undone, failures>>
        /\ user[u] = "wait lock"
    BY DEF GetConnections
  <1>3. made \in Nat /\ Count \in Nat /\ MaxConns \in Nat /\ made + Count <= MaxConns
    BY <1>2, Bounds, RoomForCount
  <1>4. PICK f \in Nat : /\ f = Cardinality(fresh) /\ f <= Count
                         /\ fresh = made + 1 .. made + f /\ reused \subseteq 1 .. made
    <2>1. /\ Cardinality(fresh) \in 0 .. Count /\ reused \subseteq 1 .. made
          /\ fresh = made + 1 .. made + Cardinality(fresh)
      BY <1>1, GetCount
    <2> QED BY <1>3, <2>1
  <1>5. made' = made + f /\ made' \in 0 .. MaxConns /\ 1 .. made \subseteq 1 .. made'
        /\ fresh \subseteq 1 .. made'
    <2>1. made' = made + f
      BY <1>1, <1>4
    <2>2. made + f \in 0 .. MaxConns /\ 1 .. made \subseteq 1 .. made + f
          /\ made + 1 .. made + f \subseteq 1 .. made + f
      BY <1>3, <1>4
    <2> QED BY <1>4, <2>1, <2>2
  <1>6. owned' \in [Users -> SUBSET (1 .. made')] /\ listed' \subseteq 1 .. made'
    <2>1. reused \union fresh \subseteq 1 .. made'
      BY <1>4, <1>5
    <2>2. owned \in [Users -> SUBSET (1 .. made)] /\ listed \subseteq 1 .. made
      BY DEF MysqlTypeOK
    <2>3. owned \in [Users -> SUBSET (1 .. made')]
      BY <1>5, <2>2
    <2> QED BY <1>1, <1>5, <2>1, <2>2, <2>3
  <1>7. conn' \in [Conn -> Connection]
    <2>1. conn \in [Conn -> Connection]
      BY DEF MysqlTypeOK
    <2>2. NewConn("connect") \in Connection
      BY NewConnType
    <2> QED BY <1>1, <2>1, <2>2
  <1>8. user' \in [Users -> {"none", "wait lock", "create", "update", "idle", "wait commit",
                             "wait result", "closing", "wait close", "release"}]
        /\ lock' \in Users \union {Nobody}
    BY <1>1 DEF MysqlTypeOK
  <1> QED BY <1>2, <1>5, <1>6, <1>7, <1>8 DEF MysqlTypeOK

(* The steps of a user that leave the connections alone. *)
LEMMA UserTypes ==
    ASSUME MysqlTypeOK, NEW u \in Users,
           Open(u) \/ Created(u) \/ ConnectionsUpdated(u) \/ HasResult(u) \/ Committed(u)
             \/ Release(u) \/ CheckErrors(u) \/ Close(u)
    PROVE  MysqlTypeOK'
  <1>1. /\ UNCHANGED <<ko, listed, conn, made, server, alive, issued, stored, refused, undone,
                       failures>>
        /\ owned' \in {owned, [owned EXCEPT ![u] = {}]}
        /\ base' \in {base, [base EXCEPT ![u] = issued[u]]}
        /\ promise' \in {promise, [promise EXCEPT ![u] = "none"]}
        /\ lock' \in {lock, Nobody}
    BY DEF Open, Created, ConnectionsUpdated, HasResult, Committed, Release, CheckErrors, Close
  <1>2. PICK x \in {"none", "wait lock", "update", "idle", "closing", "release"} :
           user' = [user EXCEPT ![u] = x]
    BY DEF Open, Created, ConnectionsUpdated, HasResult, Committed, Release, CheckErrors, Close,
           Go
  <1>3. user' \in [Users -> {"none", "wait lock", "create", "update", "idle", "wait commit",
                             "wait result", "closing", "wait close", "release"}]
    BY <1>2 DEF MysqlTypeOK
  <1>4. owned' \in [Users -> SUBSET (1 .. made')]
    <2>1. owned \in [Users -> SUBSET (1 .. made)] /\ {} \in SUBSET (1 .. made) /\ made' = made
      BY <1>1 DEF MysqlTypeOK
    <2> QED BY <1>1, <2>1
  <1>5. base' \in [Users -> 0 .. MaxQueries] /\ lock' \in Users \union {Nobody}
        /\ promise' \in [Users -> {"none", "unset", "value", "exception"}]
    BY <1>1 DEF MysqlTypeOK
  <1> QED BY <1>1, <1>3, <1>4, <1>5 DEF MysqlTypeOK

(* The tasks users send. *)
LEMMA SendTypes ==
    ASSUME MysqlTypeOK, Sized, NEW u \in Users,
           RunQuery(u) \/ RunQueryAndGetResult(u) \/ Commit(u)
    PROVE  MysqlTypeOK'
  <1>1. UNCHANGED <<owned, listed, lock, made, server, alive, base, stored, refused, undone,
                    failures>>
    BY DEF RunQuery, RunQueryAndGetResult, Commit
  <1>2. conn \in [Conn -> Connection] /\ user \in [Users -> {"none", "wait lock", "create",
          "update", "idle", "wait commit", "wait result", "closing", "wait close", "release"}]
        /\ promise \in [Users -> {"none", "unset", "value", "exception"}]
        /\ ko \in [Users -> 0 .. Count] /\ issued \in [Users -> 0 .. MaxQueries]
    BY DEF MysqlTypeOK
  <1>3. ASSUME NEW i \in Conn, NEW t \in Tasks PROVE [conn EXCEPT ![i].tasks = Append(@, t)]
                                                    \in [Conn -> Connection]
    <2>1. conn[i] \in Connection /\ Append(conn[i].tasks, t) \in Seq(Tasks)
      <3>1. conn[i] \in Connection
        BY <1>2
      <3>2. conn[i].tasks \in Seq(Tasks)
        BY <3>1 DEF Connection
      <3> QED BY <3>1, <3>2
    <2>2. [conn[i] EXCEPT !.tasks = Append(@, t)] \in Connection
      BY <2>1 DEF Connection
    <2> QED BY <1>2, <2>2
  <1>4. CASE RunQuery(u) \/ RunQueryAndGetResult(u)
    <2>1. issued[u] + 1 \in 1 .. MaxQueries /\ issued' = [issued EXCEPT ![u] = issued[u] + 1]
      <3>1. issued[u] < MaxQueries /\ issued' = [issued EXCEPT ![u] = issued[u] + 1]
        BY <1>4 DEF RunQuery, RunQueryAndGetResult
      <3>2. issued[u] \in Nat
        <4>1. issued \in [Users -> 0 .. MaxQueries]
          BY <1>2
        <4> QED BY <4>1
      <3> QED BY <3>1, <3>2, BoundsAssumption
    <2>2. issued' \in [Users -> 0 .. MaxQueries]
      <3>1. 1 .. MaxQueries \subseteq 0 .. MaxQueries
        OBVIOUS
      <3> QED BY <1>2, <2>1, <3>1
    <2>3. \A f \in BOOLEAN, o \in {"query", "result"} :
             [op |-> o, id |-> <<u, issued[u] + 1>>, fatal |-> f] \in Tasks
      BY <2>1 DEF Tasks, Query
    <2>4. conn' \in [Conn -> Connection]
      <3>1. owned[u] \subseteq Conn
        <4>1. owned[u] \subseteq 1 .. made /\ made \in 0 .. MaxConns
          BY DEF MysqlTypeOK
        <4> QED BY <4>1, BoundsAssumption DEF Conn
      <3>2. PICK i \in Conn, f \in BOOLEAN, o \in {"query", "result"} :
               conn' = [conn EXCEPT ![i].tasks =
                          Append(@, [op |-> o, id |-> <<u, issued[u] + 1>>, fatal |-> f])]
        BY <1>4, <3>1 DEF RunQuery, RunQueryAndGetResult, Push
      <3> QED BY <1>3, <2>3, <3>2
    <2>5. user' \in {user, [user EXCEPT ![u] = "wait result"]} /\ ko' = ko
          /\ promise' \in {promise, [promise EXCEPT ![u] = "unset"]}
      BY <1>4 DEF RunQuery, RunQueryAndGetResult, Go
    <2>6. user' \in [Users -> {"none", "wait lock", "create", "update", "idle", "wait commit",
                               "wait result", "closing", "wait close", "release"}]
          /\ promise' \in [Users -> {"none", "unset", "value", "exception"}]
      BY <1>2, <2>5
    <2> QED BY <1>1, <2>2, <2>4, <2>5, <2>6 DEF MysqlTypeOK
  <1>5. CASE Commit(u)
    <2>1. /\ user' = [user EXCEPT ![u] = IF user[u] = "idle" THEN "wait commit" ELSE "wait close"]
          /\ promise' = [promise EXCEPT ![u] = "unset"] /\ issued' = issued
          /\ ko' = [ko EXCEPT ![u] = Cardinality(owned[u])]
          /\ conn' = [i \in Conn |-> IF i \in owned[u]
                        THEN [conn[i] EXCEPT !.tasks = Append(@, [op |-> "commit", id |-> u])]
                        ELSE conn[i]]
      BY <1>5 DEF Commit, Go
    <2>2. Cardinality(owned[u]) \in 0 .. Count
      <3>1. owned[u] \in SUBSET (1 .. made) /\ made \in Nat
        BY Bounds DEF MysqlTypeOK
      <3>2. IsFiniteSet(1 .. made)
        BY <3>1, FS_Interval
      <3>3. Cardinality(owned[u]) \in Nat
        BY <3>1, <3>2, FS_Subset, FS_CardinalityType
      <3> QED BY <3>3, CountAssumption DEF Sized
    <2>3. conn' \in [Conn -> Connection]
      <3>1. [op |-> "commit", id |-> u] \in Tasks
        BY DEF Tasks
      <3>2. PICK t \in Tasks : t = [op |-> "commit", id |-> u]
        BY <3>1
      <3>3. \A i \in Conn : [conn[i] EXCEPT !.tasks = Append(@, t)] \in Connection
        <4> SUFFICES ASSUME NEW i \in Conn
                     PROVE  [conn[i] EXCEPT !.tasks = Append(@, t)] \in Connection
          OBVIOUS
        <4>1. conn[i] \in Connection
          BY <1>2
        <4>2. conn[i].tasks \in Seq(Tasks)
          BY <4>1 DEF Connection
        <4>3. Append(conn[i].tasks, t) \in Seq(Tasks)
          BY <4>2
        <4> QED BY <4>1, <4>3 DEF Connection
      <3> QED BY <1>2, <2>1, <3>2, <3>3
    <2>4. user' \in [Users -> {"none", "wait lock", "create", "update", "idle", "wait commit",
                               "wait result", "closing", "wait close", "release"}]
      BY <1>2, <2>1
    <2>5. /\ promise' \in [Users -> {"none", "unset", "value", "exception"}]
          /\ ko' \in [Users -> 0 .. Count]
      BY <1>2, <2>1, <2>2
    <2> QED BY <1>1, <1>2, <2>1, <2>3, <2>4, <2>5 DEF MysqlTypeOK
  <1> QED BY <1>4, <1>5

(* A task that is done, whatever else changes in the connection. *)
LEMMA DoneFields ==
    ASSUME MysqlTypeOK, NEW i \in Conn, NEW ops, Working(i, ops), NEW c \in Connection,
           c.tasks = conn[i].tasks, Done(i, c)
    PROVE  /\ conn' \in [Conn -> Connection]
           /\ conn'[i].tasks = Tail(conn[i].tasks)
           /\ conn'[i].at = c.at /\ conn'[i].cut = c.cut /\ conn'[i].need = c.need
           /\ conn'[i].txn = c.txn /\ conn'[i].error = c.error
           /\ \A j \in Conn : j # i => conn'[j] = conn[j]
  <1>1. conn \in [Conn -> Connection] /\ conn[i] \in Connection
    BY DEF MysqlTypeOK
  <1>2. conn[i].tasks \in Seq(Tasks) /\ conn[i].tasks # <<>>
    BY <1>1 DEF Connection, Working
  <1>3. Tail(conn[i].tasks) \in Seq(Tasks)
    BY <1>2
  <1>4. [c EXCEPT !.tasks = Tail(@)] \in Connection
    BY <1>3 DEF Connection
  <1>5. conn' = [conn EXCEPT ![i] = [c EXCEPT !.tasks = Tail(@)]]
    BY DEF Done
  <1>6. conn' \in [Conn -> Connection]
    BY <1>1, <1>4, <1>5
  <1>7. conn'[i] = [c EXCEPT !.tasks = Tail(@)] /\ \A j \in Conn : j # i => conn'[j] = conn[j]
    BY <1>1, <1>5
  <1>8. /\ [c EXCEPT !.tasks = Tail(@)].tasks = Tail(c.tasks)
        /\ [c EXCEPT !.tasks = Tail(@)].at = c.at
        /\ [c EXCEPT !.tasks = Tail(@)].cut = c.cut
        /\ [c EXCEPT !.tasks = Tail(@)].need = c.need
        /\ [c EXCEPT !.tasks = Tail(@)].txn = c.txn
        /\ [c EXCEPT !.tasks = Tail(@)].error = c.error
    BY DEF Connection
  <1> QED BY <1>6, <1>7, <1>8

(* The task of a connection that works, and what its fields are. *)
LEMMA TaskType ==
    ASSUME MysqlTypeOK, NEW i \in Conn, NEW ops, Working(i, ops)
    PROVE  /\ conn[i] \in Connection /\ conn[i].tasks \in Seq(Tasks) /\ conn[i].tasks # <<>>
           /\ conn[i].txn \in SUBSET Query /\ conn[i].error \in BOOLEAN
           /\ conn[i].need \in BOOLEAN /\ conn[i].cut \in BOOLEAN
           /\ Task(i) \in Tasks /\ Task(i).op \in ops /\ conn[i].at \in {"run", "finish"}
  <1>1. conn[i] \in Connection
    BY DEF MysqlTypeOK
  <1>2. conn[i].tasks \in Seq(Tasks) /\ conn[i].tasks # <<>>
    BY <1>1 DEF Connection, Working
  <1>3. Head(conn[i].tasks) \in Tasks
    BY <1>2
  <1> QED BY <1>1, <1>2, <1>3 DEF Connection, Working, Task

(* A query, or the commit of a user. *)
LEMMA TaskId ==
    ASSUME NEW t \in Tasks
    PROVE  /\ t.op \in {"query", "result"} => t.id \in Query /\ t.id[1] \in Users
           /\ t.op = "commit" => t.id \in Users
  BY DEF Tasks, Query

(* What _query and the other tasks of a query do to their connection. *)
LEMMA QueryDoneFields ==
    ASSUME MysqlTypeOK, NEW i \in Conn, QueryDone(i)
    PROVE  /\ conn' \in [Conn -> Connection]
           /\ conn'[i].tasks = Tail(conn[i].tasks) /\ conn'[i].at = conn[i].at
           /\ conn'[i].cut = conn[i].cut /\ conn'[i].need = TRUE
           /\ conn'[i].txn = conn[i].txn \union {Task(i).id} /\ conn'[i].error = conn[i].error
           /\ \A j \in Conn : j # i => conn'[j] = conn[j]
           /\ Working(i, {"query", "result"}) /\ Task(i).id \in Query
  <1>1. Working(i, {"query", "result"})
        /\ Done(i, [conn[i] EXCEPT !.need = TRUE, !.txn = @ \union {Task(i).id}])
    BY DEF QueryDone
  <1>2. /\ conn[i] \in Connection /\ conn[i].txn \in SUBSET Query /\ Task(i).id \in Query
    BY <1>1, TaskType, TaskId
  <1>3. PICK c : c = [conn[i] EXCEPT !.need = TRUE, !.txn = @ \union {Task(i).id}]
    OBVIOUS
  <1>4. PICK q \in SUBSET Query : q = conn[i].txn \union {Task(i).id}
    BY <1>2
  <1>5. [conn[i] EXCEPT !.need = TRUE, !.txn = q] \in Connection
    BY <1>2 DEF Connection
  <1>6. /\ c.tasks = conn[i].tasks /\ c.at = conn[i].at /\ c.cut = conn[i].cut
        /\ c.need = TRUE /\ c.txn = conn[i].txn \union {Task(i).id} /\ c.error = conn[i].error
        /\ c \in Connection
    BY <1>2, <1>3, <1>4, <1>5 DEF Connection
  <1>7. Done(i, c)
    BY <1>1, <1>3
  <1> QED BY <1>1, <1>2, <1>6, <1>7, DoneFields

(* ...when the server refuses the query or has closed the session... *)
LEMMA QueryFailedFields ==
    ASSUME MysqlTypeOK, NEW i \in Conn, QueryRefused(i) \/ QueryLost(i)
    PROVE  /\ conn' \in [Conn -> Connection]
           /\ conn'[i].tasks = Tail(conn[i].tasks) /\ conn'[i].at = conn[i].at
           /\ conn'[i].cut = conn[i].cut /\ conn'[i].need = conn[i].need
           /\ conn[i].error => conn'[i].error
           /\ \A j \in Conn : j # i => conn'[j] = conn[j]
           /\ Working(i, {"query", "result"}) /\ Task(i).id \in Query
           /\ \/ QueryLost(i) /\ conn'[i].error /\ conn'[i].txn = conn[i].txn
              \/ /\ QueryRefused(i)
                 /\ \/ Task(i).op = "query" /\ conn'[i].error
                    \/ Task(i).op = "query" /\ Task(i).id \in refused'
                    \/ Task(i).op = "result"
                 /\ \/ conn'[i].txn = conn[i].txn /\ stored' = stored
                    \/ conn'[i].txn = {} /\ stored' = stored \union conn[i].txn
  <1>1. Working(i, {"query", "result"})
    BY DEF QueryRefused, QueryLost
  <1>2. /\ conn[i] \in Connection /\ conn[i].txn \in SUBSET Query /\ Task(i).id \in Query
        /\ conn[i].error \in BOOLEAN /\ Task(i) \in Tasks /\ Task(i).op \in {"query", "result"}
    BY <1>1, TaskType, TaskId
  <1>3. PICK e \in BOOLEAN, x \in SUBSET Query :
           /\ Done(i, [conn[i] EXCEPT !.error = e, !.txn = x]) /\ (conn[i].error => e)
           /\ \/ QueryLost(i) /\ e /\ x = conn[i].txn
              \/ /\ QueryRefused(i)
                 /\ \/ Task(i).op = "query" /\ e
                    \/ Task(i).op = "query" /\ Task(i).id \in refused'
                    \/ Task(i).op = "result"
                 /\ \/ x = conn[i].txn /\ stored' = stored
                    \/ x = {} /\ stored' = stored \union conn[i].txn
    <2>1. CASE QueryLost(i)
      <3>1. Done(i, [conn[i] EXCEPT !.error = TRUE])
        BY <2>1 DEF QueryLost
      <3>2. [conn[i] EXCEPT !.error = TRUE] = [conn[i] EXCEPT !.error = TRUE, !.txn = conn[i].txn]
        BY <1>2 DEF Connection
      <3> QED BY <1>2, <2>1, <3>1, <3>2
    <2>2. CASE QueryRefused(i)
      <3>1. PICK commits \in BOOLEAN :
               /\ Done(i, [conn[i] EXCEPT !.error = @ \/ (Task(i).op = "query" /\ Task(i).fatal),
                                          !.txn = IF commits THEN {} ELSE @])
               /\ stored' = IF commits THEN stored \union conn[i].txn ELSE stored
               /\ refused' = IF Task(i).op = "query" /\ ~Task(i).fatal
                             THEN refused \union {Task(i).id} ELSE refused
        BY <2>2 DEF QueryRefused
      <3>2. PICK e \in BOOLEAN : e = (conn[i].error \/ (Task(i).op = "query" /\ Task(i).fatal))
        OBVIOUS
      <3>3. PICK x \in SUBSET Query : x = IF commits THEN {} ELSE conn[i].txn
        BY <1>2
      <3>4. Done(i, [conn[i] EXCEPT !.error = e, !.txn = x])
        BY <3>1, <3>2, <3>3
      <3>5. \/ Task(i).op = "query" /\ e
            \/ Task(i).op = "query" /\ Task(i).id \in refused'
            \/ Task(i).op = "result"
        BY <1>2, <3>1, <3>2
      <3>6. \/ x = conn[i].txn /\ stored' = stored
            \/ x = {} /\ stored' = stored \union conn[i].txn
        BY <3>1, <3>3
      <3> QED BY <2>2, <3>2, <3>4, <3>5, <3>6
    <2> QED BY <2>1, <2>2
  <1>4. PICK c : c = [conn[i] EXCEPT !.error = e, !.txn = x]
    OBVIOUS
  <1>5. /\ c.tasks = conn[i].tasks /\ c.at = conn[i].at /\ c.cut = conn[i].cut
        /\ c.need = conn[i].need /\ c.txn = x /\ c.error = e /\ c \in Connection
    BY <1>2, <1>4 DEF Connection
  <1>6. Done(i, c)
    BY <1>3, <1>4
  <1>7. /\ conn' \in [Conn -> Connection]
        /\ conn'[i].tasks = Tail(conn[i].tasks) /\ conn'[i].at = conn[i].at
        /\ conn'[i].cut = conn[i].cut /\ conn'[i].need = conn[i].need
        /\ conn'[i].txn = x /\ conn'[i].error = e
        /\ \A j \in Conn : j # i => conn'[j] = conn[j]
    BY <1>1, <1>5, <1>6, DoneFields
  <1> QED BY <1>1, <1>2, <1>3, <1>7

(* ...and _commit. *)
LEMMA CommitFields ==
    ASSUME MysqlTypeOK, NEW i \in Conn, RunCommit(i)
    PROVE  /\ conn' \in [Conn -> Connection]
           /\ conn'[i].tasks = Tail(conn[i].tasks) /\ conn'[i].at = conn[i].at
           /\ conn'[i].cut = conn[i].cut /\ conn'[i].txn = {}
           /\ conn'[i].need = (conn[i].need /\ conn[i].cut)
           /\ conn[i].error \/ (conn[i].need /\ conn[i].cut) => conn'[i].error
           /\ \A j \in Conn : j # i => conn'[j] = conn[j]
           /\ Working(i, {"commit"}) /\ Task(i).id \in Users /\ Commits(Task(i), Task(i).id)
           /\ stored' = stored \union conn[i].txn
  <1>1. PICK ok : /\ ok = (~conn[i].need \/ ~conn[i].cut)
                  /\ Done(i, [conn[i] EXCEPT !.need = @ /\ ~ok, !.txn = {}, !.error = @ \/ ~ok])
                  /\ stored' = stored \union conn[i].txn /\ Working(i, {"commit"})
    BY DEF RunCommit
  <1>2. /\ conn[i] \in Connection /\ Task(i).id \in Users /\ conn[i].error \in BOOLEAN
        /\ conn[i].need \in BOOLEAN /\ conn[i].cut \in BOOLEAN /\ Task(i).op = "commit"
    BY <1>1, TaskType, TaskId
  <1>3. PICK n \in BOOLEAN : n = (conn[i].need /\ ~ok) /\ n = (conn[i].need /\ conn[i].cut)
    BY <1>1, <1>2
  <1>4. PICK e \in BOOLEAN : e = (conn[i].error \/ ~ok)
    OBVIOUS
  <1>5. PICK c : c = [conn[i] EXCEPT !.need = n, !.txn = {}, !.error = e]
    OBVIOUS
  <1>6. Done(i, c)
    BY <1>1, <1>3, <1>4, <1>5
  <1>7. /\ c.tasks = conn[i].tasks /\ c.at = conn[i].at /\ c.cut = conn[i].cut
        /\ c.need = n /\ c.txn = {} /\ c.error = e /\ c \in Connection
    BY <1>2, <1>5 DEF Connection
  <1>8. /\ conn' \in [Conn -> Connection]
        /\ conn'[i].tasks = Tail(conn[i].tasks) /\ conn'[i].at = conn[i].at
        /\ conn'[i].cut = conn[i].cut /\ conn'[i].need = n
        /\ conn'[i].txn = {} /\ conn'[i].error = e
        /\ \A j \in Conn : j # i => conn'[j] = conn[j]
    BY <1>1, <1>6, <1>7, DoneFields
  <1>9. conn[i].error \/ (conn[i].need /\ conn[i].cut) => e
    BY <1>1, <1>4
  <1> QED BY <1>1, <1>2, <1>3, <1>8, <1>9 DEF Commits

(* The steps that take no task. *)
LEMMA PlainFields ==
    ASSUME MysqlTypeOK, NEW i \in Conn, Connect(i) \/ DeadLock(i)
    PROVE  /\ conn' \in [Conn -> Connection]
           /\ conn'[i].tasks = conn[i].tasks /\ conn'[i].cut = conn[i].cut
           /\ conn'[i].need = conn[i].need /\ conn'[i].error = conn[i].error
           /\ \/ conn'[i].txn = conn[i].txn /\ conn[i].at = "connect" /\ conn'[i].at = "run"
              \/ /\ conn'[i].txn = {} /\ conn'[i].at = conn[i].at
                 /\ undone' = undone \union conn[i].txn
           /\ \A j \in Conn : j # i => conn'[j] = conn[j]
  <1>1. conn \in [Conn -> Connection] /\ conn[i] \in Connection
    BY DEF MysqlTypeOK
  <1>2. CASE Connect(i)
    <2>1. conn' = [conn EXCEPT ![i] = [conn[i] EXCEPT !.at = "run"]] /\ conn[i].at = "connect"
      BY <1>2 DEF Connect
    <2>2. [conn[i] EXCEPT !.at = "run"] \in Connection
      BY <1>1 DEF Connection
    <2> QED BY <1>1, <2>1, <2>2 DEF Connection
  <1>3. CASE DeadLock(i)
    <2>1. conn' = [conn EXCEPT ![i] = [conn[i] EXCEPT !.txn = {}]]
          /\ undone' = undone \union conn[i].txn
      BY <1>3 DEF DeadLock
    <2>2. [conn[i] EXCEPT !.txn = {}] \in Connection
      BY <1>1 DEF Connection
    <2> QED BY <1>1, <2>1, <2>2 DEF Connection
  <1> QED BY <1>2, <1>3

(* The end of a connection: update_connections, then its thread. *)
LEMMA UpdateFields ==
    ASSUME MysqlTypeOK, NEW u \in Users, UpdateConnections(u)
    PROVE  /\ conn' \in [Conn -> Connection]
           /\ \A i \in Conn :
                 \/ conn'[i] = conn[i]
                 \/ /\ i \in listed /\ Unique(i)
                    /\ conn'[i].tasks = Append(conn[i].tasks, [op |-> "finish"])
                    /\ conn'[i].at = "finish" /\ conn'[i].cut = conn[i].cut
                    /\ conn'[i].txn = conn[i].txn /\ conn'[i].need = conn[i].need
                    /\ conn'[i].error = conn[i].error
  <1>1. conn \in [Conn -> Connection]
    BY DEF MysqlTypeOK
  <1>2. PICK t \in Tasks : t = [op |-> "finish"]
    BY DEF Tasks
  <1>3. conn' = [i \in Conn |-> IF i \in {j \in listed : Unique(j)}
                                THEN [conn[i] EXCEPT !.at = "finish", !.tasks = Append(@, t)]
                                ELSE conn[i]]
    BY <1>2 DEF UpdateConnections
  <1>4. ASSUME NEW i \in Conn
        PROVE  /\ [conn[i] EXCEPT !.at = "finish", !.tasks = Append(@, t)] \in Connection
               /\ \A c : c = [conn[i] EXCEPT !.at = "finish", !.tasks = Append(@, t)] =>
                      /\ c.tasks = Append(conn[i].tasks, t) /\ c.at = "finish"
                      /\ c.cut = conn[i].cut /\ c.txn = conn[i].txn
                      /\ c.need = conn[i].need /\ c.error = conn[i].error
    <2>1. conn[i] \in Connection
      BY <1>1
    <2>2. conn[i].tasks \in Seq(Tasks)
      BY <2>1 DEF Connection
    <2>3. Append(conn[i].tasks, t) \in Seq(Tasks)
      BY <2>2
    <2>4. [conn[i] EXCEPT !.at = "finish", !.tasks = Append(@, t)] \in Connection
      BY <2>1, <2>3 DEF Connection
    <2>5. \A c : c = [conn[i] EXCEPT !.at = "finish", !.tasks = Append(@, t)] =>
                      /\ c.tasks = Append(conn[i].tasks, t) /\ c.at = "finish"
                      /\ c.cut = conn[i].cut /\ c.txn = conn[i].txn
                      /\ c.need = conn[i].need /\ c.error = conn[i].error
      BY <2>1 DEF Connection
    <2> QED BY <2>4, <2>5
  <1>5. conn' \in [Conn -> Connection]
    BY <1>1, <1>3, <1>4
  <1>6. ASSUME NEW i \in Conn
        PROVE  \/ conn'[i] = conn[i]
               \/ i \in listed /\ Unique(i)
                  /\ conn'[i] = [conn[i] EXCEPT !.at = "finish", !.tasks = Append(@, t)]
    BY <1>3
  <1> QED BY <1>2, <1>4, <1>5, <1>6

(* The thread of a connection ends. *)
LEMMA FinishFields ==
    ASSUME MysqlTypeOK, NEW i \in Conn, Finish(i)
    PROVE  /\ conn' \in [Conn -> Connection]
           /\ conn'[i] = NewConn("ended")
           /\ \A j \in Conn : j # i => conn'[j] = conn[j]
  BY NewConnType DEF Finish, MysqlTypeOK

(* The server stops: the sessions are cut and their transactions undone. *)
LEMMA ServerStopsFields ==
    ASSUME MysqlTypeOK, ServerStops
    PROVE  /\ conn' \in [Conn -> Connection]
           /\ \A i \in Conn :
                 \/ conn'[i] = conn[i]
                 \/ /\ conn'[i].tasks = conn[i].tasks /\ conn'[i].at = conn[i].at
                    /\ conn'[i].need = conn[i].need /\ conn'[i].error = conn[i].error
                    /\ conn'[i].cut = TRUE /\ conn'[i].txn = {}
  <1>1. conn \in [Conn -> Connection]
    BY DEF MysqlTypeOK
  <1>2. conn' = [i \in Conn |-> IF conn[i].at \in {"run", "finish"}
                                THEN [conn[i] EXCEPT !.cut = TRUE, !.txn = {}]
                                ELSE conn[i]]
    BY DEF ServerStops
  <1>3. ASSUME NEW i \in Conn
        PROVE  /\ [conn[i] EXCEPT !.cut = TRUE, !.txn = {}] \in Connection
               /\ \A c : c = [conn[i] EXCEPT !.cut = TRUE, !.txn = {}] =>
                    /\ c.tasks = conn[i].tasks /\ c.at = conn[i].at
                    /\ c.need = conn[i].need /\ c.error = conn[i].error
                    /\ c.cut = TRUE /\ c.txn = {}
    <2>1. conn[i] \in Connection
      BY <1>1
    <2> QED BY <2>1 DEF Connection
  <1>4. conn' \in [Conn -> Connection]
    BY <1>1, <1>2, <1>3
  <1>5. \A i \in Conn : \/ conn'[i] = conn[i]
                        \/ conn'[i] = [conn[i] EXCEPT !.cut = TRUE, !.txn = {}]
    BY <1>2
  <1> QED BY <1>3, <1>4, <1>5

(* A list that has got one more task. *)
Pushed(i, t) ==
    /\ conn'[i].tasks = Append(conn[i].tasks, t) /\ conn'[i].at = conn[i].at
    /\ conn'[i].cut = conn[i].cut /\ conn'[i].txn = conn[i].txn
    /\ conn'[i].need = conn[i].need /\ conn'[i].error = conn[i].error

(* The connections of a user are connections, a finite number of them. *)
LEMMA OwnedConn ==
    ASSUME MysqlTypeOK, NEW u \in Users
    PROVE  owned[u] \subseteq Conn /\ IsFiniteSet(owned[u])
  <1>1. owned[u] \subseteq 1 .. made
    BY DEF MysqlTypeOK
  <1>2. made \in Nat /\ made <= MaxConns /\ MaxConns \in Nat
    BY Bounds
  <1>3. IsFiniteSet(1 .. made)
    BY <1>2, FS_Interval
  <1>4. owned[u] \subseteq Conn
    BY <1>1, <1>2 DEF Conn
  <1> QED BY <1>1, <1>3, <1>4, FS_Subset

(* _push changes the list of one connection. *)
LEMMA PushFields ==
    ASSUME MysqlTypeOK, NEW i \in Conn, NEW t, Push(i, t)
    PROVE  Pushed(i, t) /\ \A j \in Conn : j # i => conn'[j] = conn[j]
  <1>1. conn \in [Conn -> Connection] /\ conn[i] \in Connection
    BY DEF MysqlTypeOK
  <1>2. conn' = [conn EXCEPT ![i] = [conn[i] EXCEPT !.tasks = Append(conn[i].tasks, t)]]
    BY DEF Push
  <1>3. PICK s : s = Append(conn[i].tasks, t)
    OBVIOUS
  <1>4. conn'[i] = [conn[i] EXCEPT !.tasks = s]
    BY <1>1, <1>2, <1>3
  <1>5. /\ conn'[i].tasks = s /\ conn'[i].at = conn[i].at /\ conn'[i].cut = conn[i].cut
        /\ conn'[i].txn = conn[i].txn /\ conn'[i].need = conn[i].need
        /\ conn'[i].error = conn[i].error
    BY <1>1, <1>4 DEF Connection
  <1> QED BY <1>1, <1>2, <1>3, <1>5 DEF Pushed

(* run_query, run_query_and_get_result... *)
LEMMA RunFields ==
    ASSUME MysqlTypeOK, NEW u \in Users, RunQuery(u) \/ RunQueryAndGetResult(u)
    PROVE  \E i \in Conn, t \in Tasks :
              /\ i \in owned[u] /\ Pushed(i, t) /\ \A j \in Conn : j # i => conn'[j] = conn[j]
              /\ t.id = <<u, issued[u] + 1>> /\ t.id[1] = u
              /\ t.op = IF user'[u] = "idle" THEN "query" ELSE "result"
  <1>1. <<u, issued[u] + 1>> \in Query
    <2>1. issued[u] \in 0 .. MaxQueries
      BY DEF MysqlTypeOK
    <2>2. issued[u] < MaxQueries
      BY DEF RunQuery, RunQueryAndGetResult
    <2>3. issued[u] + 1 \in 1 .. MaxQueries
      BY <2>1, <2>2, BoundsAssumption
    <2> QED BY <2>3 DEF Query
  <1>2. PICK i \in owned[u], f \in BOOLEAN, o \in {"query", "result"} :
           /\ Push(i, [op |-> o, id |-> <<u, issued[u] + 1>>, fatal |-> f])
           /\ o = IF user'[u] = "idle" THEN "query" ELSE "result"
    <2>1. CASE RunQuery(u)
      <3>1. user'[u] = "idle"
        BY <2>1 DEF RunQuery
      <3> QED BY <2>1, <3>1 DEF RunQuery
    <2>2. CASE RunQueryAndGetResult(u)
      <3>1. user'[u] = "wait result"
        BY <2>2 DEF RunQueryAndGetResult, Go, MysqlTypeOK
      <3> QED BY <2>2, <3>1 DEF RunQueryAndGetResult
    <2> QED BY <2>1, <2>2
  <1>3. PICK t : t = [op |-> o, id |-> <<u, issued[u] + 1>>, fatal |-> f]
    OBVIOUS
  <1>4. t \in Tasks /\ t.id = <<u, issued[u] + 1>> /\ t.id[1] = u /\ t.op = o
    BY <1>1, <1>3 DEF Tasks
  <1>5. i \in Conn
    BY OwnedConn
  <1>6. Push(i, t)
    BY <1>2, <1>3
  <1>7. Pushed(i, t) /\ \A j \in Conn : j # i => conn'[j] = conn[j]
    BY <1>5, <1>6, PushFields
  <1> QED BY <1>2, <1>4, <1>5, <1>7

(* ...and commit. *)
LEMMA CommitSent ==
    ASSUME MysqlTypeOK, NEW u \in Users, Commit(u)
    PROVE  \E t \in Tasks :
              /\ t.op = "commit" /\ t.id = u
              /\ \A i \in owned[u] : Pushed(i, t)
              /\ \A i \in Conn \ owned[u] : conn'[i] = conn[i]
  <1>1. conn \in [Conn -> Connection]
    BY DEF MysqlTypeOK
  <1>2. PICK t : t = [op |-> "commit", id |-> u]
    OBVIOUS
  <1>3. t \in Tasks /\ t.op = "commit" /\ t.id = u
    BY <1>2 DEF Tasks
  <1>4. conn' = [i \in Conn |-> IF i \in owned[u] THEN [conn[i] EXCEPT !.tasks = Append(@, t)]
                                ELSE conn[i]]
    BY <1>2 DEF Commit
  <1>5. ASSUME NEW i \in owned[u] PROVE Pushed(i, t)
    <2>1. i \in Conn /\ conn[i] \in Connection
      BY <1>1, OwnedConn
    <2>2. PICK s : s = Append(conn[i].tasks, t)
      OBVIOUS
    <2>3. conn'[i] = [conn[i] EXCEPT !.tasks = s]
      BY <1>4, <2>1, <2>2
    <2>4. /\ conn'[i].tasks = s /\ conn'[i].at = conn[i].at /\ conn'[i].cut = conn[i].cut
          /\ conn'[i].txn = conn[i].txn /\ conn'[i].need = conn[i].need
          /\ conn'[i].error = conn[i].error
      BY <2>1, <2>3 DEF Connection
    <2> QED BY <2>2, <2>4 DEF Pushed
  <1> QED BY <1>3, <1>4, <1>5

(* A connection that runs the commit of a user is one its counter counts. *)
LEMMA CommitCounted ==
    ASSUME MysqlTypeOK, NEW i \in Conn, RunCommit(i)
    PROVE  /\ Task(i).id \in Users /\ i \in Pending(Task(i).id)
           /\ \A u \in Users : IsFiniteSet(Pending(u)) /\ Cardinality(Pending(u)) \in Nat
           /\ Cardinality(Pending(Task(i).id)) # 0
  <1>1. Working(i, {"commit"}) /\ Task(i).id \in Users /\ Commits(Task(i), Task(i).id)
    BY CommitFields
  <1>2. conn[i].tasks \in Seq(Tasks) /\ conn[i].tasks # <<>>
    BY <1>1, TaskType
  <1>3. Task(i) \in TasksOf(i)
    <2>1. \A e : e \in ToSet(conn[i].tasks) <=>
             \E k \in 1 .. Len(conn[i].tasks) : e = conn[i].tasks[k]
      BY <1>2, ToSetMember
    <2>2. 1 \in 1 .. Len(conn[i].tasks) /\ Head(conn[i].tasks) = conn[i].tasks[1]
      BY <1>2
    <2> QED BY <2>1, <2>2 DEF Task, TasksOf
  <1>4. i \in Pending(Task(i).id)
    BY <1>1, <1>3 DEF Pending
  <1>5. \A u \in Users : IsFiniteSet(Pending(u)) /\ Cardinality(Pending(u)) \in Nat
    <2>1. IsFiniteSet(Conn)
      BY BoundsAssumption, FS_Interval DEF Conn
    <2>2. \A u \in Users : Pending(u) \subseteq Conn
      BY DEF Pending
    <2> QED BY <2>1, <2>2, FS_Subset, FS_CardinalityType
  <1>6. Cardinality(Pending(Task(i).id)) # 0
    BY <1>1, <1>4, <1>5, FS_EmptySet
  <1> QED BY <1>1, <1>4, <1>5, <1>6

(* What the threads of the connections do to the types. *)
LEMMA WorkerTypes ==
    ASSUME MysqlTypeOK, Counted, NEW i \in Conn, WorkerStep(i) \/ Failure(i)
    PROVE  MysqlTypeOK'
  <1>1. UNCHANGED <<user, owned, listed, lock, made, server, issued, base>>
    BY DEF WorkerStep, Failure, Connect, QueryDone, QueryLost, RunCommit, Finish, QueryRefused,
           DeadLock, StoreResultFails
  <1>2. conn' \in [Conn -> Connection]
    BY QueryDoneFields, QueryFailedFields, CommitFields, PlainFields, FinishFields
       DEF WorkerStep, Failure, StoreResultFails, MysqlTypeOK
  <1>3. alive' \in BOOLEAN
    BY DEF WorkerStep, Failure, Connect, QueryDone, QueryLost, RunCommit, Finish, QueryRefused,
           DeadLock, StoreResultFails, MysqlTypeOK
  <1>4. failures' \in 0 .. MaxFailures
    <2>1. failures \in 0 .. MaxFailures
      BY DEF MysqlTypeOK
    <2>2. failures' = failures \/ (failures < MaxFailures /\ failures' = failures + 1)
      BY DEF WorkerStep, Failure, Connect, QueryDone, QueryLost, RunCommit, Finish,
             QueryRefused, DeadLock, StoreResultFails
    <2> QED BY <2>1, <2>2, BoundsAssumption
  <1>5. conn[i].txn \in SUBSET Query
    BY DEF MysqlTypeOK, Connection
  <1>6. Working(i, {"query", "result"}) => Task(i) \in Tasks /\ Task(i).id \in Query
    BY TaskType, TaskId
  <1>7. stored' \subseteq Query /\ refused' \subseteq Query /\ undone' \subseteq Query
    <2>1. stored \subseteq Query /\ refused \subseteq Query /\ undone \subseteq Query
      BY DEF MysqlTypeOK
    <2>2. CASE Connect(i) \/ QueryDone(i) \/ QueryLost(i) \/ Finish(i) \/ StoreResultFails(i)
      BY <2>1, <2>2 DEF Connect, QueryDone, QueryLost, Finish, StoreResultFails
    <2>3. CASE QueryRefused(i)
      BY <1>5, <1>6, <2>1, <2>3 DEF QueryRefused
    <2>4. CASE DeadLock(i)
      BY <1>5, <2>1, <2>4 DEF DeadLock
    <2>5. CASE RunCommit(i)
      BY <1>5, <2>1, <2>5 DEF RunCommit
    <2> QED BY <2>2, <2>3, <2>4, <2>5 DEF WorkerStep, Failure
  <1>8. promise' \in [Users -> {"none", "unset", "value", "exception"}]
    <2>1. promise \in [Users -> {"none", "unset", "value", "exception"}]
      BY DEF MysqlTypeOK
    <2>2. CASE Connect(i) \/ Finish(i) \/ StoreResultFails(i) \/ DeadLock(i)
      BY <2>1, <2>2 DEF Connect, Finish, StoreResultFails, DeadLock
    <2>3. CASE QueryDone(i) \/ QueryLost(i) \/ QueryRefused(i)
      BY <2>1, <2>3 DEF QueryDone, QueryLost, QueryRefused, SetPromise
    <2>4. CASE RunCommit(i)
      BY <2>1, <2>4 DEF RunCommit, CountDown
    <2> QED BY <2>2, <2>3, <2>4 DEF WorkerStep, Failure
  <1>9. ko' \in [Users -> 0 .. Count]
    <2>1. ko \in [Users -> 0 .. Count]
      BY DEF MysqlTypeOK
    <2>2. CASE ~RunCommit(i)
      BY <2>1, <2>2 DEF WorkerStep, Failure, Connect, QueryDone, QueryLost, Finish,
                        QueryRefused, DeadLock, StoreResultFails
    <2>3. CASE RunCommit(i)
      <3>1. PICK u \in Users : u = Task(i).id
        BY <2>3, CommitCounted
      <3>2. ko' = [ko EXCEPT ![u] = ko[u] - 1]
        BY <2>3, <3>1 DEF RunCommit, CountDown
      <3>3. ko[u] \in 0 .. Count /\ ko[u] # 0
        BY <2>1, <2>3, <3>1, CommitCounted DEF Counted
      <3>4. ko[u] - 1 \in 0 .. Count
        BY <3>3, CountAssumption
      <3> QED BY <2>1, <3>2, <3>4
    <2> QED BY <2>2, <2>3
  <1> QED BY <1>1, <1>2, <1>3, <1>4, <1>7, <1>8, <1>9 DEF MysqlTypeOK

(* Every step keeps the types. *)
LEMMA TypeStep ==
    ASSUME MysqlTypeOK, Room, Sized, Counted, MysqlNext
    PROVE  MysqlTypeOK'
  <1>1. ASSUME NEW u \in Users, UpdateConnections(u) PROVE MysqlTypeOK'
    <2>1. /\ UNCHANGED <<user, owned, ko, promise, made, server, alive, issued, base,
                         stored, refused, undone, failures>>
          /\ lock' = u /\ listed' \subseteq listed
      BY <1>1 DEF UpdateConnections
    <2>2. conn' \in [Conn -> Connection]
      BY <1>1, UpdateFields
    <2> QED BY <2>1, <2>2 DEF MysqlTypeOK
  <1>2. CASE ServerStops
    <2>1. UNCHANGED <<user, owned, ko, promise, listed, lock, made, alive, issued, base, stored,
                      refused, undone>> /\ server' = "down"
      BY <1>2 DEF ServerStops
    <2>2. conn' \in [Conn -> Connection]
      BY <1>2, ServerStopsFields
    <2>3. failures' \in 0 .. MaxFailures
      <3>1. failures \in 0 .. MaxFailures
        BY DEF MysqlTypeOK
      <3>2. failures < MaxFailures /\ failures' = failures + 1
        BY <1>2 DEF ServerStops
      <3> QED BY <3>1, <3>2, BoundsAssumption
    <2> QED BY <2>1, <2>2, <2>3 DEF MysqlTypeOK
  <1>3. CASE ServerStarts
    BY <1>3 DEF ServerStarts, MysqlTypeOK
  <1> QED BY <1>1, <1>2, <1>3, GetTypes, UserTypes, SendTypes, WorkerTypes
          DEF MysqlNext, UserStep, UserCall

-----------------------------------------------------------------------------
(* Connections in use are not removed. *)

(* What get_connections gives: new connections and reusable ones. *)
LEMMA GetFields ==
    ASSUME MysqlTypeOK, Room, NEW u \in Users, GetConnections(u)
    PROVE  \E fresh \in SUBSET Conn :
             /\ fresh \intersect 1 .. made = {}
             /\ owned'[u] \subseteq fresh \union Reusable
             /\ Cardinality(owned'[u]) = Count
             /\ \A v \in Users : v # u => owned'[v] = owned[v] /\ user'[v] = user[v]
             /\ \A i \in fresh : conn'[i] = NewConn("connect")
             /\ \A i \in Conn \ fresh : conn'[i] = conn[i]
             /\ user[u] = "wait lock" /\ user'[u] \in {"idle", "create"}
             /\ UNCHANGED <<ko, promise, alive, issued, base, stored, refused, undone>>
  <1>1. PICK reused, fresh :
           /\ reused \in SUBSET Reusable
           /\ fresh = made + 1 .. made + (Count - Cardinality(reused))
           /\ Cardinality(reused) <= Count
           /\ owned' = [owned EXCEPT ![u] = reused \union fresh]
           /\ conn' = [i \in Conn |-> IF i \in fresh THEN NewConn("connect") ELSE conn[i]]
           /\ \/ user' = [user EXCEPT ![u] = "idle"]
              \/ user' = [user EXCEPT ![u] = "create"]
    <2>1. PICK reused \in SUBSET Reusable :
           LET fresh == made + 1 .. made + (Count - Cardinality(reused))
           IN  /\ Cardinality(reused) <= Count
               /\ owned' = [owned EXCEPT ![u] = reused \union fresh]
               /\ conn' = [i \in Conn |-> IF i \in fresh THEN NewConn("connect") ELSE conn[i]]
               /\ \/ user' = [user EXCEPT ![u] = "idle"]
                  \/ user' = [user EXCEPT ![u] = "create"]
      BY DEF GetConnections, FirstReusable, Go
    <2> QED BY <2>1
  <1>2. /\ UNCHANGED <<ko, promise, alive, issued, base, stored, refused, undone>>
        /\ user[u] = "wait lock"
    BY DEF GetConnections
  <1>3. Cardinality(reused \union fresh) = Count /\ Cardinality(fresh) \in 0 .. Count
        /\ fresh = made + 1 .. made + Cardinality(fresh)
    BY <1>1, GetCount
  <1>4. fresh \subseteq Conn /\ fresh \intersect 1 .. made = {}
    <2>1. made \in Nat /\ Count \in Nat /\ MaxConns \in Nat /\ made + Count <= MaxConns
      BY <1>2, Bounds, RoomForCount
    <2>2. PICK f \in Nat : f <= Count /\ fresh = made + 1 .. made + f
      BY <1>3, <2>1
    <2>3. made + 1 .. made + f \subseteq 1 .. MaxConns
          /\ (made + 1 .. made + f) \intersect 1 .. made = {}
      BY <2>1, <2>2
    <2> QED BY <2>2, <2>3 DEF Conn
  <1>5. owned'[u] = reused \union fresh /\ \A v \in Users : v # u => owned'[v] = owned[v]
    BY <1>1 DEF MysqlTypeOK
  <1>6. user'[u] \in {"idle", "create"} /\ \A v \in Users : v # u => user'[v] = user[v]
    BY <1>1 DEF MysqlTypeOK
  <1>7. \A i \in Conn : conn'[i] = IF i \in fresh THEN NewConn("connect") ELSE conn[i]
    BY <1>1
  <1>8. /\ \A i \in fresh : conn'[i] = NewConn("connect")
        /\ \A i \in Conn \ fresh : conn'[i] = conn[i]
    BY <1>4, <1>7
  <1>9. owned'[u] \subseteq fresh \union Reusable /\ Cardinality(owned'[u]) = Count
    <2>1. reused \subseteq Reusable
      BY <1>1
    <2> QED BY <2>1, <1>3, <1>5
  <1> QED BY <1>2, <1>4, <1>5, <1>6, <1>8, <1>9

(* A user has Count connections, or none. *)
LEMMA SizedStep ==
    ASSUME MysqlTypeOK, Room, Sized, MysqlNext
    PROVE  Sized'
  <1>1. ASSUME NEW u \in Users, GetConnections(u) PROVE Sized'
    <2>1. Cardinality(owned'[u]) = Count /\ \A v \in Users : v # u => owned'[v] = owned[v]
      BY <1>1, GetFields
    <2>2. Cardinality(owned'[u]) <= Count
      BY <2>1, CountAssumption
    <2> QED BY <2>1, <2>2 DEF Sized
  <1>2. ASSUME NEW u \in Users, Release(u) PROVE Sized'
    <2>1. owned'[u] = {} /\ \A v \in Users : v # u => owned'[v] = owned[v]
      BY <1>2 DEF Release, MysqlTypeOK
    <2>2. Cardinality(owned'[u]) <= Count
      BY <2>1, CountAssumption, FS_EmptySet
    <2> QED BY <2>1, <2>2 DEF Sized
  <1>3. ASSUME owned' = owned PROVE Sized'
    BY <1>3 DEF Sized
  <1>4. ASSUME NEW u \in Users, UserStep(u) \/ UserCall(u), ~GetConnections(u), ~Release(u)
        PROVE  owned' = owned
    BY <1>4 DEF UserStep, UserCall, Created, UpdateConnections, ConnectionsUpdated, HasResult,
                Committed, Commit, Open, RunQuery, RunQueryAndGetResult, CheckErrors, Close
  <1>5. ASSUME NEW i \in Conn, WorkerStep(i) \/ Failure(i) PROVE owned' = owned
    BY <1>5 DEF WorkerStep, Failure, Connect, QueryDone, QueryLost, RunCommit, Finish,
                QueryRefused, DeadLock, StoreResultFails
  <1>6. CASE ServerStops \/ ServerStarts
    BY <1>3, <1>6 DEF ServerStops, ServerStarts
  <1> QED BY <1>1, <1>2, <1>3, <1>4, <1>5, <1>6 DEF MysqlNext

(* The first task of a connection. *)
LEMMA FirstTask ==
    ASSUME MysqlTypeOK, NEW i \in Conn, NEW ops, Working(i, ops), InOrder(conn[i].tasks)
    PROVE  /\ Task(i) \in TasksOf(i)
           /\ TasksOf(i) = {Task(i)} \union ToSet(Tail(conn[i].tasks))
           /\ InOrder(Tail(conn[i].tasks))
           /\ \A u \in Users : Answers(Task(i), u) =>
                \A x \in ToSet(Tail(conn[i].tasks)) : ~SentBy(x, u)
  BY TaskType, TakeTask DEF Task, TasksOf

(* A thread that ends is one of a connection nobody uses. *)
LEMMA FinishUnused ==
    ASSUME MysqlTypeOK, InUseRuns, Queues, NEW i \in Conn, Finish(i)
    PROVE  \A v \in Users : i \notin owned[v]
  <1>1. Working(i, {"finish"}) /\ InOrder(conn[i].tasks)
    BY DEF Finish, Queues
  <1>2. Task(i) \in TasksOf(i) /\ Task(i).op = "finish"
    BY <1>1, FirstTask, TaskType
  <1>3. conn[i].at = "finish"
    BY <1>2 DEF Queues
  <1> QED BY <1>3 DEF InUseRuns

(* No step ends a connection that a user has. *)
LEMMA InUseStep ==
    ASSUME MysqlTypeOK, Room, InUseRuns, Queues, MysqlNext
    PROVE  InUseRuns'
  <1>1. ASSUME NEW u \in Users, GetConnections(u) PROVE InUseRuns'
    <2>1. PICK fresh \in SUBSET Conn :
             /\ fresh \intersect 1 .. made = {}
             /\ owned'[u] \subseteq fresh \union Reusable
             /\ \A v \in Users : v # u => owned'[v] = owned[v]
             /\ \A i \in fresh : conn'[i] = NewConn("connect")
             /\ \A i \in Conn \ fresh : conn'[i] = conn[i]
      BY <1>1, GetFields
    <2>2. Reusable \subseteq Conn /\ \A i \in Reusable : i \in 1 .. made /\ conn[i].at = "run"
      <3>1. listed \subseteq 1 .. made
        BY DEF MysqlTypeOK
      <3>2. 1 .. made \subseteq Conn
        BY Bounds DEF Conn
      <3> QED BY <3>1, <3>2 DEF Reusable
    <2>3. \A i \in owned'[u] : conn'[i].at \in {"connect", "run"}
      BY <2>1, <2>2 DEF NewConn
    <2>4. ASSUME NEW v \in Users, v # u, NEW i \in owned'[v]
          PROVE  conn'[i].at \in {"connect", "run"}
      <3>1. i \in owned[v] /\ i \in 1 .. made /\ i \in Conn
        BY <2>1, <2>4, OwnedConn DEF MysqlTypeOK
      <3>2. conn'[i] = conn[i]
        BY <2>1, <3>1
      <3> QED BY <3>1, <3>2 DEF InUseRuns
    <2> QED BY <2>3, <2>4 DEF InUseRuns
  <1>2. ASSUME \A v \in Users : owned'[v] \subseteq owned[v],
               \A v \in Users : \A i \in owned[v] : conn'[i].at \in {conn[i].at, "run"}
        PROVE  InUseRuns'
    BY <1>2 DEF InUseRuns
  <1>3. ASSUME NEW u \in Users, RunQuery(u) \/ RunQueryAndGetResult(u) \/ Commit(u)
        PROVE  InUseRuns'
    <2>1. owned' = owned
      BY <1>3 DEF RunQuery, RunQueryAndGetResult, Commit
    <2>2. \A i \in Conn : conn'[i].at = conn[i].at
      BY <1>3, RunFields, CommitSent DEF Pushed
    <2> QED BY <1>2, <2>1, <2>2, OwnedConn
  <1>4. ASSUME NEW u \in Users, UpdateConnections(u) PROVE InUseRuns'
    <2>1. owned' = owned
      BY <1>4 DEF UpdateConnections
    <2>2. \A v \in Users : \A i \in owned[v] : conn'[i] = conn[i]
      BY <1>4, UpdateFields, OwnedConn DEF Unique
    <2> QED BY <1>2, <2>1, <2>2
  <1>5. ASSUME NEW u \in Users, Open(u) \/ Created(u) \/ ConnectionsUpdated(u) \/ HasResult(u)
                 \/ Committed(u) \/ Release(u) \/ CheckErrors(u) \/ Close(u)
        PROVE  InUseRuns'
    <2>1. conn' = conn /\ owned' \in {owned, [owned EXCEPT ![u] = {}]}
      BY <1>5 DEF Open, Created, ConnectionsUpdated, HasResult, Committed, Release, CheckErrors,
                  Close
    <2>2. \A v \in Users : owned'[v] \subseteq owned[v]
      BY <2>1 DEF MysqlTypeOK
    <2> QED BY <1>2, <2>1, <2>2
  <1>6. ASSUME NEW i \in Conn, WorkerStep(i) \/ Failure(i) PROVE InUseRuns'
    <2>1. owned' = owned
      BY <1>6 DEF WorkerStep, Failure, Connect, QueryDone, QueryLost, RunCommit, Finish,
                  QueryRefused, DeadLock, StoreResultFails
    <2>2. CASE ~Finish(i)
      <3>1. \A j \in Conn : conn'[j].at \in {conn[j].at, "run"}
        BY <1>6, <2>2, QueryDoneFields, QueryFailedFields, CommitFields, PlainFields
           DEF WorkerStep, Failure, StoreResultFails
      <3> QED BY <1>2, <2>1, <3>1, OwnedConn
    <2>3. CASE Finish(i)
      <3>1. \A j \in Conn : j # i => conn'[j] = conn[j]
        BY <2>3, FinishFields
      <3>2. \A v \in Users : i \notin owned[v]
        BY <2>3, FinishUnused
      <3> QED BY <1>2, <2>1, <3>1, <3>2, OwnedConn
    <2> QED BY <2>2, <2>3
  <1>7. CASE ServerStops \/ ServerStarts
    <2>1. owned' = owned
      BY <1>7 DEF ServerStops, ServerStarts
    <2>2. \A i \in Conn : conn'[i].at = conn[i].at
      BY <1>7, ServerStopsFields DEF ServerStarts
    <2> QED BY <1>2, <2>1, <2>2, OwnedConn
  <1> QED BY <1>1, <1>3, <1>4, <1>5, <1>6, <1>7 DEF MysqlNext, UserStep, UserCall

-----------------------------------------------------------------------------
(* The lists, and the counters of the commits. *)

(* A step of a user nobody owes an answer. *)
LEMMA UserQueues ==
    ASSUME Queues, Counted, NEW u \in Users, conn' = conn, ko' = ko,
           ~(user[u] \in Committing \union {"wait result"} /\ promise[u] = "unset"),
           \A v \in Users : v # u => /\ user'[v] = user[v] /\ promise'[v] = promise[v]
                                     /\ owned'[v] = owned[v]
    PROVE  Queues' /\ Counted'
  <1>1. \A i \in Conn : TasksOf(i)' = TasksOf(i)
    BY DEF TasksOf
  <1>2. \A v \in Users : Pending(v)' = Pending(v)
    BY <1>1 DEF Pending
  <1>3. Counted'
    BY <1>2 DEF Counted
  <1>4. \A i \in Conn : \A t \in TasksOf(i) : ~Commits(t, u) /\ ~Results(t, u)
    BY DEF Queues
  <1>5. \A i \in Conn : InOrder(conn'[i].tasks)
    BY DEF Queues
  <1>6. \A i \in Conn, v \in Users : \A t \in TasksOf(i)' :
           /\ Commits(t, v) => i \in owned'[v] /\ user'[v] \in Committing /\ promise'[v] = "unset"
           /\ Results(t, v) => user'[v] = "wait result" /\ promise'[v] = "unset"
    BY <1>1, <1>4 DEF Queues
  <1>7. \A i \in Conn : \A t \in TasksOf(i)' : t.op = "finish" => conn'[i].at = "finish"
    BY <1>1 DEF Queues
  <1>8. \A i, j \in Conn, v \in Users : \A t \in TasksOf(i)', x \in TasksOf(j)' :
           Results(t, v) /\ Results(x, v) => i = j
    BY <1>1 DEF Queues
  <1> QED BY <1>3, <1>5, <1>6, <1>7, <1>8 DEF Queues

(* No task, no order. *)
LEMMA EmptyInOrder == InOrder(<<>>)
  <1>1. Len(<<>>) = 0
    OBVIOUS
  <1>2. \A k : k \notin 1 .. 0
    OBVIOUS
  <1> QED BY <1>1, <1>2 DEF InOrder

(* Lists that lose tasks, or none. *)
LEMMA FewerTasks ==
    ASSUME Queues, NEW gone \in SUBSET Conn,
           \A i \in Conn \ gone : conn'[i].tasks = conn[i].tasks,
           \A i \in Conn \ gone : conn[i].at = "finish" => conn'[i].at = "finish",
           \A i \in gone : conn'[i].tasks = <<>> /\ \A v \in Users : i \notin owned[v],
           \A v \in Users :
              user[v] \in Committing => user'[v] = user[v] /\ owned'[v] = owned[v],
           \A v \in Users : user[v] = "wait result" => user'[v] = user[v],
           promise' = promise, ko' = ko
    PROVE  Queues' /\ (Counted => Counted')
  <1>1. /\ \A i \in Conn \ gone : TasksOf(i)' = TasksOf(i) /\ TasksOf(i)' \subseteq TasksOf(i)
        /\ \A i \in gone : TasksOf(i)' = {}
    <2>1. \A i \in Conn \ gone : TasksOf(i)' = TasksOf(i)
      BY DEF TasksOf
    <2>2. \A i \in gone : TasksOf(i)' = ToSet(<<>>)
      BY DEF TasksOf
    <2> QED BY <2>1, <2>2, ToSetEmpty
  <1>2. \A i \in Conn : TasksOf(i)' \subseteq TasksOf(i)
    BY <1>1
  <1>3. \A i \in Conn : InOrder(conn'[i].tasks)
    <2>1. InOrder(<<>>)
      BY EmptyInOrder
    <2>2. \A i \in gone : InOrder(conn'[i].tasks)
      BY <2>1
    <2>3. \A i \in Conn \ gone : InOrder(conn'[i].tasks)
      BY DEF Queues
    <2> QED BY <2>2, <2>3
  <1>4. \A i \in Conn, v \in Users : \A t \in TasksOf(i)' :
           /\ Commits(t, v) => i \in owned'[v] /\ user'[v] \in Committing /\ promise'[v] = "unset"
           /\ Results(t, v) => user'[v] = "wait result" /\ promise'[v] = "unset"
    BY <1>2 DEF Queues
  <1>5. \A i \in Conn : \A t \in TasksOf(i)' : t.op = "finish" => conn'[i].at = "finish"
    <2> SUFFICES ASSUME NEW i \in Conn, NEW t \in TasksOf(i)', t.op = "finish"
                 PROVE  conn'[i].at = "finish"
      OBVIOUS
    <2>1. i \in Conn \ gone /\ t \in TasksOf(i)
      BY <1>1
    <2>2. conn[i].at = "finish"
      BY <2>1 DEF Queues
    <2> QED BY <2>1, <2>2
  <1>6. \A i, j \in Conn, v \in Users : \A t \in TasksOf(i)', x \in TasksOf(j)' :
           Results(t, v) /\ Results(x, v) => i = j
    BY <1>2 DEF Queues
  <1>7. \A v \in Users : Pending(v)' = Pending(v)
    <2>1. \A v \in Users : \A i \in gone : i \notin Pending(v)
      BY DEF Queues, Pending
    <2> QED BY <1>1, <2>1 DEF Pending
  <1>8. Counted => Counted'
    BY <1>7 DEF Counted
  <1> QED BY <1>3, <1>4, <1>5, <1>6, <1>8 DEF Queues

(* update_connections: the last task of a connection nobody uses. *)
LEMMA UpdateQueues ==
    ASSUME MysqlTypeOK, Queues, Counted, NEW u \in Users, UpdateConnections(u)
    PROVE  Queues' /\ Counted'
  <1>1. PICK t \in Tasks : t = [op |-> "finish"]
    BY DEF Tasks
  <1>2. t.op = "finish" /\ \A v \in Users : ~Commits(t, v) /\ ~Queries(t, v) /\ ~Results(t, v)
    BY <1>1 DEF Commits, Queries, Results
  <1>3. UNCHANGED <<user, owned, ko, promise>>
    BY DEF UpdateConnections
  <1>4. ASSUME NEW i \in Conn
        PROVE  /\ InOrder(conn'[i].tasks)
               /\ \/ TasksOf(i)' = TasksOf(i) /\ conn'[i].at = conn[i].at
                  \/ TasksOf(i)' = TasksOf(i) \union {t} /\ conn'[i].at = "finish"
    <2>1. CASE conn'[i] = conn[i]
      BY <2>1 DEF Queues, TasksOf
    <2>2. CASE conn'[i].tasks = Append(conn[i].tasks, t) /\ conn'[i].at = "finish"
      <3>1. conn[i].tasks \in Seq(Tasks)
        BY DEF MysqlTypeOK, Connection
      <3>2. /\ InOrder(conn[i].tasks)
            /\ \A v \in Users : \A x \in ToSet(conn[i].tasks) : ~(Answers(x, v) /\ SentBy(t, v))
        BY <1>2 DEF Queues, SentBy
      <3>3. InOrder(Append(conn[i].tasks, t))
            /\ ToSet(Append(conn[i].tasks, t)) = ToSet(conn[i].tasks) \union {t}
        BY <3>1, <3>2, PushTask
      <3> QED BY <2>2, <3>3 DEF TasksOf
    <2> QED BY <1>1, <2>1, <2>2, UpdateFields
  <1>5. \A i \in Conn : \A x \in TasksOf(i)' : x \in TasksOf(i) \/ x = t
    BY <1>4
  <1>6. \A i \in Conn, v \in Users : \A x \in TasksOf(i)' :
           /\ Commits(x, v) => i \in owned'[v] /\ user'[v] \in Committing /\ promise'[v] = "unset"
           /\ Results(x, v) => user'[v] = "wait result" /\ promise'[v] = "unset"
    BY <1>2, <1>3, <1>5 DEF Queues
  <1>7. \A i \in Conn : \A x \in TasksOf(i)' : x.op = "finish" => conn'[i].at = "finish"
    BY <1>4 DEF Queues
  <1>8. \A i, j \in Conn, v \in Users : \A x \in TasksOf(i)', y \in TasksOf(j)' :
           Results(x, v) /\ Results(y, v) => i = j
    BY <1>2, <1>5 DEF Queues
  <1>9. \A v \in Users : Pending(v)' = Pending(v)
    BY <1>2, <1>4 DEF Pending
  <1>10. Counted'
    BY <1>3, <1>9 DEF Counted
  <1> QED BY <1>4, <1>6, <1>7, <1>8, <1>10 DEF Queues

(* A query is sent: its user has no commit and no result to wait for.      *)
LEMMA RunQueues ==
    ASSUME MysqlTypeOK, Queues, Counted, NEW u \in Users, RunQuery(u) \/ RunQueryAndGetResult(u)
    PROVE  Queues' /\ Counted' /\ \A i \in Conn : TasksOf(i) \subseteq TasksOf(i)'
  <1>1. PICK i \in Conn, t \in Tasks :
           /\ i \in owned[u] /\ Pushed(i, t) /\ \A j \in Conn : j # i => conn'[j] = conn[j]
           /\ t.id[1] = u /\ t.op = IF user'[u] = "idle" THEN "query" ELSE "result"
    BY RunFields
  <1>2. /\ user[u] = "idle" /\ owned' = owned /\ ko' = ko
        /\ \A v \in Users : v # u => user'[v] = user[v] /\ promise'[v] = promise[v]
        /\ \/ user'[u] = "idle"
           \/ user'[u] = "wait result" /\ promise'[u] = "unset"
    BY DEF RunQuery, RunQueryAndGetResult, Go, MysqlTypeOK
  <1>3. \A j \in Conn : \A x \in TasksOf(j) : ~Commits(x, u) /\ ~Results(x, u)
    BY <1>2 DEF Queues, Committing
  <1>4. /\ \A v \in Users : ~Commits(t, v) /\ (v # u => ~Queries(t, v) /\ ~Results(t, v))
        /\ Results(t, u) => user'[u] = "wait result" /\ promise'[u] = "unset"
        /\ t.op # "finish"
    BY <1>1, <1>2 DEF Commits, Queries, Results
  <1>5. conn[i].tasks \in Seq(Tasks)
    BY DEF MysqlTypeOK, Connection
  <1>6. InOrder(conn'[i].tasks) /\ TasksOf(i)' = TasksOf(i) \union {t} /\ conn'[i].at = conn[i].at
    <2>1. /\ InOrder(conn[i].tasks)
          /\ \A v \in Users : \A x \in ToSet(conn[i].tasks) : ~(Answers(x, v) /\ SentBy(t, v))
      BY <1>3, <1>4 DEF Queues, SentBy, Answers, TasksOf
    <2>2. InOrder(Append(conn[i].tasks, t))
          /\ ToSet(Append(conn[i].tasks, t)) = ToSet(conn[i].tasks) \union {t}
      BY <1>5, <2>1, PushTask
    <2> QED BY <1>1, <2>2 DEF TasksOf, Pushed
  <1>7. \A j \in Conn : j # i => TasksOf(j)' = TasksOf(j) /\ conn'[j] = conn[j]
    BY <1>1 DEF TasksOf
  <1>8. \A j \in Conn : \A x \in TasksOf(j)' : x \in TasksOf(j) \/ (x = t /\ j = i)
    BY <1>6, <1>7
  <1>9. \A j \in Conn : InOrder(conn'[j].tasks)
    BY <1>6, <1>7 DEF Queues
  <1>10. \A j \in Conn, v \in Users : \A x \in TasksOf(j)' :
           /\ Commits(x, v) => j \in owned'[v] /\ user'[v] \in Committing /\ promise'[v] = "unset"
           /\ Results(x, v) => user'[v] = "wait result" /\ promise'[v] = "unset"
    <2> SUFFICES ASSUME NEW j \in Conn, NEW v \in Users, NEW x \in TasksOf(j)'
                 PROVE  /\ Commits(x, v) => j \in owned'[v] /\ user'[v] \in Committing
                                                           /\ promise'[v] = "unset"
                        /\ Results(x, v) => user'[v] = "wait result" /\ promise'[v] = "unset"
      OBVIOUS
    <2>1. CASE x = t
      BY <1>4, <2>1
    <2>2. CASE x \in TasksOf(j)
      BY <1>2, <1>3, <2>2 DEF Queues
    <2> QED BY <1>8, <2>1, <2>2
  <1>11. \A j \in Conn : \A x \in TasksOf(j)' : x.op = "finish" => conn'[j].at = "finish"
    BY <1>4, <1>6, <1>7, <1>8 DEF Queues
  <1>12. \A j, k \in Conn, v \in Users : \A x \in TasksOf(j)', y \in TasksOf(k)' :
           Results(x, v) /\ Results(y, v) => j = k
    <2> SUFFICES ASSUME NEW j \in Conn, NEW k \in Conn, NEW v \in Users,
                        NEW x \in TasksOf(j)', NEW y \in TasksOf(k)', Results(x, v), Results(y, v)
                 PROVE  j = k
      OBVIOUS
    <2>1. CASE v = u
      BY <1>3, <1>8, <2>1
    <2>2. CASE v # u
      <3>1. x \in TasksOf(j) /\ y \in TasksOf(k)
        BY <1>4, <1>8, <2>2
      <3> QED BY <3>1 DEF Queues
    <2> QED BY <2>1, <2>2
  <1>13. \A v \in Users : Pending(v)' = Pending(v)
    BY <1>4, <1>6, <1>7 DEF Pending
  <1>14. Counted'
    BY <1>2, <1>13 DEF Counted
  <1> QED BY <1>6, <1>7, <1>9, <1>10, <1>11, <1>12, <1>14 DEF Queues

(* A commit is sent to every connection of its user. *)
LEMMA CommitQueues ==
    ASSUME MysqlTypeOK, Queues, Counted, NEW u \in Users, Commit(u)
    PROVE  /\ Queues' /\ Counted' /\ Pending(u)' = owned[u]
           /\ \A i \in Conn : TasksOf(i) \subseteq TasksOf(i)'
  <1>1. PICK t \in Tasks :
           /\ t.op = "commit" /\ t.id = u
           /\ \A i \in owned[u] : Pushed(i, t)
           /\ \A i \in Conn \ owned[u] : conn'[i] = conn[i]
    BY CommitSent
  <1>2. /\ user[u] \in {"idle", "closing"} /\ owned' = owned
        /\ ko' = [ko EXCEPT ![u] = Cardinality(owned[u])]
        /\ \A v \in Users : v # u => user'[v] = user[v] /\ promise'[v] = promise[v]
        /\ user'[u] \in Committing /\ promise'[u] = "unset"
    BY DEF Commit, Go, MysqlTypeOK, Committing
  <1>3. \A j \in Conn : \A x \in TasksOf(j) : ~Commits(x, u) /\ ~Results(x, u)
    BY <1>2 DEF Queues, Committing
  <1>4. /\ \A v \in Users : (Commits(t, v) <=> v = u) /\ ~Queries(t, v) /\ ~Results(t, v)
        /\ t.op # "finish"
    BY <1>1 DEF Commits, Queries, Results
  <1>5. ASSUME NEW i \in owned[u]
        PROVE  /\ i \in Conn
               /\ InOrder(conn'[i].tasks) /\ TasksOf(i)' = TasksOf(i) \union {t}
               /\ conn'[i].at = conn[i].at
    <2>1. i \in Conn
      BY OwnedConn
    <2>2. conn[i].tasks \in Seq(Tasks)
      BY <2>1 DEF MysqlTypeOK, Connection
    <2>3. /\ InOrder(conn[i].tasks)
          /\ \A v \in Users : \A x \in ToSet(conn[i].tasks) : ~(Answers(x, v) /\ SentBy(t, v))
      BY <1>3, <1>4, <2>1 DEF Queues, SentBy, Answers, TasksOf
    <2>4. InOrder(Append(conn[i].tasks, t))
          /\ ToSet(Append(conn[i].tasks, t)) = ToSet(conn[i].tasks) \union {t}
      BY <2>2, <2>3, PushTask
    <2> QED BY <1>1, <2>1, <2>4 DEF TasksOf, Pushed
  <1>6. \A j \in Conn : j \notin owned[u] => TasksOf(j)' = TasksOf(j) /\ conn'[j] = conn[j]
    BY <1>1 DEF TasksOf
  <1>7. \A j \in Conn : \A x \in TasksOf(j)' : x \in TasksOf(j) \/ (x = t /\ j \in owned[u])
    BY <1>5, <1>6
  <1>8. \A j \in Conn : InOrder(conn'[j].tasks)
    BY <1>5, <1>6 DEF Queues
  <1>9. \A j \in Conn, v \in Users : \A x \in TasksOf(j)' :
           /\ Commits(x, v) => j \in owned'[v] /\ user'[v] \in Committing /\ promise'[v] = "unset"
           /\ Results(x, v) => user'[v] = "wait result" /\ promise'[v] = "unset"
    <2> SUFFICES ASSUME NEW j \in Conn, NEW v \in Users, NEW x \in TasksOf(j)'
                 PROVE  /\ Commits(x, v) => j \in owned'[v] /\ user'[v] \in Committing
                                                           /\ promise'[v] = "unset"
                        /\ Results(x, v) => user'[v] = "wait result" /\ promise'[v] = "unset"
      OBVIOUS
    <2>1. CASE x = t /\ j \in owned[u]
      BY <1>2, <1>4, <2>1
    <2>2. CASE x \in TasksOf(j)
      BY <1>2, <1>3, <2>2 DEF Queues
    <2> QED BY <1>7, <2>1, <2>2
  <1>10. \A j \in Conn : \A x \in TasksOf(j)' : x.op = "finish" => conn'[j].at = "finish"
    BY <1>4, <1>5, <1>6, <1>7 DEF Queues
  <1>11. \A j, k \in Conn, v \in Users : \A x \in TasksOf(j)', y \in TasksOf(k)' :
           Results(x, v) /\ Results(y, v) => j = k
    BY <1>4, <1>7 DEF Queues
  <1>12. \A v \in Users : v # u => Pending(v)' = Pending(v)
    BY <1>4, <1>5, <1>6 DEF Pending
  <1>13. Pending(u)' = owned[u]
    <2>1. \A j \in owned[u] : j \in Conn /\ \E x \in TasksOf(j)' : Commits(x, u)
      BY <1>4, <1>5
    <2>2. \A j \in Conn : (\E x \in TasksOf(j)' : Commits(x, u)) => j \in owned[u]
      BY <1>3, <1>7
    <2> QED BY <2>1, <2>2 DEF Pending
  <1>14. Counted'
    BY <1>2, <1>12, <1>13 DEF Counted, MysqlTypeOK
  <1> QED BY <1>5, <1>6, <1>8, <1>9, <1>10, <1>11, <1>13, <1>14 DEF Queues

(* A query is done: who waits for its result has nothing else under way. *)
LEMMA QueryQueues ==
    ASSUME MysqlTypeOK, Queues, Counted, NEW i \in Conn,
           QueryDone(i) \/ QueryRefused(i) \/ QueryLost(i)
    PROVE  /\ Queues' /\ Counted'
           /\ TasksOf(i) = {Task(i)} \union TasksOf(i)'
           /\ \A j \in Conn : j # i => TasksOf(j)' = TasksOf(j)
           /\ \A v \in Users : Pending(v)' = Pending(v)
  <1>1. Working(i, {"query", "result"})
    BY DEF QueryDone, QueryRefused, QueryLost
  <1>2. /\ conn'[i].tasks = Tail(conn[i].tasks) /\ conn'[i].at = conn[i].at
        /\ \A j \in Conn : j # i => conn'[j] = conn[j]
    BY QueryDoneFields, QueryFailedFields
  <1>3. UNCHANGED <<user, owned, ko>>
    BY DEF QueryDone, QueryRefused, QueryLost
  <1>4. PICK t \in Tasks : t = Task(i)
    BY <1>1, TaskType
  <1>5. t.op \in {"query", "result"} /\ t.id[1] \in Users
    BY <1>1, <1>4, TaskType, TaskId
  <1>6. PICK u \in Users : u = t.id[1]
    BY <1>5
  <1>7. InOrder(conn[i].tasks)
    BY DEF Queues
  <1>8. /\ t \in TasksOf(i) /\ TasksOf(i) = {t} \union TasksOf(i)'
        /\ InOrder(conn'[i].tasks)
        /\ \A v \in Users : Answers(t, v) => \A x \in TasksOf(i)' : ~SentBy(x, v)
    BY <1>1, <1>2, <1>4, <1>7, FirstTask DEF TasksOf
  <1>9. \A j \in Conn : j # i => TasksOf(j)' = TasksOf(j)
    BY <1>2 DEF TasksOf
  <1>10. \A j \in Conn : TasksOf(j)' \subseteq TasksOf(j)
    BY <1>8, <1>9
  <1>11. \A v \in Users : ~Commits(t, v)
    BY <1>5 DEF Commits
  <1>12. \A v \in Users : Pending(v)' = Pending(v)
    BY <1>8, <1>9, <1>11 DEF Pending
  <1>13. Counted'
    BY <1>3, <1>12 DEF Counted
  <1>14. /\ \A v \in Users : v # u => promise'[v] = promise[v]
         /\ t.op = "query" => promise' = promise
    BY <1>4, <1>5, <1>6 DEF QueryDone, QueryRefused, QueryLost, SetPromise, MysqlTypeOK
  <1>15. ASSUME t.op = "result" PROVE \A j \in Conn : \A x \in TasksOf(j)' :
                                         ~Commits(x, u) /\ ~Results(x, u)
    <2>1. Results(t, u) /\ Answers(t, u)
      BY <1>6, <1>15 DEF Results, Answers
    <2>2. user[u] = "wait result"
      BY <1>8, <2>1 DEF Queues
    <2>3. \A j \in Conn : \A x \in TasksOf(j) : ~Commits(x, u)
      BY <2>2 DEF Queues, Committing
    <2>4. \A x \in TasksOf(i)' : ~Results(x, u)
      BY <1>8, <2>1 DEF SentBy, Queries, Results
    <2>5. \A j \in Conn : j # i => \A x \in TasksOf(j) : ~Results(x, u)
      BY <1>8, <2>1 DEF Queues
    <2> QED BY <1>9, <1>10, <2>3, <2>4, <2>5
  <1>16. \A j \in Conn : InOrder(conn'[j].tasks)
    BY <1>2, <1>8 DEF Queues
  <1>17. \A j \in Conn, v \in Users : \A x \in TasksOf(j)' :
           /\ Commits(x, v) => j \in owned'[v] /\ user'[v] \in Committing /\ promise'[v] = "unset"
           /\ Results(x, v) => user'[v] = "wait result" /\ promise'[v] = "unset"
    <2> SUFFICES ASSUME NEW j \in Conn, NEW v \in Users, NEW x \in TasksOf(j)'
                 PROVE  /\ Commits(x, v) => j \in owned'[v] /\ user'[v] \in Committing
                                                           /\ promise'[v] = "unset"
                        /\ Results(x, v) => user'[v] = "wait result" /\ promise'[v] = "unset"
      OBVIOUS
    <2>1. x \in TasksOf(j)
      BY <1>10
    <2>2. /\ Commits(x, v) => j \in owned[v] /\ user[v] \in Committing /\ promise[v] = "unset"
          /\ Results(x, v) => user[v] = "wait result" /\ promise[v] = "unset"
      BY <2>1 DEF Queues
    <2>3. CASE v # u \/ t.op = "query"
      BY <1>3, <1>14, <2>2, <2>3
    <2>4. CASE v = u /\ t.op = "result"
      BY <1>15, <2>4
    <2> QED BY <1>5, <2>3, <2>4
  <1>18. \A j \in Conn : \A x \in TasksOf(j)' : x.op = "finish" => conn'[j].at = "finish"
    BY <1>2, <1>10 DEF Queues
  <1>19. \A j, k \in Conn, v \in Users : \A x \in TasksOf(j)', y \in TasksOf(k)' :
           Results(x, v) /\ Results(y, v) => j = k
    BY <1>10 DEF Queues
  <1> QED BY <1>4, <1>8, <1>9, <1>12, <1>13, <1>16, <1>17, <1>18, <1>19 DEF Queues

(* A connection answers a commit: the last answer sets the promise, and    *)
(* nothing of its user is left.                                            *)
LEMMA AnswerQueues ==
    ASSUME MysqlTypeOK, Queues, Counted, NEW i \in Conn, RunCommit(i)
    PROVE  /\ Queues' /\ Counted'
           /\ TasksOf(i) = {Task(i)} \union TasksOf(i)'
           /\ \A j \in Conn : j # i => TasksOf(j)' = TasksOf(j)
           /\ \A v \in Users : Pending(v)' = IF v = Task(i).id THEN Pending(v) \ {i}
                                                               ELSE Pending(v)
           /\ \A x \in TasksOf(i)' : ~SentBy(x, Task(i).id)
  <1>1. PICK u \in Users : u = Task(i).id /\ i \in Pending(u)
                           /\ Commits(Task(i), u) /\ Working(i, {"commit"})
    BY CommitCounted, CommitFields
  <1>2. /\ conn'[i].tasks = Tail(conn[i].tasks) /\ conn'[i].at = conn[i].at
        /\ \A j \in Conn : j # i => conn'[j] = conn[j]
    BY CommitFields
  <1>3. /\ UNCHANGED <<user, owned>>
        /\ ko' = [ko EXCEPT ![u] = ko[u] - 1]
        /\ promise' = IF ko[u] = 1 THEN [promise EXCEPT ![u] = "value"] ELSE promise
    BY <1>1 DEF RunCommit, CountDown
  <1>4. PICK t : t = Task(i)
    OBVIOUS
  <1>5. InOrder(conn[i].tasks) /\ Answers(t, u)
    BY <1>1, <1>4 DEF Queues, Answers
  <1>6. /\ t \in TasksOf(i) /\ TasksOf(i) = {t} \union TasksOf(i)'
        /\ InOrder(conn'[i].tasks)
        /\ \A x \in TasksOf(i)' : ~SentBy(x, u)
    BY <1>1, <1>2, <1>4, <1>5, FirstTask DEF TasksOf
  <1>7. \A j \in Conn : j # i => TasksOf(j)' = TasksOf(j)
    BY <1>2 DEF TasksOf
  <1>8. \A j \in Conn : TasksOf(j)' \subseteq TasksOf(j)
    BY <1>6, <1>7
  <1>9. \A v \in Users : v # u => ~Commits(t, v)
    BY <1>1, <1>4 DEF Commits
  <1>10. \A v \in Users : v # u => Pending(v)' = Pending(v)
    BY <1>6, <1>7, <1>9 DEF Pending
  <1>11. Pending(u)' = Pending(u) \ {i}
    BY <1>6, <1>7 DEF Pending, SentBy
  <1>12. /\ IsFiniteSet(Pending(u)) /\ Cardinality(Pending(u)) \in Nat
         /\ Cardinality(Pending(u) \ {i}) = Cardinality(Pending(u)) - 1
    BY <1>1, CommitCounted, FS_RemoveElement
  <1>13. Counted'
    <2>1. ko'[u] = ko[u] - 1 /\ \A v \in Users : v # u => ko'[v] = ko[v]
      BY <1>3 DEF MysqlTypeOK
    <2>2. ko'[u] = Cardinality(Pending(u)')
      BY <1>11, <1>12, <2>1 DEF Counted
    <2>3. \A v \in Users : v # u => ko'[v] = Cardinality(Pending(v)')
      BY <1>10, <2>1 DEF Counted
    <2> QED BY <2>2, <2>3 DEF Counted
  <1>14. ko[u] = 1 => Pending(u)' = {}
    <2>1. ASSUME ko[u] = 1 PROVE Cardinality(Pending(u) \ {i}) = 0
      BY <1>12, <2>1 DEF Counted
    <2>2. IsFiniteSet(Pending(u) \ {i})
      BY <1>12, FS_RemoveElement
    <2> QED BY <1>11, <2>1, <2>2, FS_EmptySet
  <1>15. /\ \A v \in Users : v # u => promise'[v] = promise[v]
         /\ ko[u] # 1 => promise' = promise
    BY <1>3 DEF MysqlTypeOK
  <1>16. \A j \in Conn : InOrder(conn'[j].tasks)
    BY <1>2, <1>6 DEF Queues
  <1>17. \A j \in Conn, v \in Users : \A x \in TasksOf(j)' :
           /\ Commits(x, v) => j \in owned'[v] /\ user'[v] \in Committing /\ promise'[v] = "unset"
           /\ Results(x, v) => user'[v] = "wait result" /\ promise'[v] = "unset"
    <2> SUFFICES ASSUME NEW j \in Conn, NEW v \in Users, NEW x \in TasksOf(j)'
                 PROVE  /\ Commits(x, v) => j \in owned'[v] /\ user'[v] \in Committing
                                                           /\ promise'[v] = "unset"
                        /\ Results(x, v) => user'[v] = "wait result" /\ promise'[v] = "unset"
      OBVIOUS
    <2>1. x \in TasksOf(j)
      BY <1>8
    <2>2. /\ Commits(x, v) => j \in owned[v] /\ user[v] \in Committing /\ promise[v] = "unset"
          /\ Results(x, v) => user[v] = "wait result" /\ promise[v] = "unset"
      BY <2>1 DEF Queues
    <2>3. CASE v # u \/ ko[u] # 1
      BY <1>3, <1>15, <2>2, <2>3
    <2>4. CASE v = u /\ ko[u] = 1
      <3>1. ~Commits(x, u)
        BY <1>14, <2>4 DEF Pending
      <3>2. user[u] \in Committing
        BY <1>1, <1>4, <1>6 DEF Queues
      <3> QED BY <2>2, <2>4, <3>1, <3>2 DEF Committing
    <2> QED BY <2>3, <2>4
  <1>18. \A j \in Conn : \A x \in TasksOf(j)' : x.op = "finish" => conn'[j].at = "finish"
    BY <1>2, <1>8 DEF Queues
  <1>19. \A j, k \in Conn, v \in Users : \A x \in TasksOf(j)', y \in TasksOf(k)' :
           Results(x, v) /\ Results(y, v) => j = k
    BY <1>8 DEF Queues
  <1> QED BY <1>1, <1>4, <1>6, <1>7, <1>10, <1>11, <1>13, <1>16, <1>17, <1>18, <1>19 DEF Queues

(* Every step keeps the order of the lists and the counters right. *)
LEMMA QueuesStep ==
    ASSUME MysqlTypeOK, Room, InUseRuns, Queues, Counted, MysqlNext
    PROVE  Queues' /\ Counted'
  <1>1. ASSUME NEW u \in Users, Open(u) \/ Created(u) \/ ConnectionsUpdated(u) \/ HasResult(u)
                 \/ Committed(u) \/ Release(u) \/ CheckErrors(u) \/ Close(u)
        PROVE  Queues' /\ Counted'
    <2>1. /\ conn' = conn /\ ko' = ko
          /\ \A v \in Users : v # u => /\ user'[v] = user[v] /\ promise'[v] = promise[v]
                                       /\ owned'[v] = owned[v]
      BY <1>1 DEF Open, Created, ConnectionsUpdated, HasResult, Committed, Release, CheckErrors,
                  Close, Go, MysqlTypeOK
    <2>2. ~(user[u] \in Committing \union {"wait result"} /\ promise[u] = "unset")
      BY <1>1 DEF Open, Created, ConnectionsUpdated, HasResult, Committed, Release, CheckErrors,
                  Close, Committing
    <2> QED BY <2>1, <2>2, UserQueues
  <1>2. ASSUME NEW u \in Users, GetConnections(u) PROVE Queues' /\ Counted'
    <2>1. PICK fresh \in SUBSET Conn :
             /\ fresh \intersect 1 .. made = {}
             /\ \A v \in Users : v # u => owned'[v] = owned[v] /\ user'[v] = user[v]
             /\ \A i \in fresh : conn'[i] = NewConn("connect")
             /\ \A i \in Conn \ fresh : conn'[i] = conn[i]
             /\ user[u] = "wait lock" /\ promise' = promise /\ ko' = ko
      BY <1>2, GetFields
    <2>2. \A i \in fresh : conn'[i].tasks = <<>> /\ \A v \in Users : i \notin owned[v]
      <3>0. NewConn("connect").tasks = <<>>
        BY DEF NewConn
      <3>1. \A i \in fresh : conn'[i].tasks = <<>>
        BY <2>1, <3>0
      <3>2. \A v \in Users : owned[v] \subseteq 1 .. made
        BY DEF MysqlTypeOK
      <3> QED BY <2>1, <3>1, <3>2
    <2>3. \A v \in Users : user[v] \in Committing => user'[v] = user[v] /\ owned'[v] = owned[v]
      BY <2>1 DEF Committing
    <2>4. \A v \in Users : user[v] = "wait result" => user'[v] = user[v]
      BY <2>1
    <2>5. /\ \A i \in Conn \ fresh : conn'[i].tasks = conn[i].tasks
          /\ \A i \in Conn \ fresh : conn[i].at = "finish" => conn'[i].at = "finish"
      BY <2>1
    <2> QED BY <2>1, <2>2, <2>3, <2>4, <2>5, FewerTasks
  <1>3. ASSUME UNCHANGED <<user, owned, ko, promise>>,
               \A i \in Conn : /\ conn'[i].tasks = conn[i].tasks
                               /\ conn'[i].at = conn[i].at \/ conn[i].at # "finish"
        PROVE  Queues' /\ Counted'
    <2>1. /\ \A i \in Conn \ {} : conn'[i].tasks = conn[i].tasks
          /\ \A i \in Conn \ {} : conn[i].at = "finish" => conn'[i].at = "finish"
      BY <1>3
    <2>2. \A i \in {} : conn'[i].tasks = <<>> /\ \A v \in Users : i \notin owned[v]
      OBVIOUS
    <2>3. PICK gone \in SUBSET Conn : gone = {}
      OBVIOUS
    <2> QED BY <1>3, <2>1, <2>2, <2>3, FewerTasks
  <1>4. ASSUME NEW i \in Conn, Finish(i) PROVE Queues' /\ Counted'
    <2>1. /\ UNCHANGED <<user, owned, ko, promise>> /\ conn'[i] = NewConn("ended")
          /\ \A j \in Conn : j # i => conn'[j] = conn[j]
      BY <1>4, FinishFields DEF Finish
    <2>2. \A j \in {i} : conn'[j].tasks = <<>> /\ \A v \in Users : j \notin owned[v]
      BY <1>4, <2>1, FinishUnused DEF NewConn
    <2>3. /\ \A j \in Conn \ {i} : conn'[j].tasks = conn[j].tasks
          /\ \A j \in Conn \ {i} : conn[j].at = "finish" => conn'[j].at = "finish"
      BY <2>1
    <2>4. PICK gone \in SUBSET Conn : gone = {i}
      OBVIOUS
    <2> QED BY <2>1, <2>2, <2>3, <2>4, FewerTasks
  <1>5. ASSUME NEW i \in Conn, Connect(i) \/ DeadLock(i) \/ StoreResultFails(i)
        PROVE  Queues' /\ Counted'
    <2>1. UNCHANGED <<user, owned, ko, promise>>
      BY <1>5 DEF Connect, DeadLock, StoreResultFails
    <2>2. \A j \in Conn : /\ conn'[j].tasks = conn[j].tasks
                          /\ conn'[j].at = conn[j].at \/ conn[j].at # "finish"
      BY <1>5, PlainFields DEF StoreResultFails
    <2> QED BY <1>3, <2>1, <2>2
  <1>6. CASE ServerStops \/ ServerStarts
    <2>1. UNCHANGED <<user, owned, ko, promise>>
      BY <1>6 DEF ServerStops, ServerStarts
    <2>2. \A j \in Conn : conn'[j].tasks = conn[j].tasks /\ conn'[j].at = conn[j].at
      BY <1>6, ServerStopsFields DEF ServerStarts
    <2> QED BY <1>3, <2>1, <2>2
  <1> QED BY <1>1, <1>2, <1>4, <1>5, <1>6, UpdateQueues, RunQueues, CommitQueues, QueryQueues,
             AnswerQueues
          DEF MysqlNext, UserStep, UserCall, WorkerStep, Failure

-----------------------------------------------------------------------------
(* Where the queries are. *)

(* What a connection may do with the queries it holds. *)
Retained(i) ==
    /\ TasksOf(i) \subseteq TasksOf(i)'
    /\ \/ conn[i].txn \subseteq conn'[i].txn
       \/ conn[i].txn \subseteq stored' \union undone'
       \/ conn'[i].cut /\ conn'[i].need
    /\ conn[i].cut /\ conn[i].need => conn'[i].cut /\ conn'[i].need
    /\ conn[i].error => conn'[i].error

(* A connection that does nothing retains all. *)
LEMMA RetainedSame ==
    ASSUME NEW i \in Conn, conn'[i] = conn[i]
    PROVE  Retained(i)
  BY DEF Retained, TasksOf

(* A query of a user whose connections retain all. *)
LEMMA KnownKept ==
    ASSUME MysqlTypeOK, NEW u \in Users, NEW q, Known(u, q),
           owned'[u] = owned[u],
           user'[u] = "wait commit" => user[u] = "wait commit" \/ Pending(u)' = owned[u],
           stored \subseteq stored', refused \subseteq refused', undone \subseteq undone',
           \A i \in owned[u] : Retained(i)
    PROVE  Known(u, q)'
  <1>1. CASE q \in stored \union refused \union undone
    BY <1>1 DEF Known
  <1>2. CASE InError(u)
    BY <1>2 DEF Known, InError, Retained
  <1>3. ASSUME NEW i \in owned[u], Held(i, q), user[u] = "wait commit" => i \in Pending(u)
        PROVE  Known(u, q)'
    <2>1. i \in Conn /\ Retained(i)
      BY OwnedConn
    <2>2. user'[u] = "wait commit" => i \in Pending(u)'
      BY <1>3, <2>1 DEF Retained, Pending
    <2>3. Held(i, q)' \/ q \in stored' \union undone'
      BY <1>3, <2>1 DEF Retained, Held
    <2> QED BY <2>2, <2>3 DEF Known
  <1> QED BY <1>1, <1>2, <1>3 DEF Known

(* A query of a user when a connection has done a task, and the others     *)
(* nothing: what this connection held is still there, stored or reported.  *)
LEMMA KnownTask ==
    ASSUME MysqlTypeOK, NEW i \in Conn, NEW u \in Users, NEW q, Known(u, q),
           UNCHANGED <<user, owned>>,
           stored \subseteq stored', refused \subseteq refused', undone \subseteq undone',
           conn[i].error => conn'[i].error,
           \A j \in Conn : j # i => conn'[j] = conn[j],
           i \in owned[u] /\ Held(i, q) /\ (user[u] = "wait commit" => i \in Pending(u)) =>
              \/ q \in stored' \union refused' \union undone'
              \/ conn'[i].error
              \/ Held(i, q)' /\ (user[u] = "wait commit" => i \in Pending(u)')
    PROVE  Known(u, q)'
  <1>1. CASE q \in stored \union refused \union undone
    BY <1>1 DEF Known
  <1>2. CASE InError(u)
    <2>1. PICK j \in owned[u] : conn[j].error
      BY <1>2 DEF InError
    <2>2. j \in Conn /\ conn'[j].error
      BY <2>1, OwnedConn
    <2> QED BY <2>2 DEF Known, InError
  <1>3. ASSUME NEW j \in owned[u], Held(j, q), user[u] = "wait commit" => j \in Pending(u)
        PROVE  Known(u, q)'
    <2>1. CASE j = i
      BY <1>3, <2>1 DEF Known, InError
    <2>2. CASE j # i
      <3>1. j \in Conn /\ conn'[j] = conn[j]
        BY <2>2, OwnedConn
      <3>2. Held(j, q)' /\ (j \in Pending(u) => j \in Pending(u)')
        BY <1>3, <3>1 DEF Held, TasksOf, Pending
      <3> QED BY <1>3, <3>2 DEF Known
    <2> QED BY <2>1, <2>2
  <1> QED BY <1>1, <1>2, <1>3 DEF Known

(* Steps in which no user starts to rely on anything. *)
LEMMA TrackedKept ==
    ASSUME MysqlTypeOK, Tracked,
           UNCHANGED <<user, owned, base, issued>>,
           \A i \in Conn : conn'[i].txn # {} => conn'[i].need,
           \A v \in Users : Relies(v)' => Relies(v),
           \A v \in Users : \A n \in base[v] + 1 .. issued[v] :
              Relies(v)' /\ Known(v, <<v, n>>) => Known(v, <<v, n>>)'
    PROVE  Tracked'
  <1>1. \A u \in Users : user'[u] \in {"wait lock", "create", "update"} => base'[u] = issued'[u]
    BY DEF Tracked
  <1>2. ASSUME NEW u \in Users, Relies(u)', NEW n \in base'[u] + 1 .. issued'[u]
        PROVE  Known(u, <<u, n>>)'
    <2>1. n \in base[u] + 1 .. issued[u] /\ Known(u, <<u, n>>)
      BY <1>2 DEF Tracked
    <2> QED BY <1>2, <2>1
  <1> QED BY <1>1, <1>2 DEF Tracked

(* Steps of one user, as the others see them. *)
LEMMA TrackedOthers ==
    ASSUME MysqlTypeOK, Tracked, NEW u \in Users,
           UNCHANGED <<stored, refused, undone>>,
           \A i \in Conn : conn'[i].txn # {} => conn'[i].need,
           \A v \in Users : v # u =>
              /\ owned'[v] = owned[v] /\ user'[v] = user[v] /\ promise'[v] = promise[v]
              /\ base'[v] = base[v] /\ issued'[v] = issued[v]
              /\ \A i \in owned[v] : Retained(i),
           user'[u] \in {"wait lock", "create", "update"} => base'[u] = issued'[u],
           Relies(u)' => \A n \in base'[u] + 1 .. issued'[u] : Known(u, <<u, n>>)'
    PROVE  Tracked'
  <1>1. \A v \in Users : user'[v] \in {"wait lock", "create", "update"} => base'[v] = issued'[v]
    BY DEF Tracked
  <1>2. ASSUME NEW v \in Users, Relies(v)', NEW n \in base'[v] + 1 .. issued'[v]
        PROVE  Known(v, <<v, n>>)'
    <2>1. CASE v = u
      BY <1>2, <2>1
    <2>2. CASE v # u
      <3>1. Relies(v)
        BY <1>2, <2>2 DEF Relies
      <3>2. Known(v, <<v, n>>)
        BY <1>2, <2>2, <3>1 DEF Tracked
      <3> QED BY <2>2, <3>2, KnownKept
    <2> QED BY <2>1, <2>2
  <1> QED BY <1>1, <1>2 DEF Tracked

(* The counters of the queries of a user. *)
LEMMA SentNumbers ==
    ASSUME MysqlTypeOK, NEW u \in Users
    PROVE  issued[u] \in Nat /\ base[u] \in Nat
  <1>1. issued[u] \in 0 .. MaxQueries /\ base[u] \in 0 .. MaxQueries
    BY DEF MysqlTypeOK
  <1> QED BY <1>1, BoundsAssumption

(* The steps of a user that leave the connections alone: it relies on what *)
(* it has sent only after it has got an answer, or with a new mysql object *)
(* through which it has sent nothing.                                      *)
LEMMA UserTracked ==
    ASSUME MysqlTypeOK, Tracked, NEW u \in Users,
           Open(u) \/ Created(u) \/ ConnectionsUpdated(u) \/ HasResult(u) \/ Committed(u)
             \/ Release(u) \/ CheckErrors(u) \/ Close(u)
    PROVE  Tracked'
  <1>1. /\ UNCHANGED <<conn, stored, refused, undone, issued>>
        /\ \A v \in Users : v # u =>
              /\ owned'[v] = owned[v] /\ user'[v] = user[v] /\ promise'[v] = promise[v]
              /\ base'[v] = base[v]
    BY DEF Open, Created, ConnectionsUpdated, HasResult, Committed, Release, CheckErrors,
           Close, Go, MysqlTypeOK
  <1>2. \A i \in Conn : Retained(i)
    BY <1>1, RetainedSame
  <1>3. \A i \in Conn : conn'[i].txn # {} => conn'[i].need
    BY <1>1 DEF Tracked
  <1>4. user'[u] \in {"wait lock", "create", "update"} => base'[u] = issued'[u]
    BY <1>1 DEF Open, Created, ConnectionsUpdated, HasResult, Committed, Release, CheckErrors,
                Close, Go, MysqlTypeOK, Tracked
  <1>5. ASSUME Relies(u)', NEW n \in base'[u] + 1 .. issued'[u]
        PROVE  Known(u, <<u, n>>)'
    <2>1. CASE Open(u) \/ Created(u) \/ Release(u) \/ CheckErrors(u) \/ Close(u)
      <3>1. user'[u] \notin {"idle", "wait commit", "wait result"}
        BY <2>1 DEF Open, Created, Release, CheckErrors, Close, Go, MysqlTypeOK
      <3> QED BY <1>5, <3>1 DEF Relies
    <2>2. CASE ConnectionsUpdated(u)
      <3>1. user[u] = "update" /\ base'[u] = base[u]
        BY <1>5, <2>2 DEF ConnectionsUpdated, Go, MysqlTypeOK, Relies
      <3>2. base'[u] = issued'[u] /\ issued'[u] \in Nat
        <4>1. base[u] = issued[u]
          BY <3>1 DEF Tracked
        <4> QED BY <1>1, <3>1, <4>1, SentNumbers
      <3>3. n \in issued'[u] + 1 .. issued'[u]
        BY <1>5, <3>2
      <3> QED BY <3>2, <3>3
    <2>3. CASE HasResult(u) \/ Committed(u)
      <3>1. /\ owned'[u] = owned[u] /\ base'[u] = base[u] /\ Relies(u) /\ user'[u] = "idle"
        BY <1>5, <2>3 DEF HasResult, Committed, Go, MysqlTypeOK, Relies
      <3>2. Known(u, <<u, n>>)
        BY <1>1, <1>5, <3>1 DEF Tracked
      <3> QED BY <1>1, <1>2, <3>1, <3>2, KnownKept, OwnedConn
    <2> QED BY <2>1, <2>2, <2>3
  <1>6. \A v \in Users : \A i \in owned[v] : Retained(i)
    BY <1>2, OwnedConn
  <1> QED BY <1>1, <1>3, <1>4, <1>5, <1>6, TrackedOthers

(* get_connections: nothing has been sent yet through the new object.      *)
LEMMA GetTracked ==
    ASSUME MysqlTypeOK, Room, Tracked, NEW u \in Users, GetConnections(u)
    PROVE  Tracked'
  <1>1. PICK fresh \in SUBSET Conn :
           /\ fresh \intersect 1 .. made = {}
           /\ \A v \in Users : v # u => owned'[v] = owned[v] /\ user'[v] = user[v]
           /\ \A i \in fresh : conn'[i] = NewConn("connect")
           /\ \A i \in Conn \ fresh : conn'[i] = conn[i]
           /\ user[u] = "wait lock"
           /\ UNCHANGED <<promise, issued, base, stored, refused, undone>>
    BY GetFields
  <1>2. NewConn("connect").txn = {}
    BY DEF NewConn
  <1>3. \A i \in Conn : conn'[i].txn # {} => conn'[i].need
    BY <1>1, <1>2 DEF Tracked
  <1>4. \A v \in Users : \A i \in owned[v] : Retained(i)
    <2> SUFFICES ASSUME NEW v \in Users, NEW i \in owned[v] PROVE Retained(i)
      OBVIOUS
    <2>1. i \in Conn /\ i \in 1 .. made
      BY OwnedConn DEF MysqlTypeOK
    <2>2. conn'[i] = conn[i]
      BY <1>1, <2>1
    <2> QED BY <2>1, <2>2, RetainedSame
  <1>5. base'[u] = issued'[u] /\ issued'[u] \in Nat
    <2>1. base[u] = issued[u]
      BY <1>1 DEF Tracked
    <2> QED BY <1>1, <2>1, SentNumbers
  <1>6. \A n : n \notin base'[u] + 1 .. issued'[u]
    BY <1>5
  <1> QED BY <1>1, <1>3, <1>4, <1>5, <1>6, TrackedOthers

(* A list that has got one more task holds all it held. *)
LEMMA PushRetains ==
    ASSUME MysqlTypeOK, NEW i \in Conn, NEW t \in Tasks, Pushed(i, t)
    PROVE  Retained(i) /\ t \in TasksOf(i)'
  <1>1. conn[i].tasks \in Seq(Tasks)
    BY DEF MysqlTypeOK, Connection
  <1>2. ToSet(Append(conn[i].tasks, t)) = ToSet(conn[i].tasks) \union {t}
    BY <1>1, ToSetAppend
  <1> QED BY <1>2 DEF Pushed, Retained, TasksOf

(* run_query, run_query_and_get_result: the new query is in the list. *)
LEMMA RunTracked ==
    ASSUME MysqlTypeOK, Tracked, NEW u \in Users, RunQuery(u) \/ RunQueryAndGetResult(u)
    PROVE  Tracked'
  <1>1. PICK i \in Conn, t \in Tasks :
           /\ i \in owned[u] /\ Pushed(i, t) /\ \A j \in Conn : j # i => conn'[j] = conn[j]
           /\ t.id = <<u, issued[u] + 1>>
           /\ t.op = IF user'[u] = "idle" THEN "query" ELSE "result"
    BY RunFields
  <1>2. /\ UNCHANGED <<owned, base, stored, refused, undone>>
        /\ user[u] = "idle" /\ user'[u] \in {"idle", "wait result"}
        /\ issued'[u] = issued[u] + 1
        /\ \A v \in Users : v # u => /\ user'[v] = user[v] /\ promise'[v] = promise[v]
                                     /\ issued'[v] = issued[v]
    BY DEF RunQuery, RunQueryAndGetResult, Go, MysqlTypeOK
  <1>3. \A j \in Conn : Retained(j)
    BY <1>1, PushRetains, RetainedSame
  <1>4. \A v \in Users : \A j \in owned[v] : Retained(j)
    BY <1>3, OwnedConn
  <1>5. \A j \in Conn : conn'[j].txn # {} => conn'[j].need
    BY <1>1 DEF Tracked, Pushed
  <1>6. ASSUME NEW n \in base[u] + 1 .. issued[u] + 1 PROVE Known(u, <<u, n>>)'
    <2>1. n = issued[u] + 1 \/ n \in base[u] + 1 .. issued[u]
      <3>1. issued[u] \in Nat /\ base[u] \in Nat
        BY SentNumbers
      <3> QED BY <3>1
    <2>2. CASE n \in base[u] + 1 .. issued[u]
      <3>1. Known(u, <<u, n>>)
        BY <1>2, <2>2 DEF Tracked, Relies
      <3> QED BY <1>2, <1>4, <3>1, KnownKept
    <2>3. CASE n = issued[u] + 1
      <3>1. t \in TasksOf(i)' /\ t.op \in {"query", "result"} /\ t.id = <<u, n>>
        BY <1>1, <2>3, PushRetains
      <3>2. Held(i, <<u, n>>)'
        BY <3>1 DEF Held
      <3> QED BY <1>1, <1>2, <3>2 DEF Known
    <2> QED BY <2>1, <2>2, <2>3
  <1>7. \A n \in base'[u] + 1 .. issued'[u] : Known(u, <<u, n>>)'
    BY <1>2, <1>6
  <1> QED BY <1>2, <1>4, <1>5, <1>7, TrackedOthers

(* commit: it waits for every connection that may hold something. *)
LEMMA CommitTracked ==
    ASSUME MysqlTypeOK, Queues, Counted, Tracked, NEW u \in Users, Commit(u)
    PROVE  Tracked'
  <1>1. PICK t \in Tasks :
           /\ \A i \in owned[u] : Pushed(i, t)
           /\ \A i \in Conn \ owned[u] : conn'[i] = conn[i]
    BY CommitSent
  <1>2. /\ UNCHANGED <<owned, base, issued, stored, refused, undone>>
        /\ user[u] \in {"idle", "closing"}
        /\ user'[u] = IF user[u] = "idle" THEN "wait commit" ELSE "wait close"
        /\ \A v \in Users : v # u => user'[v] = user[v] /\ promise'[v] = promise[v]
    <2>1. UNCHANGED <<owned, base, issued, stored, refused, undone>> /\ user[u] \in {"idle", "closing"}
      BY DEF Commit
    <2>2. /\ user'[u] = IF user[u] = "idle" THEN "wait commit" ELSE "wait close"
          /\ \A v \in Users : v # u => user'[v] = user[v]
      BY DEF Commit, Go, MysqlTypeOK
    <2>3. \A v \in Users : v # u => promise'[v] = promise[v]
      BY DEF Commit, MysqlTypeOK
    <2> QED BY <2>1, <2>2, <2>3
  <1>3. \A j \in Conn : Retained(j)
    BY <1>1, PushRetains, RetainedSame
  <1>4. \A v \in Users : \A j \in owned[v] : Retained(j)
    BY <1>3, OwnedConn
  <1>5. \A j \in Conn : conn'[j].txn # {} => conn'[j].need
    BY <1>1 DEF Tracked, Pushed
  <1>6. Pending(u)' = owned[u]
    BY CommitQueues
  <1>7. ASSUME Relies(u)' PROVE \A n \in base'[u] + 1 .. issued'[u] : Known(u, <<u, n>>)'
    <2>1. user[u] = "idle" /\ user'[u] = "wait commit"
      BY <1>2, <1>7 DEF Relies
    <2>2. \A n \in base[u] + 1 .. issued[u] : Known(u, <<u, n>>)
      BY <2>1 DEF Tracked, Relies
    <2> QED BY <1>2, <1>4, <1>6, <2>2, KnownKept
  <1>8. user'[u] \notin {"wait lock", "create", "update"}
    BY <1>2
  <1> QED BY <1>2, <1>4, <1>5, <1>7, <1>8, TrackedOthers

(* The steps that touch no query: those of a connection nobody uses, and   *)
(* those that say what they undo, now or with the next commit.             *)
LEMMA PlainTracked ==
    ASSUME MysqlTypeOK, InUseRuns, Queues, Tracked,
           \/ \E u \in Users : UpdateConnections(u)
           \/ \E i \in Conn : Connect(i) \/ DeadLock(i) \/ StoreResultFails(i) \/ Finish(i)
           \/ ServerStops \/ ServerStarts
    PROVE  Tracked'
  <1>1. /\ UNCHANGED <<user, owned, promise, base, issued, stored, refused>>
        /\ undone \subseteq undone'
    BY DEF UpdateConnections, Connect, DeadLock, StoreResultFails, Finish, ServerStops,
           ServerStarts
  <1>2. ASSUME NEW i \in Conn
        PROVE  /\ conn'[i].txn # {} => conn'[i].need
               /\ Retained(i) \/ \A v \in Users : i \notin owned[v]
    <2>1. conn[i].txn # {} => conn[i].need
      BY DEF Tracked
    <2>2. CASE conn'[i] = conn[i]
      BY <2>1, <2>2, RetainedSame
    <2>3. CASE \E u \in Users : UpdateConnections(u)
      BY <2>1, <2>2, <2>3, UpdateFields DEF Unique
    <2>4. CASE Connect(i) \/ DeadLock(i)
      BY <2>1, <2>4, PlainFields DEF Retained, TasksOf
    <2>5. CASE Finish(i)
      <3>1. NewConn("ended").txn = {}
        BY DEF NewConn
      <3> QED BY <2>5, <3>1, FinishFields, FinishUnused
    <2>6. CASE ServerStops
      <3>1. CASE conn[i].txn = {}
        BY <2>2, <2>6, <3>1, ServerStopsFields DEF Retained, TasksOf
      <3>2. CASE conn[i].txn # {}
        BY <2>1, <2>2, <2>6, <3>2, ServerStopsFields DEF Retained, TasksOf
      <3> QED BY <3>1, <3>2
    <2>7. conn'[i] = conn[i] \/ (\E u \in Users : UpdateConnections(u)) \/ Connect(i)
          \/ DeadLock(i) \/ Finish(i) \/ ServerStops
      <3>1. ASSUME NEW j \in Conn, Connect(j) \/ DeadLock(j) \/ Finish(j), j # i
            PROVE  conn'[i] = conn[i]
        BY <3>1, PlainFields, FinishFields
      <3> QED BY <3>1 DEF StoreResultFails, ServerStarts
    <2> QED BY <2>2, <2>3, <2>4, <2>5, <2>6, <2>7
  <1>3. \A v \in Users : \A i \in owned[v] : Retained(i)
    BY <1>2, OwnedConn
  <1>4. \A v \in Users : Relies(v)' => Relies(v)
    BY <1>1 DEF Relies
  <1>5. \A v \in Users : \A n \in base[v] + 1 .. issued[v] :
           Known(v, <<v, n>>) => Known(v, <<v, n>>)'
    BY <1>1, <1>3, KnownKept
  <1> QED BY <1>1, <1>2, <1>4, <1>5, TrackedKept

(* A query that is done, refused or lost: it is in the transaction, or its *)
(* user is told, or it was not a fatal one.                                *)
LEMMA QueryTracked ==
    ASSUME MysqlTypeOK, Queues, Counted, Tracked, NEW i \in Conn,
           QueryDone(i) \/ QueryRefused(i) \/ QueryLost(i)
    PROVE  Tracked'
  <1>1. /\ UNCHANGED <<user, owned, base, issued, undone>>
        /\ stored \subseteq stored' /\ refused \subseteq refused'
    BY DEF QueryDone, QueryRefused, QueryLost
  <1>2. Working(i, {"query", "result"}) /\ Task(i) \in Tasks
        /\ Task(i).op \in {"query", "result"} /\ Task(i).id[1] \in Users
    <2>1. Working(i, {"query", "result"})
      BY DEF QueryDone, QueryRefused, QueryLost
    <2> QED BY <2>1, TaskType, TaskId
  <1>3. /\ \A j \in Conn : j # i => conn'[j] = conn[j]
        /\ conn[i].error => conn'[i].error
        /\ conn'[i].cut = conn[i].cut /\ (conn[i].need => conn'[i].need)
    BY QueryDoneFields, QueryFailedFields
  <1>4. \A j \in Conn : conn'[j].txn # {} => conn'[j].need
    <2>1. conn'[i].txn # {} => conn'[i].need
      BY QueryDoneFields, QueryFailedFields DEF Tracked
    <2> QED BY <1>3, <2>1 DEF Tracked
  <1>5. Task(i) \in TasksOf(i) /\ TasksOf(i) = {Task(i)} \union TasksOf(i)'
    BY QueryQueues
  <1>6. ASSUME Task(i).op = "result"
        PROVE  /\ user[Task(i).id[1]] = "wait result"
               /\ QueryDone(i) \/ promise'[Task(i).id[1]] = "exception"
    <2>1. Results(Task(i), Task(i).id[1])
      BY <1>6 DEF Results
    <2>2. user[Task(i).id[1]] = "wait result"
      BY <1>2, <1>5, <2>1 DEF Queues
    <2>3. promise \in [Users -> {"none", "unset", "value", "exception"}]
      BY DEF MysqlTypeOK
    <2> QED BY <1>2, <1>6, <2>2, <2>3 DEF QueryRefused, QueryLost, SetPromise
  <1>7. \A v \in Users : Relies(v)' => Relies(v)
    <2>1. \A v \in Users : Task(i).op = "query" \/ v # Task(i).id[1] => promise'[v] = promise[v]
      BY <1>2 DEF QueryDone, QueryRefused, QueryLost, SetPromise, MysqlTypeOK
    <2>2. ASSUME Task(i).op = "result" PROVE promise[Task(i).id[1]] = "unset"
      BY <1>2, <1>5, <2>2 DEF Queues, Results
    <2> QED BY <1>1, <1>2, <1>6, <2>1, <2>2 DEF Relies
  <1>8. ASSUME NEW v \in Users, NEW n \in base[v] + 1 .. issued[v],
               Relies(v)', Known(v, <<v, n>>)
        PROVE  Known(v, <<v, n>>)'
    <2>1. Pending(v)' = Pending(v)
      BY QueryQueues
    <2>2. PICK q : q = <<v, n>>
      OBVIOUS
    <2>3. ASSUME Held(i, q)
          PROVE  q \in stored' \union refused' \/ conn'[i].error \/ Held(i, q)'
      <3>1. ASSUME NEW t \in TasksOf(i), t.op \in {"query", "result"}, t.id = q, t = Task(i)
            PROVE  q \in stored' \union refused' \/ conn'[i].error \/ Held(i, q)'
        <4>1. CASE QueryDone(i)
          BY <3>1, <4>1, QueryDoneFields DEF Held
        <4>2. CASE QueryRefused(i) \/ QueryLost(i)
          <5>1. CASE t.op = "query"
            BY <3>1, <4>2, <5>1, QueryFailedFields
          <5>2. CASE t.op = "result" /\ ~QueryDone(i)
            <6>1. t.id[1] = v
              BY <2>2, <3>1
            <6>2. user[v] = "wait result" /\ promise'[v] = "exception"
              BY <1>6, <3>1, <5>2, <6>1
            <6> QED BY <1>1, <1>8, <6>2 DEF Relies
          <5> QED BY <3>1, <4>1, <5>1, <5>2
        <4> QED BY <4>1, <4>2
      <3>2. CASE \E t \in TasksOf(i)' : t.op \in {"query", "result"} /\ t.id = q
        BY <3>2 DEF Held
      <3>3. CASE q \in conn[i].txn
        <4>1. q \in conn'[i].txn \/ q \in stored'
          BY <3>3, QueryDoneFields, QueryFailedFields
        <4> QED BY <4>1 DEF Held
      <3>4. CASE conn[i].cut /\ conn[i].need
        BY <1>3, <3>4 DEF Held
      <3> QED BY <1>5, <2>3, <3>1, <3>2, <3>3, <3>4 DEF Held
    <2>4. Known(v, q)
      BY <1>8, <2>2
    <2>5. Known(v, q)'
      BY <1>1, <1>3, <2>1, <2>3, <2>4, KnownTask
    <2> QED BY <2>2, <2>5
  <1> QED BY <1>1, <1>4, <1>7, <1>8, TrackedKept

(* A connection answers a commit: what it held is stored, or it is in      *)
(* error.                                                                  *)
LEMMA AnswerTracked ==
    ASSUME MysqlTypeOK, Queues, Counted, Tracked, NEW i \in Conn, RunCommit(i)
    PROVE  Tracked'
  <1>1. /\ UNCHANGED <<user, owned, base, issued, refused, undone>>
        /\ stored' = stored \union conn[i].txn
    BY DEF RunCommit
  <1>2. /\ \A j \in Conn : j # i => conn'[j] = conn[j]
        /\ conn[i].error \/ (conn[i].need /\ conn[i].cut) => conn'[i].error
        /\ conn'[i].txn = {} /\ Task(i).id \in Users /\ Commits(Task(i), Task(i).id)
    BY CommitFields
  <1>3. \A j \in Conn : conn'[j].txn # {} => conn'[j].need
    BY <1>2 DEF Tracked
  <1>4. /\ TasksOf(i) = {Task(i)} \union TasksOf(i)'
        /\ \A v \in Users : Pending(v)' = IF v = Task(i).id THEN Pending(v) \ {i} ELSE Pending(v)
        /\ \A x \in TasksOf(i)' : ~SentBy(x, Task(i).id)
    BY AnswerQueues
  <1>5. user[Task(i).id] \in Committing
    <2>1. Task(i) \in TasksOf(i)
      BY <1>4
    <2> QED BY <1>2, <2>1 DEF Queues
  <1>6. \A v \in Users : Relies(v)' => Relies(v)
    <2>1. \A v \in Users : v # Task(i).id => promise'[v] = promise[v]
      BY DEF RunCommit, CountDown, MysqlTypeOK
    <2> QED BY <1>1, <1>2, <1>5, <2>1 DEF Relies, Committing
  <1>7. ASSUME NEW v \in Users, NEW n \in base[v] + 1 .. issued[v], Known(v, <<v, n>>)
        PROVE  Known(v, <<v, n>>)'
    <2>1. PICK q : q = <<v, n>>
      OBVIOUS
    <2>2. ASSUME Held(i, q)
          PROVE  \/ q \in stored' \/ conn'[i].error
                 \/ Held(i, q)' /\ Pending(v)' = Pending(v)
      <3>1. CASE \E t \in TasksOf(i) : t.op \in {"query", "result"} /\ t.id = q
        <4>1. PICK t \in TasksOf(i)' : t.op \in {"query", "result"} /\ t.id = q
          BY <1>2, <1>4, <3>1 DEF Commits
        <4>2. Queries(t, v)
          BY <2>1, <4>1 DEF Queries
        <4>3. v # Task(i).id
          BY <1>4, <4>2 DEF SentBy
        <4> QED BY <1>4, <4>1, <4>3 DEF Held
      <3>2. CASE q \in conn[i].txn
        BY <1>1, <3>2
      <3>3. CASE conn[i].cut /\ conn[i].need
        BY <1>2, <3>3
      <3> QED BY <2>2, <3>1, <3>2, <3>3 DEF Held
    <2>3. Known(v, q)
      BY <1>7, <2>1
    <2>4. Known(v, q)'
      BY <1>1, <1>2, <2>2, <2>3, KnownTask
    <2> QED BY <2>1, <2>4
  <1> QED BY <1>1, <1>3, <1>6, <1>7, TrackedKept

(* Every step keeps track of the queries. *)
LEMMA TrackedStep ==
    ASSUME MysqlTypeOK, Room, InUseRuns, Queues, Counted, Tracked, MysqlNext
    PROVE  Tracked'
  BY UserTracked, GetTracked, RunTracked, CommitTracked, PlainTracked, QueryTracked,
     AnswerTracked
     DEF MysqlNext, UserStep, UserCall, WorkerStep, Failure

-----------------------------------------------------------------------------
(* The invariant. *)

(* At first there is nothing. *)
LEMMA MysqlStart == MysqlInit => MysqlInd
  <1> SUFFICES ASSUME MysqlInit PROVE MysqlInd
    OBVIOUS
  <1>1. Count \in Nat /\ MaxConns \in Nat /\ MaxQueries \in Nat /\ MaxFailures \in Nat
    BY CountAssumption, BoundsAssumption
  <1>2. \A i \in Conn : conn[i] = NewConn("none")
    BY DEF MysqlInit
  <1>3. /\ NewConn("none") \in Connection /\ NewConn("none").tasks = <<>>
        /\ NewConn("none").txn = {}
    BY NewConnType DEF NewConn
  <1>4. MysqlTypeOK
    <2>1. conn \in [Conn -> Connection]
      BY <1>3 DEF MysqlInit
    <2>2. /\ owned \in [Users -> SUBSET (1 .. made)] /\ listed \subseteq 1 .. made
          /\ user \in [Users -> {"none", "wait lock", "create", "update", "idle", "wait commit",
                                 "wait result", "closing", "wait close", "release"}]
          /\ promise \in [Users -> {"none", "unset", "value", "exception"}]
          /\ lock \in Users \union {Nobody} /\ server \in {"up", "down"} /\ alive \in BOOLEAN
          /\ stored \subseteq Query /\ refused \subseteq Query /\ undone \subseteq Query
      BY DEF MysqlInit
    <2>3. 0 \in 0 .. MaxConns /\ 0 \in 0 .. Count /\ 0 \in 0 .. MaxQueries /\ 0 \in 0 .. MaxFailures
      BY <1>1
    <2>4. /\ made \in 0 .. MaxConns /\ ko \in [Users -> 0 .. Count]
          /\ issued \in [Users -> 0 .. MaxQueries] /\ base \in [Users -> 0 .. MaxQueries]
          /\ failures \in 0 .. MaxFailures
      BY <2>3 DEF MysqlInit
    <2> QED BY <2>1, <2>2, <2>4 DEF MysqlTypeOK
  <1>5. Cardinality({}) = 0
    BY FS_EmptySet
  <1>6. Room
    <2>1. Opening = {} /\ made = 0
      BY DEF Opening, MysqlInit
    <2> QED BY <1>1, <1>5, <2>1 DEF Room
  <1>7. Sized /\ InUseRuns
    BY <1>1, <1>5 DEF Sized, InUseRuns, MysqlInit
  <1>8. \A i \in Conn : conn[i].tasks = <<>> /\ TasksOf(i) = {} /\ conn[i].txn = {}
    BY <1>2, <1>3, ToSetEmpty DEF TasksOf
  <1>9. Queues
    BY <1>8, EmptyInOrder DEF Queues
  <1>10. Counted
    <2>1. \A u \in Users : Pending(u) = {} /\ ko[u] = 0
      BY <1>8 DEF Pending, MysqlInit
    <2> QED BY <1>5, <2>1 DEF Counted
  <1>11. Tracked
    BY <1>8 DEF Tracked, Relies, MysqlInit
  <1> QED BY <1>4, <1>6, <1>7, <1>9, <1>10, <1>11 DEF MysqlInd

(* Every step keeps the invariant. *)
LEMMA MysqlStep == MysqlInd /\ [MysqlNext]_mysqlVars => MysqlInd'
  <1> SUFFICES ASSUME MysqlInd, [MysqlNext]_mysqlVars PROVE MysqlInd'
    OBVIOUS
  <1>1. CASE MysqlNext
    BY <1>1, TypeStep, RoomStep, SizedStep, InUseStep, QueuesStep, TrackedStep DEF MysqlInd
  <1>2. CASE UNCHANGED mysqlVars
    <2>1. MysqlTypeOK' /\ Room' /\ Sized' /\ InUseRuns'
      BY <1>2 DEF mysqlVars, MysqlInd, MysqlTypeOK, Room, Opening, Sized, InUseRuns
    <2>2. /\ \A i \in Conn : TasksOf(i)' = TasksOf(i)
          /\ UNCHANGED <<user, owned, ko, promise, conn, base, issued, stored, refused, undone>>
      BY <1>2 DEF mysqlVars, TasksOf
    <2>3. \A u \in Users : Pending(u)' = Pending(u)
      BY <2>2 DEF Pending
    <2>4. Queues' /\ Counted'
      BY <2>2, <2>3 DEF MysqlInd, Queues, Counted
    <2>5. /\ \A u \in Users : Relies(u)' <=> Relies(u)
          /\ \A i \in Conn : conn'[i].txn # {} => conn'[i].need
      BY <2>2 DEF Relies, MysqlInd, Tracked
    <2>6. \A u \in Users : \A i \in owned[u] : Retained(i)
      BY <2>2, RetainedSame, OwnedConn DEF MysqlInd
    <2>7. \A u \in Users : \A n \in base[u] + 1 .. issued[u] :
             Known(u, <<u, n>>) => Known(u, <<u, n>>)'
      BY <2>2, <2>6, KnownKept DEF MysqlInd
    <2>8. Tracked'
      BY <2>2, <2>5, <2>7, TrackedKept DEF MysqlInd
    <2> QED BY <2>1, <2>4, <2>8 DEF MysqlInd
  <1> QED BY <1>1, <1>2

(* What the invariant means for those who use the connections. *)
LEMMA MysqlMeans == MysqlInd => MysqlInv
  <1> SUFFICES ASSUME MysqlInd PROVE MysqlInv
    OBVIOUS
  <1>1. MysqlTypeOK /\ InUseRuns /\ Queues /\ Tracked
    BY DEF MysqlInd
  <1>2. NoDanglingCommit
    <2> SUFFICES ASSUME NEW i \in Conn, NEW t \in TasksOf(i), t.op = "commit"
                 PROVE  user[t.id] \in {"wait commit", "wait close"} /\ promise[t.id] = "unset"
      BY DEF NoDanglingCommit, TasksOf
    <2>1. t \in Tasks
      <3>1. conn[i].tasks \in Seq(Tasks)
        BY <1>1 DEF MysqlTypeOK, Connection
      <3> QED BY <3>1, ToSetType DEF TasksOf
    <2>2. t.id \in Users /\ Commits(t, t.id)
      BY <2>1, TaskId DEF Commits
    <2> QED BY <1>1, <2>2 DEF Queues, Committing
  <1>3. StoredOrReported
    <2> SUFFICES ASSUME NEW u \in Users, user[u] = "wait commit", promise[u] = "value",
                        NEW n \in base[u] + 1 .. issued[u]
                 PROVE  <<u, n>> \in stored \union refused \union undone \/ InError(u)
      BY DEF StoredOrReported
    <2>1. Known(u, <<u, n>>)
      BY <1>1 DEF Tracked, Relies
    <2>2. Pending(u) = {}
      BY <1>1 DEF Pending, Queues
    <2> QED BY <2>1, <2>2 DEF Known
  <1> QED BY <1>1, <1>2, <1>3 DEF MysqlInv

(* Connections in use are not removed; a commit is answered once by each   *)
(* connection, to a promise that is still waited for; and what commit() has *)
(* returned from is stored or reported.                                    *)
THEOREM MysqlCorrect == MysqlSpec => []MysqlInv
  BY MysqlStart, MysqlStep, MysqlMeans, PTL DEF MysqlSpec

-----------------------------------------------------------------------------
(***************************************************************************)
(* The module of the monitoring engine (NebCallbacks), for any downtimes,  *)
(* numbers of acknowledgements, changes and restarts.                      *)
(*                                                                         *)
(* What its invariant lacks to be inductive: the parameters that the table *)
(* of the module holds are those of the last event; the acknowledgement    *)
(* whose end is not told yet is the one the module remembers; and the      *)
(* objects of the engine are closed under what they refer to.              *)
(***************************************************************************)
(* All but the empty groups.                                               *)
Needed(c) == c \ (Groups \ Members(c))
(* The part of the invariant about the objects.                            *)
ObjectsInd ==
    /\ registered \in BOOLEAN /\ applied \in BOOLEAN
    /\ applied => registered
    /\ undeclared = FALSE
    /\ conf \subseteq ObjectKinds /\ Closed(conf)
    /\ known \subseteq ObjectKinds
    /\ applied => Needed(conf) \subseteq known /\ known \subseteq conf

(* What the last event of a downtime says.                                 *)
Told(l) == [started |-> l.started,
            ended |-> l.started /\ l.at \in {"ended", "deleted"},
            cancelled |-> l.cancelled, deleted |-> l.at = "deleted"]
(* Where nothing is said of a downtime.                                    *)
NoDowntime == {none, "forgotten"}
(* What a stage says of the rest.                                          *)
Course(l) ==
    /\ l.at \in {none, "scheduled"} => l.started = FALSE /\ l.cancelled = FALSE
    /\ l.at = "active" => l.started = TRUE /\ l.cancelled = FALSE
    /\ l.at = "ended" => l.started = TRUE
    /\ l.at \in {"scheduled", "active", "ended"} => "service" \in conf
    /\ ~ registered => l.at \in {none, "forgotten", "scheduled"}
(* The part of the invariant about the downtimes.                          *)
DowntimesInd ==
    /\ params \in PartialParams /\ row \in PartialParams
    /\ kpi \in [acknowledged : BOOLEAN, downtimed : BOOLEAN]
    /\ life \in [Downtimes -> Life]
    /\ \A d \in Downtimes : Course(life[d])
    /\ applied =>
          \A d \in Downtimes :
             /\ life[d].at \notin NoDowntime => d \in DOMAIN row /\ row[d] = Told(life[d])
             /\ life[d].at \in {"scheduled", "active", "ended"}
                   => d \in DOMAIN params /\ params[d] = row[d]

Ends == {"live", "operator", "state", "replaced", "restart", "forgotten", "unheard"}
AckRows == [closed : BOOLEAN, end : Ends]
(* Row i is that of the acknowledgement of the engine, and a change of     *)
(* the status that does not end it leaves its end to be published.         *)
InForce(i) ==
    /\ applied = TRUE /\ registered = TRUE
    /\ acks # NoAck /\ acks.id = i
    /\ state # "ok" /\ acked # none
    /\ acked = "sticky" <=> acks.sticky = TRUE
    /\ acks.sticky = FALSE => state = acks.state
(* What AcksClosed says of a row, whatever is applied.                     *)
RowTrue(r) ==
    /\ r.end = "operator" => r.closed = TRUE
    /\ r.closed = TRUE => r.end \in {"operator", "forgotten"}
(* The part of the invariant about the acknowledgements.                   *)
AcksInd ==
    /\ acks \in [id : Nat, sticky : BOOLEAN, state : States]
    /\ ackRow \in Seq(AckRows) /\ Len(ackRow) <= MaxAcks
    /\ state \in States /\ acked \in {none, "normal", "sticky"}
    /\ acks = NoAck \/ acks.id \in DOMAIN ackRow
    /\ ~ registered => acks = NoAck
    /\ \A i \in DOMAIN ackRow : ackRow[i].end = "live" => InForce(i)
    /\ acks # NoAck /\ applied => ackRow[acks.id].end \in {"live", "forgotten"}
    /\ \A i \in DOMAIN ackRow : RowTrue(ackRow[i])

(* The inductive invariant.                                                *)
NebInd == ObjectsInd /\ DowntimesInd /\ AcksInd

(* What a callback leaves in a table. *)
LEMMA WithTable ==
    ASSUME NEW f \in PartialParams, NEW D \in SUBSET Downtimes, NEW p \in Params
    PROVE  /\ With(f, D, p) \in PartialParams
           /\ DOMAIN With(f, D, p) = DOMAIN f \cup D
           /\ \A e \in D : With(f, D, p)[e] = p
           /\ \A e \in DOMAIN f : e \notin D => With(f, D, p)[e] = f[e]
<1>1. PICK ds \in SUBSET Downtimes : f \in [ds -> Params]
  BY DEF PartialParams
<1>2. With(f, D, p) = [e \in ds \cup D |-> IF e \in D THEN p ELSE f[e]]
  BY <1>1 DEF With
<1>3. With(f, D, p) \in [ds \cup D -> Params]
  BY <1>1, <1>2
<1>4. ds \cup D \in SUBSET Downtimes
  OBVIOUS
<1>5. With(f, D, p) \in PartialParams
  BY <1>3, <1>4, Zenon DEF PartialParams
<1> QED
  BY <1>1, <1>2, <1>5

(* What erase() leaves. *)
LEMMA WithoutTable ==
    ASSUME NEW f \in PartialParams, NEW d
    PROVE  /\ Without(f, d) \in PartialParams
           /\ DOMAIN Without(f, d) = DOMAIN f \ {d}
           /\ \A e \in DOMAIN f : e # d => Without(f, d)[e] = f[e]
<1>1. PICK ds \in SUBSET Downtimes : f \in [ds -> Params]
  BY DEF PartialParams
<1>2. Without(f, d) = [e \in ds \ {d} |-> f[e]]
  BY <1>1 DEF Without
<1>3. Without(f, d) \in [ds \ {d} -> Params]
  BY <1>1, <1>2
<1>4. ds \ {d} \in SUBSET Downtimes
  OBVIOUS
<1>5. Without(f, d) \in PartialParams
  BY <1>3, <1>4, Zenon DEF PartialParams
<1> QED
  BY <1>1, <1>2, <1>5

(* The same for one downtime. *)
LEMMA WithOne ==
    ASSUME NEW f \in PartialParams, NEW d \in Downtimes, NEW p \in Params
    PROVE  /\ With(f, {d}, p) \in PartialParams
           /\ DOMAIN With(f, {d}, p) = DOMAIN f \cup {d}
           /\ With(f, {d}, p)[d] = p
           /\ \A e \in DOMAIN f : e # d => With(f, {d}, p)[e] = f[e]
<1>1. {d} \in SUBSET Downtimes
  OBVIOUS
<1>3. \A D \in SUBSET Downtimes :
         /\ With(f, D, p) \in PartialParams
         /\ DOMAIN With(f, D, p) = DOMAIN f \cup D
         /\ \A e \in D : With(f, D, p)[e] = p
         /\ \A e \in DOMAIN f : e \notin D => With(f, D, p)[e] = f[e]
  BY WithTable
<1>2. /\ With(f, {d}, p) \in PartialParams
      /\ DOMAIN With(f, {d}, p) = DOMAIN f \cup {d}
      /\ \A e \in {d} : With(f, {d}, p)[e] = p
      /\ \A e \in DOMAIN f : e \notin {d} => With(f, {d}, p)[e] = f[e]
  BY ONLY <1>1, <1>3, Zenon
<1> QED
  BY <1>2

(* A table starts empty. *)
LEMMA EmptyTable == <<>> \in PartialParams
<1>1. <<>> \in [{} -> Params]
  OBVIOUS
<1> QED
  BY <1>1 DEF PartialParams

(* What a table holds. *)
LEMMA TableMember ==
    ASSUME NEW f \in PartialParams, NEW d \in DOMAIN f
    PROVE  f[d] \in Params
  BY DEF PartialParams

(* When an acknowledgement ends, only the row in force changes. *)
LEMMA EndedRows ==
    ASSUME NEW rows \in Seq(AckRows), NEW why \in Ends, NEW new, new = Ended(rows, why)
    PROVE  /\ new \in Seq(AckRows) /\ Len(new) = Len(rows)
           /\ DOMAIN new = DOMAIN rows
           /\ \A i \in DOMAIN rows : new[i].closed = rows[i].closed
           /\ \A i \in DOMAIN rows : rows[i].end = "live" => new[i].end = why
           /\ \A i \in DOMAIN rows : rows[i].end # "live" => new[i].end = rows[i].end
<1>1. DOMAIN rows = 1 .. Len(rows) /\ Len(rows) \in Nat
  OBVIOUS
<1>2. \A i \in DOMAIN rows : rows[i] \in AckRows
  OBVIOUS
<1>3. \A i \in DOMAIN rows : rows[i].closed \in BOOLEAN /\ rows[i].end \in Ends
  BY <1>2 DEF AckRows
<1>4. \A i \in DOMAIN rows : StoredAck(rows[i].closed, why) \in AckRows
  BY <1>3 DEF AckRows, StoredAck
<1>5. new = [i \in 1 .. Len(rows) |-> IF rows[i].end = "live"
                           THEN StoredAck(rows[i].closed, why) ELSE rows[i]]
  BY <1>1 DEF Ended
<1>6. new \in [1 .. Len(rows) -> AckRows]
  BY <1>1, <1>2, <1>4, <1>5
<1>7. new \in Seq(AckRows) /\ Len(new) = Len(rows)
  BY <1>1, <1>6
<1>8. DOMAIN new = DOMAIN rows
  BY <1>1, <1>5
<1>9. ASSUME NEW i \in DOMAIN rows
      PROVE  /\ new[i].closed = rows[i].closed
             /\ rows[i].end = "live" => new[i].end = why
             /\ rows[i].end # "live" => new[i].end = rows[i].end
  <2>1. CASE rows[i].end = "live"
    <3>1. new[i] = StoredAck(rows[i].closed, why)
      BY <1>1, <1>5, <2>1
    <3> QED
      BY <2>1, <3>1 DEF StoredAck
  <2>2. CASE rows[i].end # "live"
    <3>1. new[i] = rows[i]
      BY <1>1, <1>5, <2>2
    <3> QED
      BY <2>2, <3>1
  <2> QED
    BY <2>1, <2>2
<1> QED
  BY <1>7, <1>8, <1>9

(* The ways an acknowledgement ends. *)
LEMMA EndsType ==
    /\ "live" \in Ends /\ "operator" \in Ends /\ "state" \in Ends
    /\ "replaced" \in Ends /\ "restart" \in Ends /\ "forgotten" \in Ends
    /\ "unheard" \in Ends
  BY DEF Ends

-----------------------------------------------------------------------------
(* Objects *)

(* What the objects of the engine refer to. *)
LEMMA RefsKnown ==
    /\ ObjectKinds = {"host", "service", "customvar", "parent", "hostgroup", "hostmember",
                "servicegroup", "servicemember", "hostdep", "servicedep", "module"}
    /\ Refs["host"] = {} /\ Refs["service"] = {"host"} /\ Refs["customvar"] = {"service"}
    /\ Refs["parent"] = {"host"} /\ Refs["hostgroup"] = {}
    /\ Refs["hostmember"] = {"host", "hostgroup"}
    /\ Refs["servicegroup"] = {}
    /\ Refs["servicemember"] = {"service", "servicegroup"}
    /\ Refs["hostdep"] = {"host"} /\ Refs["servicedep"] = {"service"}
    /\ Refs["module"] = {}
  BY DEF ObjectKinds, Refs

(* The order of the dump. *)
LEMMA DumpRanks ==
    /\ DumpOrder["host"] = 1 /\ DumpOrder["service"] = 2 /\ DumpOrder["customvar"] = 3
    /\ DumpOrder["parent"] = 4 /\ DumpOrder["hostgroup"] = 5
    /\ DumpOrder["hostmember"] = 6 /\ DumpOrder["servicegroup"] = 7
    /\ DumpOrder["servicemember"] = 8 /\ DumpOrder["hostdep"] = 9
    /\ DumpOrder["servicedep"] = 10 /\ DumpOrder["module"] = 11
  BY DEF DumpOrder

(* An event declares objects of the engine, its own at least. *)
LEMMA DeclaresOwn ==
    ASSUME NEW c, NEW k \in c, Closed(c)
    PROVE  /\ Declares(k, c) \subseteq c
           /\ k \in Needed(c) => k \in Declares(k, c)
           /\ \A g \in Refs[k] \cap Groups : g \in Declares(k, c)
  BY DEF Declares, Needed, Closed, Members

(* The dump declares every object but the empty groups, and nothing else. *)
LEMMA DumpDeclares ==
    ASSUME NEW c, Closed(c)
    PROVE  Needed(c) \subseteq Declared(c, c) /\ Declared(c, c) \subseteq c
<1>1. \A k \in c : Declares(k, c) \subseteq c
  BY DeclaresOwn
<1>2. \A k \in Needed(c) : k \in c /\ k \in Declares(k, c)
  BY DeclaresOwn DEF Needed
<1> QED
  BY <1>1, <1>2 DEF Declared

(* The dump names no object before it declares it. *)
LEMMA DumpNames ==
    ASSUME NEW c \in SUBSET ObjectKinds, Closed(c), NEW k \in c,
           NEW sent, sent = {j \in c : DumpOrder[j] < DumpOrder[k]}
    PROVE  ~ NamesUndeclared(k, Declared(sent, c))
<1>1. Refs[k] \subseteq c
  BY DEF Closed
<1>2. ASSUME NEW j \in Refs[k] \ Groups
      PROVE  j \in Declared(sent, c)
  <2>1. DumpOrder[j] < DumpOrder[k] /\ j \in {"host", "service"}
    <3>1. k \in ObjectKinds
      OBVIOUS
    <3> QED
      BY <3>1, RefsKnown, DumpRanks DEF Groups
  <2>2. j \in sent
    BY <1>1, <2>1
  <2>3. j \in Declares(j, c)
    BY <2>1 DEF Declares, Groups
  <2> QED
    BY <2>2, <2>3 DEF Declared
<1> QED
  BY <1>2 DEF NamesUndeclared

(* The engine starts with its objects, of which nobody has heard. *)
LEMMA ObjectsInit == NebInit => ObjectsInd
<1> SUFFICES ASSUME NebInit PROVE ObjectsInd
  OBVIOUS
<1>1. conf \subseteq ObjectKinds
  <2>1. conf \in {ObjectKinds, {"host", "service", "hostgroup"}, {"host"}}
    BY DEF NebInit
  <2> QED
    BY <2>1, RefsKnown
<1>2. Closed(conf)
  <2>1. conf \in {ObjectKinds, {"host", "service", "hostgroup"}, {"host"}}
    BY DEF NebInit
  <2>2. \A k \in ObjectKinds : Refs[k] \subseteq ObjectKinds
    BY RefsKnown
  <2>3. Refs["host"] = {} /\ Refs["service"] = {"host"} /\ Refs["hostgroup"] = {}
    BY RefsKnown
  <2> QED
    BY <2>1, <2>2, <2>3 DEF Closed
<1> QED
  BY <1>1, <1>2 DEF NebInit, ObjectsInd

(* What an event of a host or a service names is declared. *)
LEMMA ServiceKnown ==
    ASSUME ObjectsInd, applied, NEW k \in conf, k \in {"host", "service"}
    PROVE  k \in known
  BY DEF ObjectsInd, Needed, Groups

(* callback_process dumps the configuration. *)
LEMMA ObjectsStart == ObjectsInd /\ EventLoopStart => ObjectsInd'
<1> SUFFICES ASSUME ObjectsInd, EventLoopStart PROVE ObjectsInd'
  OBVIOUS
<1>1. /\ registered' = TRUE /\ applied' = TRUE /\ conf' = conf
      /\ known' = Declared(conf, conf)
  BY DEF EventLoopStart, SendInitialConfiguration, engineVars
<1>2. undeclared' = FALSE
  <2>1. \A k \in conf : ~ NamesUndeclared(k, Declared({j \in conf : DumpOrder[j] < DumpOrder[k]}, conf))
    BY DumpNames DEF ObjectsInd
  <2> QED
    BY <2>1 DEF EventLoopStart, SendInitialConfiguration, ObjectsInd
<1>3. Needed(conf) \subseteq known' /\ known' \subseteq conf
  BY <1>1, DumpDeclares DEF ObjectsInd
<1> QED
  BY <1>1, <1>2, <1>3 DEF ObjectsInd, Closed, Needed, Members

(* An object is added after those it refers to. *)
LEMMA ObjectsAdded ==
    ASSUME ObjectsInd, NEW k \in ObjectKinds, ObjectAdded(k)
    PROVE  ObjectsInd'
<1>1. /\ registered' = registered /\ applied' = applied
      /\ k \notin conf /\ Refs[k] \subseteq conf /\ conf' = conf \cup {k}
      /\ registered /\ applied => known' = known \cup Declares(k, conf')
      /\ ~ (registered /\ applied) => known' = known
  BY DEF ObjectAdded, moduleVars
<1>2. Closed(conf')
  BY <1>1 DEF Closed, ObjectsInd
<1>3. applied => undeclared' = FALSE
  <2> SUFFICES ASSUME applied PROVE undeclared' = FALSE
    OBVIOUS
  <2>1. Refs[k] \ Groups \subseteq known
    BY <1>1 DEF ObjectsInd, Needed
  <2> QED
    BY <2>1 DEF ObjectAdded, NamesUndeclared, ObjectsInd
<1>4. ~ applied => undeclared' = FALSE
  BY DEF ObjectAdded, ObjectsInd
<1>5. ASSUME applied
      PROVE  Needed(conf') \subseteq known' /\ known' \subseteq conf'
  <2>1. known' = known \cup Declares(k, conf')
    BY <1>1, <1>5 DEF ObjectsInd
  <2>2. Declares(k, conf') \subseteq conf'
    BY <1>1, <1>2 DEF Declares, Closed
  <2>3. k \in Needed(conf') => k \in Declares(k, conf')
    BY DEF Declares, Needed
  <2>4. ASSUME NEW g \in Needed(conf'), g # k
        PROVE  g \in known'
    <3>1. CASE g \in Needed(conf)
      BY <1>5, <2>1, <3>1 DEF ObjectsInd
    <3>2. CASE g \notin Needed(conf)
      <4>1. g \in conf /\ g \in Groups /\ g \notin Members(conf) /\ g \in Members(conf')
        BY <1>1, <2>4, <3>2 DEF Needed
      <4>2. g \in Refs[k]
        BY <1>1, <4>1 DEF Members
      <4> QED
        BY <2>1, <4>1, <4>2 DEF Declares
    <3> QED
      BY <3>1, <3>2
  <2> QED
    BY <1>1, <1>5, <2>1, <2>2, <2>3, <2>4 DEF ObjectsInd
<1>6. known' \subseteq ObjectKinds
  <2>1. conf' \subseteq ObjectKinds
    BY <1>1 DEF ObjectsInd
  <2> QED
    BY <1>1, <1>5, <2>1 DEF ObjectsInd
<1> QED
  BY <1>1, <1>2, <1>3, <1>4, <1>5, <1>6 DEF ObjectsInd

(* An object is deleted after those that refer to it. *)
LEMMA ObjectsDeleted ==
    ASSUME ObjectsInd, NEW k \in ObjectKinds, ObjectDeleted(k)
    PROVE  ObjectsInd'
<1>1. /\ registered' = registered /\ applied' = applied /\ undeclared' = undeclared
      /\ k \in conf /\ Closed(conf \ {k}) /\ conf' = conf \ {k}
      /\ registered /\ applied => known' = known \ {k}
      /\ ~ (registered /\ applied) => known' = known
  BY DEF ObjectDeleted, moduleVars
<1>2. Needed(conf') \subseteq Needed(conf)
  BY <1>1 DEF Needed, Members
<1>3. k \notin Needed(conf')
  BY <1>1 DEF Needed
<1>4. Closed(conf')
  BY <1>1
<1> QED
  BY <1>1, <1>2, <1>3, <1>4 DEF ObjectsInd

(* The kinds of objects. *)
LEMMA ObjectsAllowed == \A k \in {"host", "service", "customvar", "parent", "hostgroup",
        "servicegroup", "hostmember", "servicemember", "hostdep", "servicedep", "module"} :
            k \in ObjectKinds
  BY RefsKnown

ObjectStep ==
    \/ CallbackHost \/ CallbackService \/ CallbackCustomVariable
    \/ CallbackRelation \/ CallbackGroup \/ CallbackGroupMember
    \/ CallbackDependency \/ CallbackModule

(* The callbacks of objects add one or delete one. *)
LEMMA ObjectSteps ==
    ASSUME ObjectStep
    PROVE  \E k \in ObjectKinds : ObjectAdded(k) \/ ObjectDeleted(k)
<1>1. PICK k \in {"host", "service", "customvar", "parent", "hostgroup",
        "servicegroup", "hostmember", "servicemember", "hostdep", "servicedep", "module"} :
            ObjectChanged(k)
  BY DEF ObjectStep, CallbackHost, CallbackService, CallbackCustomVariable, CallbackRelation,
         CallbackGroup, CallbackGroupMember, CallbackDependency, CallbackModule, Groups
<1>2. k \in ObjectKinds
  BY ObjectsAllowed
<1> QED
  BY <1>1, <1>2 DEF ObjectChanged

TellStep ==
    \/ CallbackHostCheck \/ CallbackServiceCheck \/ CallbackComment
    \/ CallbackEventHandler \/ CallbackFlappingStatus \/ CallbackExternalCommand

(* The callbacks without memory are about a host or a service. *)
LEMMA TellSteps ==
    ASSUME TellStep
    PROVE  \E k \in {"host", "service"} : Tells(k)
  BY DEF TellStep, CallbackHostCheck, CallbackServiceCheck, CallbackComment,
         CallbackEventHandler, CallbackFlappingStatus, CallbackExternalCommand

DowntimeMove(d) ==
    \/ DowntimeAdded(d) \/ DowntimeStarted(d) \/ DowntimeDeleted(d)
    \/ \E cancel \in BOOLEAN : DowntimeStopped(d, cancel)

AckMove ==
    \/ \E sticky \in BOOLEAN : Acknowledge(sticky)
    \/ \E s \in States : StateChanged(s)
    \/ AckRemoved

(* The next-state relation by what a step is about. *)
LEMMA NebSteps ==
    ASSUME NebNext
    PROVE  \/ EventLoopStart \/ EventLoopStartFails \/ EngineRestart
           \/ ObjectStep \/ TellStep \/ AckMove
           \/ \E d \in Downtimes : DowntimeMove(d)
  BY DEF NebNext, ObjectStep, TellStep, AckMove, DowntimeMove

(* A callback about a declared object names nothing else. *)
LEMMA ObjectsTold ==
    ASSUME ObjectsInd, NEW k \in {"host", "service"}, k \in conf,
           undeclared' = (undeclared \/ (applied /\ k \notin known))
    PROVE  undeclared' = FALSE
<1>1. applied => k \in known
  BY ServiceKnown
<1> QED
  BY <1>1 DEF ObjectsInd

(* Steps that leave the objects alone. *)
LEMMA ObjectsQuiet ==
    ASSUME ObjectsInd, registered' = registered, applied' = applied,
           undeclared' = FALSE, conf' = conf, known' = known
    PROVE  ObjectsInd'
  BY DEF ObjectsInd, Closed, Needed, Members

(* What a callback of a downtime leaves alone. *)
LEMMA DowntimeQuiet ==
    ASSUME ObjectsInd, NEW d \in Downtimes, DowntimeMove(d)
    PROVE  /\ registered' = registered /\ registered
           /\ UNCHANGED <<applied, acks, known, ackRow, conf, state, acked>>
           /\ undeclared' = FALSE
<1>1. registered' = registered /\ registered
      /\ UNCHANGED <<applied, acks, known, ackRow, conf, state, acked>>
  BY DEF DowntimeMove, DowntimeAdded, DowntimeStarted, DowntimeDeleted, DowntimeStopped, DowntimeStep
<1>2. PICK p : CallbackDowntime(d, p)
  BY DEF DowntimeMove, DowntimeAdded, DowntimeStarted, DowntimeDeleted, DowntimeStopped
<1>3. CASE "service" \in conf
  <2>1. undeclared' = (undeclared \/ (applied /\ "service" \notin known))
    BY <1>1, <1>2, <1>3 DEF CallbackDowntime
  <2>2. applied => "service" \in known
    BY <1>3, ServiceKnown
  <2>3. undeclared' = FALSE
    BY <2>1, <2>2 DEF ObjectsInd
  <2> QED
    BY <1>1, <2>3
<1>4. CASE "service" \notin conf
  <2>1. undeclared' = undeclared
    BY <1>2, <1>4 DEF CallbackDowntime
  <2> QED
    BY <1>1, <2>1 DEF ObjectsInd
<1> QED
  BY <1>1, <1>3, <1>4

(* What an acknowledgement or its end leaves alone. *)
LEMMA AckQuiet ==
    ASSUME ObjectsInd, AckMove
    PROVE  /\ registered' = registered /\ registered /\ "service" \in conf
           /\ UNCHANGED <<applied, params, known, row, conf, life>>
           /\ undeclared' = FALSE
<1>1. /\ registered' = registered /\ registered /\ "service" \in conf
      /\ UNCHANGED <<applied, params, known, row, conf, life>>
      /\ undeclared' = (undeclared \/ (applied /\ "service" \notin known))
  BY DEF AckMove, Acknowledge, StateChanged, AckRemoved, CallbackServiceStatus
<1> QED
  BY <1>1, ObjectsTold

(* Objects are declared before they are named. *)
LEMMA ObjectsInductive == ObjectsInd /\ [NebNext]_nebVars => ObjectsInd'
<1> SUFFICES ASSUME ObjectsInd, [NebNext]_nebVars PROVE ObjectsInd'
  OBVIOUS
<1>1. CASE EventLoopStart
  BY <1>1, ObjectsStart
<1>2. CASE EventLoopStartFails
  <2>1. UNCHANGED <<applied, undeclared, conf, known>> /\ registered' = TRUE
    BY <1>2 DEF EventLoopStartFails, readerVars, readerVarsButAcks, engineVars
  <2> QED
    BY <2>1 DEF ObjectsInd, Closed, Needed, Members
<1>3. CASE EngineRestart
  <2>1. UNCHANGED <<undeclared, conf, known>> /\ registered' = FALSE /\ applied' = FALSE
    BY <1>3 DEF EngineRestart, readerVarsButAcks
  <2> QED
    BY <2>1 DEF ObjectsInd, Closed, Needed, Members
<1>4. CASE ObjectStep
  BY <1>4, ObjectSteps, ObjectsAdded, ObjectsDeleted
<1>5. CASE TellStep
  <2>1. PICK k \in {"host", "service"} : Tells(k)
    BY <1>5, TellSteps
  <2>2. undeclared' = FALSE
    BY <2>1, ObjectsTold DEF Tells
  <2>3. UNCHANGED <<registered, applied, conf, known>>
    BY <2>1 DEF Tells, moduleVars, engineVars
  <2> QED
    BY <2>2, <2>3, ObjectsQuiet
<1>6. CASE AckMove
  BY <1>6, AckQuiet, ObjectsQuiet
<1>7. ASSUME NEW d \in Downtimes, DowntimeMove(d)
      PROVE  ObjectsInd'
  BY <1>7, DowntimeQuiet, ObjectsQuiet
<1>8. CASE UNCHANGED nebVars
  <2>1. UNCHANGED <<registered, applied, undeclared, conf, known>>
    BY <1>8 DEF nebVars, moduleVars, readerVars, readerVarsButAcks, engineVars
  <2> QED
    BY <2>1, ObjectsQuiet DEF ObjectsInd
<1> QED
  BY <1>1, <1>2, <1>3, <1>4, <1>5, <1>6, <1>7, <1>8, NebSteps

-----------------------------------------------------------------------------
(* Downtimes *)

(* The stages of a downtime under way.                                     *)
Ahead == {"scheduled", "active", "ended"}
Followed(l, d) ==
    /\ l.at \notin NoDowntime => d \in DOMAIN row /\ row[d] = Told(l)
    /\ l.at \in Ahead => d \in DOMAIN params /\ params[d] = row[d]

(* private_downtime_params of a new entry. *)
LEMMA FreshType == Fresh \in Params /\ Fresh.started = FALSE /\ Fresh.ended = FALSE
                     /\ Fresh.cancelled = FALSE /\ Fresh.deleted = FALSE
  BY DEF Fresh, Params

(* The stages of a downtime. *)
LEMMA StagesDiffer ==
    /\ none # "scheduled" /\ none # "active" /\ none # "ended" /\ none # "deleted"
    /\ none # "forgotten"
    /\ none \in Stage /\ "scheduled" \in Stage /\ "active" \in Stage /\ "ended" \in Stage
    /\ "deleted" \in Stage /\ "forgotten" \in Stage
  BY DEF none, Stage

(* The fields of a downtime. *)
LEMMA InStageIs ==
    ASSUME NEW at \in Stage, NEW s \in BOOLEAN, NEW c \in BOOLEAN, NEW l, l = InStage(at, s, c)
    PROVE  l \in Life /\ l.at = at /\ (l.started <=> s) /\ (l.cancelled <=> c)
  BY DEF InStage, Life

(* The fields of a downtime that has not started. *)
LEMMA NotStartedIs ==
    ASSUME NEW at \in Stage
    PROVE  /\ NotStarted(at) \in Life /\ NotStarted(at).at = at
           /\ NotStarted(at).started = FALSE /\ NotStarted(at).cancelled = FALSE
  BY DEF NotStarted, InStage, Life

(* Parameters are equal when their fields are. *)
LEMMA ParamsEqual ==
    ASSUME NEW p \in Params, NEW q \in Params,
           p.started = q.started, p.ended = q.ended,
           p.cancelled = q.cancelled, p.deleted = q.deleted
    PROVE  p = q
  BY DEF Params

(* The fields of the event that tells where a downtime is. *)
LEMMA ToldIs ==
    ASSUME NEW l \in Life, NEW t, t = Told(l)
    PROVE  /\ t \in Params
           /\ t.started <=> l.started
           /\ t.ended <=> l.started /\ l.at \in {"ended", "deleted"}
           /\ t.cancelled <=> l.cancelled
           /\ t.deleted <=> l.at = "deleted"
  BY DEF Told, Life, Params

(* One callback of downtime d whose life becomes l and whose event is p. *)
LEMMA DowntimeOne ==
    ASSUME ObjectsInd, DowntimesInd, NEW d \in Downtimes, NEW l \in Life, NEW p \in Params,
           UNCHANGED <<registered, applied, conf>>, registered, "service" \in conf,
           life' = [life EXCEPT ![d] = l],
           CallbackDowntime(d, p),
           Course(l),
           applied => p = Told(l)
    PROVE  DowntimesInd'
<1>0. {d} \in SUBSET Downtimes /\ params \in PartialParams /\ row \in PartialParams
  BY DEF DowntimesInd
<1> DEFINE W(f) == With(f, {d}, p)
<1>w. /\ W(params) \in PartialParams
      /\ DOMAIN W(params) = DOMAIN params \cup {d}
      /\ W(params)[d] = p
      /\ \A e \in DOMAIN params : e # d => W(params)[e] = params[e]
  BY <1>0, WithOne
<1>x. /\ W(row) \in PartialParams
      /\ DOMAIN W(row) = DOMAIN row \cup {d}
      /\ W(row)[d] = p
      /\ \A e \in DOMAIN row : e # d => W(row)[e] = row[e]
  BY <1>0, WithOne
<1>y. /\ Without(params, d) \in PartialParams
      /\ DOMAIN Without(params, d) = DOMAIN params \ {d}
      /\ \A e \in DOMAIN params : e # d => Without(params, d)[e] = params[e]
  BY <1>0, WithoutTable
<1>1. params' = IF p.deleted THEN Without(params, d) ELSE With(params, {d}, p)
  BY DEF CallbackDowntime
<1>2. row' = IF applied THEN With(row, {d}, p) ELSE row
  BY DEF CallbackDowntime
<1>3. kpi' \in [acknowledged : BOOLEAN, downtimed : BOOLEAN]
  BY DEF CallbackDowntime, KpiDowntime, DowntimesInd, Params
<1>4. params' \in PartialParams /\ row' \in PartialParams
  <2>1. CASE p.deleted
    BY <1>0, <1>1, <1>2, <2>1, <1>x, <1>y
  <2>2. CASE ~ p.deleted
    BY <1>0, <1>1, <1>2, <2>2, <1>w, <1>x
  <2> QED
    BY <2>1, <2>2
<1>5. life' \in [Downtimes -> Life] /\ life'[d] = l
      /\ \A e \in Downtimes \ {d} : life'[e] = life[e]
  BY DEF DowntimesInd
<1>6. \A e \in Downtimes : Course(life[e])'
  BY <1>5 DEF DowntimesInd, Course
<1>7. ASSUME applied, NEW e \in Downtimes
      PROVE  Followed(life[e], e)'
  <2>1. row' = With(row, {d}, p) /\ row \in PartialParams /\ params \in PartialParams
    BY <1>2, <1>7 DEF DowntimesInd
  <2>2. DOMAIN row' = DOMAIN row \cup {d} /\ row'[d] = p
        /\ \A x \in DOMAIN row \ {d} : row'[x] = row[x]
    BY <2>1, <1>x
  <2>3. CASE e = d
    <3>1. row'[d] = Told(l)
      BY <1>7, <2>2
    <3>2. l.at \in Ahead => d \in DOMAIN params' /\ params'[d] = p
      <4> SUFFICES ASSUME l.at \in Ahead PROVE d \in DOMAIN params' /\ params'[d] = p
        OBVIOUS
      <4>2. p = Told(l) /\ l.at # "deleted"
        BY <1>7 DEF Ahead
      <4>3. ~ p.deleted
        BY <4>2, ToldIs
      <4>1. params' = With(params, {d}, p)
        BY <1>1, <4>3
      <4> QED
        BY <4>1, <1>w
    <3>3. (row'[d] = Told(life'[d])) /\ d \in DOMAIN row'
      BY <1>5, <2>2, <3>1
    <3>4. life'[d].at \in Ahead => d \in DOMAIN params' /\ params'[d] = row'[d]
      BY <1>5, <2>2, <3>2
    <3> QED
      BY <2>3, <3>3, <3>4 DEF Followed
  <2>4. CASE e # d
    <3>1. life'[e] = life[e]
      BY <1>5, <2>4
    <3>2. Followed(life[e], e)
      BY <1>7 DEF DowntimesInd, Followed, Ahead
    <3>3. e \in DOMAIN params => e \in DOMAIN params' /\ params'[e] = params[e]
      <4>1. CASE p.deleted
        <5>1. params' = Without(params, d)
          BY <1>1, <4>1
        <5> QED
          BY <2>4, <5>1, <1>y
      <4>2. CASE ~ p.deleted
        <5>1. params' = With(params, {d}, p)
          BY <1>1, <4>2
        <5> QED
          BY <2>4, <5>1, <1>w
      <4> QED
        BY <4>1, <4>2
    <3>4. e \in DOMAIN row => e \in DOMAIN row' /\ row'[e] = row[e]
      BY <2>2, <2>4
    <3>5. life'[e].at \notin NoDowntime => e \in DOMAIN row' /\ row'[e] = Told(life'[e])
      BY <3>1, <3>2, <3>4 DEF Followed
    <3>6. life'[e].at \in Ahead => e \in DOMAIN params' /\ params'[e] = row'[e]
      <4>1. life[e].at \in Ahead => e \in DOMAIN row
        BY <3>2, StagesDiffer DEF Followed, NoDowntime, Ahead
      <4> QED
        BY <3>1, <3>2, <3>3, <3>4, <4>1 DEF Followed
    <3> QED
      BY <3>5, <3>6 DEF Followed
  <2> QED
    BY <2>3, <2>4
<1> QED
  BY <1>3, <1>4, <1>5, <1>6, <1>7 DEF DowntimesInd, Followed, Ahead

(* No downtime at first. *)
LEMMA DowntimesInit == NebInit => DowntimesInd
<1> SUFFICES ASSUME NebInit PROVE DowntimesInd
  OBVIOUS
<1>1. params \in PartialParams /\ row \in PartialParams
  BY EmptyTable DEF NebInit
<1>2. \A d \in Downtimes : life[d] = NotStarted(none)
  BY DEF NebInit
<1>3. \A d \in Downtimes : /\ life[d] \in Life /\ life[d].at = none
                            /\ life[d].started = FALSE /\ life[d].cancelled = FALSE
  BY <1>2, NotStartedIs, StagesDiffer
<1>4. life \in [Downtimes -> Life]
  <2>1. life = [d \in Downtimes |-> NotStarted(none)]
    BY DEF NebInit
  <2> QED
    BY <1>3, <2>1
<1>5. \A d \in Downtimes : Course(life[d])
  BY <1>3, StagesDiffer DEF Course
<1>6. applied = FALSE /\ kpi \in [acknowledged : BOOLEAN, downtimed : BOOLEAN]
  BY DEF NebInit
<1> QED
  BY <1>1, <1>4, <1>5, <1>6 DEF DowntimesInd

(* operator[] of the table. *)
LEMMA EntryType ==
    ASSUME DowntimesInd, NEW d \in Downtimes
    PROVE  Entry(d) \in Params
  BY TableMember, FreshType DEF Entry, DowntimesInd

(* The entry of a downtime under way tells where it is. *)
LEMMA EntryTold ==
    ASSUME DowntimesInd, applied, NEW d \in Downtimes, life[d].at \in Ahead
    PROVE  /\ Entry(d).started <=> life[d].started
           /\ Entry(d).ended <=> life[d].at = "ended"
           /\ Entry(d).cancelled <=> life[d].cancelled
           /\ Entry(d).deleted = FALSE
<1>1. d \in DOMAIN params /\ params[d] = row[d]
  BY DEF DowntimesInd, Ahead
<1>2. life[d].at \notin NoDowntime
  BY StagesDiffer DEF Ahead, NoDowntime
<1>3. row[d] = Told(life[d])
  BY <1>2 DEF DowntimesInd
<1>4. Entry(d) = Told(life[d])
  BY <1>1, <1>3 DEF Entry
<1>5. life[d] \in Life /\ Course(life[d])
  BY DEF DowntimesInd
<1>6. PICK t : t = Told(life[d])
  OBVIOUS
<1>7. /\ t \in Params
      /\ t.started <=> life[d].started
      /\ t.ended <=> life[d].started /\ life[d].at \in {"ended", "deleted"}
      /\ t.cancelled <=> life[d].cancelled
      /\ t.deleted <=> life[d].at = "deleted"
  BY <1>5, <1>6, ToldIs
<1>8. (life[d].at = "ended" => life[d].started) /\ life[d].at # "deleted"
  BY <1>5 DEF Course, Ahead
<1> QED
  BY <1>4, <1>6, <1>7, <1>8 DEF Params


(* NEBTYPE_DOWNTIME_ADD. *)
LEMMA DowntimeAddedStep ==
    ASSUME ObjectsInd, DowntimesInd, NEW d \in Downtimes, DowntimeAdded(d)
    PROVE  DowntimesInd'
<1>1. UNCHANGED <<registered, applied, conf>> /\ registered
  BY DEF DowntimeAdded, DowntimeStep
<1>2. life[d] \in Life /\ Course(life[d]) /\ life[d].at = none
  BY DEF DowntimeAdded, DowntimesInd
<1>3. life[d].started = FALSE /\ life[d].cancelled = FALSE
  BY <1>2 DEF Course
<1>4. PICK l : l = InStage("scheduled", life[d].started, life[d].cancelled)
  OBVIOUS
<1>5. l \in Life /\ l.at = "scheduled" /\ l.started = FALSE /\ l.cancelled = FALSE
  BY <1>3, <1>4, StagesDiffer DEF InStage, Life
<1>6. life' = [life EXCEPT ![d] = l] /\ "service" \in conf
  BY <1>2, <1>4 DEF DowntimeAdded, DowntimesInd
<1>7. CallbackDowntime(d, Fresh)
  BY DEF DowntimeAdded
<1>8. Course(l)
  BY <1>1, <1>5, <1>6, StagesDiffer DEF Course
<1>9. Fresh = Told(l)
  BY <1>5, FreshType, ToldIs, ParamsEqual DEF Params
<1> QED
  BY <1>1, <1>5, <1>6, <1>7, <1>8, <1>9, FreshType, DowntimeOne

(* NEBTYPE_DOWNTIME_START. *)
LEMMA DowntimeStartedStep ==
    ASSUME ObjectsInd, DowntimesInd, NEW d \in Downtimes, DowntimeStarted(d)
    PROVE  DowntimesInd'
<1>1. UNCHANGED <<registered, applied, conf>> /\ registered
  BY DEF DowntimeStarted, DowntimeStep
<1>2. life[d] \in Life /\ Course(life[d]) /\ life[d].at = "scheduled"
  BY DEF DowntimeStarted, DowntimesInd
<1>3. life[d].started = FALSE /\ life[d].cancelled = FALSE /\ "service" \in conf
  BY <1>2 DEF Course
<1>4. PICK l : l = InStage("active", TRUE, life[d].cancelled)
  OBVIOUS
<1>5. l \in Life /\ l.at = "active" /\ l.started = TRUE /\ l.cancelled = FALSE
  BY <1>3, <1>4, StagesDiffer DEF InStage, Life
<1>6. life' = [life EXCEPT ![d] = l]
  BY <1>2, <1>4 DEF DowntimeStarted, DowntimesInd
<1>7. PICK p : p = [Entry(d) EXCEPT !.started = TRUE]
  OBVIOUS
<1>8. CallbackDowntime(d, p)
  BY <1>7 DEF DowntimeStarted
<1>9. Entry(d) \in Params
  BY EntryType
<1>10. /\ p \in Params /\ p.started = TRUE /\ p.ended = Entry(d).ended
       /\ p.cancelled = Entry(d).cancelled /\ p.deleted = Entry(d).deleted
  BY <1>7, <1>9 DEF Params
<1>11. Course(l)
  BY <1>1, <1>3, <1>5, StagesDiffer DEF Course
<1>12. ASSUME applied PROVE p = Told(l)
  <2>1. Entry(d).ended = FALSE /\ Entry(d).cancelled = FALSE /\ Entry(d).deleted = FALSE
    BY <1>2, <1>3, <1>9, <1>12, EntryTold DEF Ahead, Params
  <2>2. PICK t : t = Told(l)
    OBVIOUS
  <2>3. t \in Params /\ t.started = TRUE /\ t.ended = FALSE /\ t.cancelled = FALSE
        /\ t.deleted = FALSE
    BY <1>5, <2>2, ToldIs DEF Params
  <2> QED
    BY <1>10, <2>1, <2>2, <2>3, ParamsEqual
<1> QED
  BY <1>1, <1>3, <1>5, <1>6, <1>8, <1>10, <1>11, <1>12, DowntimeOne

(* NEBTYPE_DOWNTIME_STOP. *)
LEMMA DowntimeStoppedStep ==
    ASSUME ObjectsInd, DowntimesInd, NEW d \in Downtimes, NEW cancel \in BOOLEAN,
           DowntimeStopped(d, cancel)
    PROVE  DowntimesInd'
<1>1. UNCHANGED <<registered, applied, conf>> /\ registered
  BY DEF DowntimeStopped, DowntimeStep
<1>2. life[d] \in Life /\ Course(life[d]) /\ life[d].at = "active"
  BY DEF DowntimeStopped, DowntimesInd
<1>3. life[d].started = TRUE /\ life[d].cancelled = FALSE /\ "service" \in conf
  BY <1>2 DEF Course
<1>4. PICK l : l = InStage("ended", life[d].started, cancel)
  OBVIOUS
<1>5. l \in Life /\ l.at = "ended" /\ l.started = TRUE /\ l.cancelled = cancel
  BY <1>3, <1>4, StagesDiffer DEF InStage, Life
<1>6. life' = [life EXCEPT ![d] = l]
  BY <1>2, <1>4 DEF DowntimeStopped, DowntimesInd
<1>7. PICK p : p = [Entry(d) EXCEPT !.ended = TRUE, !.cancelled = @ \/ cancel]
  OBVIOUS
<1>8. CallbackDowntime(d, p)
  BY <1>7 DEF DowntimeStopped
<1>9. Entry(d) \in Params
  BY EntryType
<1>10. /\ p \in Params /\ p.started = Entry(d).started /\ p.ended = TRUE
       /\ p.cancelled <=> Entry(d).cancelled \/ cancel
       /\ p.deleted = Entry(d).deleted
  BY <1>7, <1>9 DEF Params
<1>11. Course(l)
  BY <1>1, <1>3, <1>5, StagesDiffer DEF Course
<1>12. ASSUME applied PROVE p = Told(l)
  <2>1. Entry(d).started = TRUE /\ Entry(d).cancelled = FALSE /\ Entry(d).deleted = FALSE
    BY <1>2, <1>3, <1>9, <1>12, EntryTold DEF Ahead, Params
  <2>2. PICK t : t = Told(l)
    OBVIOUS
  <2>3. t \in Params /\ t.started = TRUE /\ t.ended = TRUE /\ t.cancelled = cancel
        /\ t.deleted = FALSE
    BY <1>5, <2>2, ToldIs DEF Params
  <2>4. p.cancelled = cancel
    BY <1>10, <2>1 DEF Params
  <2> QED
    BY <1>10, <2>1, <2>2, <2>3, <2>4, ParamsEqual
<1> QED
  BY <1>1, <1>3, <1>5, <1>6, <1>8, <1>10, <1>11, <1>12, DowntimeOne

(* NEBTYPE_DOWNTIME_DELETE. *)
LEMMA DowntimeDeletedStep ==
    ASSUME ObjectsInd, DowntimesInd, NEW d \in Downtimes, DowntimeDeleted(d)
    PROVE  DowntimesInd'
<1>1. UNCHANGED <<registered, applied, conf>> /\ registered
  BY DEF DowntimeDeleted, DowntimeStep
<1>2. life[d] \in Life /\ Course(life[d]) /\ life[d].at \in {"scheduled", "ended"}
  BY DEF DowntimeDeleted, DowntimesInd
<1>3. "service" \in conf
  BY <1>2 DEF Course
<1>4. PICK l : l = InStage("deleted", life[d].started, life[d].cancelled \/ ~ life[d].started)
  OBVIOUS
<1>5. l \in Life /\ l.at = "deleted" /\ l.started = life[d].started
      /\ l.cancelled = (life[d].cancelled \/ ~ life[d].started)
  BY <1>2, <1>4, StagesDiffer DEF InStage, Life
<1>6. life' = [life EXCEPT ![d] = l]
  BY <1>2, <1>4 DEF DowntimeDeleted, DowntimesInd
<1>7. PICK p : p = [Entry(d) EXCEPT !.deleted = TRUE,
                                    !.cancelled = @ \/ ~ Entry(d).started]
  OBVIOUS
<1>8. CallbackDowntime(d, p)
  BY <1>7 DEF DowntimeDeleted
<1>9. Entry(d) \in Params
  BY EntryType
<1>10. /\ p \in Params /\ p.started = Entry(d).started /\ p.ended = Entry(d).ended
       /\ p.cancelled <=> Entry(d).cancelled \/ ~ Entry(d).started
       /\ p.deleted = TRUE
  BY <1>7, <1>9 DEF Params
<1>11. Course(l)
  BY <1>1, <1>3, <1>5, StagesDiffer DEF Course
<1>12. ASSUME applied PROVE p = Told(l)
  <2>1. /\ Entry(d).started <=> life[d].started
        /\ Entry(d).ended <=> life[d].at = "ended"
        /\ Entry(d).cancelled <=> life[d].cancelled
    BY <1>2, <1>12, EntryTold DEF Ahead
  <2>2. PICK t : t = Told(l)
    OBVIOUS
  <2>3. t \in Params /\ (t.started <=> l.started) /\ (t.ended <=> l.started)
        /\ (t.cancelled <=> l.cancelled) /\ t.deleted
    BY <1>5, <2>2, ToldIs
  <2>4. life[d].at = "ended" <=> life[d].started
    BY <1>2 DEF Course
  <2>5. p.started = t.started /\ p.ended = t.ended /\ p.cancelled = t.cancelled
        /\ p.deleted = t.deleted
    BY <1>2, <1>5, <1>9, <1>10, <2>1, <2>3, <2>4 DEF Params, Life
  <2> QED
    BY <1>10, <2>2, <2>3, <2>5, ParamsEqual
<1> QED
  BY <1>1, <1>3, <1>5, <1>6, <1>8, <1>10, <1>11, <1>12, DowntimeOne

(* callback_downtime. *)
LEMMA DowntimeMoves ==
    ASSUME ObjectsInd, DowntimesInd, NEW d \in Downtimes, DowntimeMove(d)
    PROVE  DowntimesInd'
  BY DowntimeAddedStep, DowntimeStartedStep, DowntimeStoppedStep, DowntimeDeletedStep
     DEF DowntimeMove

(* The dump tells the story of the scheduled downtimes anew. *)
LEMMA DowntimesStart ==
    ASSUME ObjectsInd, DowntimesInd, EventLoopStart
    PROVE  DowntimesInd'
<1>1. /\ registered = FALSE /\ registered' = TRUE /\ life' = life /\ conf' = conf
  BY DEF EventLoopStart, engineVars, ObjectsInd
<1>2. \A d \in Downtimes : life[d] \in Life /\ Course(life[d]) /\ Course(life[d])'
  BY <1>1 DEF DowntimesInd, Course
<1>3. \A d \in Downtimes : life[d].at \in {none, "forgotten", "scheduled"}
  BY <1>1, <1>2 DEF Course
<1>4. Scheduled \in SUBSET Downtimes /\ \A d \in Downtimes : d \in Scheduled <=> life[d].at = "scheduled"
  BY <1>3, StagesDiffer DEF Scheduled
<1>5. params \in PartialParams /\ row \in PartialParams
      /\ kpi \in [acknowledged : BOOLEAN, downtimed : BOOLEAN]
  BY DEF DowntimesInd
<1>6. CASE "service" \in conf
  <2>1. params' = With(params, Scheduled, Fresh) /\ row' = With(row, Scheduled, Fresh)
        /\ kpi' = [kpi EXCEPT !.downtimed = @ /\ Scheduled = {}]
    BY <1>6 DEF EventLoopStart
  <2>2. /\ With(params, Scheduled, Fresh) \in PartialParams
        /\ DOMAIN With(params, Scheduled, Fresh) = DOMAIN params \cup Scheduled
        /\ \A e \in Scheduled : With(params, Scheduled, Fresh)[e] = Fresh
    BY <1>4, <1>5, FreshType, WithTable
  <2>3. /\ With(row, Scheduled, Fresh) \in PartialParams
        /\ DOMAIN With(row, Scheduled, Fresh) = DOMAIN row \cup Scheduled
        /\ \A e \in Scheduled : With(row, Scheduled, Fresh)[e] = Fresh
    BY <1>4, <1>5, FreshType, WithTable
  <2>4. kpi' \in [acknowledged : BOOLEAN, downtimed : BOOLEAN]
    BY <1>5, <2>1
  <2>5. ASSUME NEW d \in Downtimes
        PROVE  /\ life'[d].at \notin NoDowntime => d \in DOMAIN row' /\ row'[d] = Told(life'[d])
               /\ life'[d].at \in Ahead => d \in DOMAIN params' /\ params'[d] = row'[d]
    <3>1. CASE life[d].at # "scheduled"
      BY <1>1, <1>3, <3>1, StagesDiffer DEF NoDowntime, Ahead
    <3>2. CASE life[d].at = "scheduled"
      <4>1. d \in Scheduled
        BY <1>4, <3>2
      <4>2. d \in DOMAIN row' /\ row'[d] = Fresh /\ d \in DOMAIN params' /\ params'[d] = Fresh
        BY <2>1, <2>2, <2>3, <4>1
      <4>3. life[d].started = FALSE /\ life[d].cancelled = FALSE
        BY <1>2, <3>2 DEF Course
      <4>4. PICK t : t = Told(life[d])
        OBVIOUS
      <4>5. t \in Params /\ t.started = FALSE /\ t.ended = FALSE /\ t.cancelled = FALSE
            /\ t.deleted = FALSE
        BY <1>2, <3>2, <4>3, <4>4, ToldIs DEF Params
      <4>6. Told(life[d]) = Fresh
        BY <4>4, <4>5, FreshType, ParamsEqual
      <4> QED
        BY <1>1, <4>2, <4>6
    <3> QED
      BY <3>1, <3>2
  <2> QED
    BY <1>1, <1>2, <2>1, <2>2, <2>3, <2>4, <2>5 DEF DowntimesInd, Ahead
<1>7. CASE "service" \notin conf
  <2>1. UNCHANGED <<params, row, kpi>>
    BY <1>7 DEF EventLoopStart
  <2>2. \A d \in Downtimes : life[d].at \in NoDowntime
    BY <1>2, <1>3, <1>7 DEF Course, NoDowntime
  <2>3. \A d \in Downtimes : life[d].at \notin Ahead
    BY <2>2, StagesDiffer DEF NoDowntime, Ahead
  <2> QED
    BY <1>1, <1>2, <2>1, <2>2, <2>3 DEF DowntimesInd, Ahead
<1> QED
  BY <1>6, <1>7

(* The fields of a forgotten downtime. *)
LEMMA ForgottenIs ==
    ASSUME NEW l \in Life
    PROVE  Forgotten(l) \in Life /\ Forgotten(l).at = "forgotten"
  BY StagesDiffer, InStageIs DEF Forgotten, Life, InStage

(* A forgotten downtime satisfies everything. *)
LEMMA CourseForgotten == \A l : l.at = "forgotten" => Course(l) /\ Course(l)'
  BY StagesDiffer DEF Course

(* The engine starts again from its retention file. *)
LEMMA DowntimesRestart ==
    ASSUME ObjectsInd, DowntimesInd, EngineRestart
    PROVE  DowntimesInd'
<1>1. /\ registered' = FALSE /\ applied' = FALSE /\ params' = <<>> /\ row' = row
      /\ kpi' = kpi /\ conf' = conf
  BY DEF EngineRestart, readerVarsButAcks
<1>2. DEFINE F(d) == CASE d \in Scheduled -> NotStarted("scheduled")
                     [] life[d].at = none -> life[d]
                     [] OTHER -> Forgotten(life[d])
<1>3. life' = [d \in Downtimes |-> F(d)]
  BY DEF EngineRestart
<1>4. ASSUME NEW d \in Downtimes
      PROVE  F(d) \in Life /\ F(d).at \in {none, "forgotten", "scheduled"}
             /\ (F(d).at \in {none, "scheduled"} => F(d).started = FALSE /\ F(d).cancelled = FALSE)
             /\ (F(d).at = "scheduled" => "service" \in conf)
  <2>1. life[d] \in Life /\ Course(life[d])
    BY DEF DowntimesInd
  <2>2. CASE d \in Scheduled
    <3>0. life[d].at # none
      BY <2>2, StagesDiffer DEF Scheduled
    <3>1. F(d) = NotStarted("scheduled")
      BY <2>2, <3>0
    <3>2. "service" \in conf
      BY <2>1, <2>2 DEF Course, Scheduled
    <3>3. F(d) \in Life /\ F(d).at = "scheduled" /\ F(d).started = FALSE /\ F(d).cancelled = FALSE
      BY ONLY <3>1, StagesDiffer, NotStartedIs
    <3> QED
      BY <3>2, <3>3
  <2>3. CASE d \notin Scheduled /\ life[d].at = none
    <3>1. F(d) = life[d]
      BY <2>3
    <3> HIDE DEF F
    <3> QED
      BY <2>1, <2>3, <3>1, StagesDiffer DEF Course
  <2>4. CASE d \notin Scheduled /\ life[d].at # none
    <3>1. F(d) = Forgotten(life[d])
      BY <2>4
    <3> HIDE DEF F
    <3> QED
      BY <2>1, <3>1, StagesDiffer, ForgottenIs
  <2> QED
    BY <2>2, <2>3, <2>4
<1> HIDE DEF F
<1>5. life' \in [Downtimes -> Life] /\ \A d \in Downtimes : life'[d] = F(d)
  BY <1>3, <1>4
<1>6. \A d \in Downtimes : Course(life[d])'
  BY <1>1, <1>4, <1>5, StagesDiffer DEF Course
<1> QED
  BY <1>1, <1>5, <1>6, EmptyTable DEF DowntimesInd

(* A service that is deleted takes its downtimes with it. *)
LEMMA DowntimesObjects ==
    ASSUME ObjectsInd, DowntimesInd, NEW k \in ObjectKinds, ObjectAdded(k) \/ ObjectDeleted(k)
    PROVE  DowntimesInd'
<1>1. UNCHANGED <<registered, applied, params, row, kpi>>
  BY DEF ObjectAdded, ObjectDeleted, moduleVars
<1>2. CASE ObjectAdded(k) \/ (ObjectDeleted(k) /\ k # "service")
  <2>1. life' = life /\ ("service" \in conf => "service" \in conf')
    BY <1>2 DEF ObjectAdded, ObjectDeleted
  <2>2. \A d \in Downtimes : Course(life[d]) => Course(life[d])'
    BY <1>1, <2>1 DEF Course
  <2> QED
    BY <1>1, <2>1, <2>2 DEF DowntimesInd
<1>3. CASE ObjectDeleted(k) /\ k = "service"
  <2>1. life' = [d \in Downtimes |-> IF life[d].at \in {none, "deleted"} THEN life[d]
                                     ELSE Forgotten(life[d])]
    BY <1>3 DEF ObjectDeleted
  <2>2. \A d \in Downtimes : life[d] \in Life /\ Course(life[d])
    BY DEF DowntimesInd
  <2>3. life' \in [Downtimes -> Life]
    BY <2>1, <2>2, ForgottenIs
  <2>4. \A d \in Downtimes : \/ life[d].at \in {none, "deleted"} /\ life'[d] = life[d]
                             \/ life'[d].at = "forgotten"
    BY <2>1, <2>2, ForgottenIs
  <2>5. \A d \in Downtimes : Course(life[d])'
    BY <1>1, <2>2, <2>4, StagesDiffer DEF Course
  <2>6. ASSUME applied, NEW d \in Downtimes
        PROVE  /\ life'[d].at \notin NoDowntime => d \in DOMAIN row' /\ row'[d] = Told(life'[d])
               /\ life'[d].at \notin Ahead
    <3>1. CASE life'[d].at = "forgotten"
      BY <3>1, StagesDiffer DEF NoDowntime, Ahead
    <3>2. CASE life[d].at \in {none, "deleted"} /\ life'[d] = life[d]
      <4>1. life[d].at \notin NoDowntime => d \in DOMAIN row /\ row[d] = Told(life[d])
        BY <2>6 DEF DowntimesInd
      <4> QED
        BY <1>1, <3>2, <4>1, StagesDiffer DEF Ahead
    <3> QED
      BY <2>4, <3>1, <3>2
  <2> QED
    BY <1>1, <2>3, <2>5, <2>6 DEF DowntimesInd, Ahead
<1> QED
  BY <1>2, <1>3

(* The events tell where the downtimes are. *)
LEMMA DowntimesInductive ==
    ObjectsInd /\ DowntimesInd /\ [NebNext]_nebVars => DowntimesInd'
<1> SUFFICES ASSUME ObjectsInd, DowntimesInd, [NebNext]_nebVars PROVE DowntimesInd'
  OBVIOUS
<1>1. CASE EventLoopStart
  BY <1>1, DowntimesStart
<1>2. CASE EventLoopStartFails
  <2>1. UNCHANGED <<applied, params, row, kpi, life, conf>> /\ registered' = TRUE
    BY <1>2 DEF EventLoopStartFails, readerVars, readerVarsButAcks, engineVars
  <2>2. \A d \in Downtimes : Course(life[d]) => Course(life[d])'
    BY <2>1 DEF Course
  <2> QED
    BY <2>1, <2>2 DEF DowntimesInd
<1>3. CASE EngineRestart
  BY <1>3, DowntimesRestart
<1>4. CASE ObjectStep
  BY <1>4, ObjectSteps, DowntimesObjects
<1>5. CASE TellStep \/ AckMove \/ UNCHANGED nebVars
  <2>1. UNCHANGED <<registered, applied, params, row, life, conf>>
        /\ kpi' \in [acknowledged : BOOLEAN, downtimed : BOOLEAN]
    <3>1. CASE TellStep
      <4>1. PICK k \in {"host", "service"} : Tells(k)
        BY <3>1, TellSteps
      <4> QED
        BY <4>1 DEF Tells, moduleVars, engineVars, DowntimesInd
    <3>2. CASE AckMove
      <4>1. kpi' \in [acknowledged : BOOLEAN, downtimed : BOOLEAN]
        BY <3>2 DEF AckMove, Acknowledge, StateChanged, AckRemoved, CallbackServiceStatus,
                    KpiAcknowledgement, DowntimesInd
      <4> QED
        BY <3>2, <4>1, AckQuiet
    <3>3. CASE UNCHANGED nebVars
      BY <3>3 DEF nebVars, moduleVars, readerVars, readerVarsButAcks, engineVars, DowntimesInd
    <3> QED
      BY <1>5, <3>1, <3>2, <3>3
  <2>2. \A d \in Downtimes : Course(life[d]) => Course(life[d])'
    BY <2>1 DEF Course
  <2> QED
    BY <2>1, <2>2 DEF DowntimesInd
<1>6. ASSUME NEW d \in Downtimes, DowntimeMove(d)
      PROVE  DowntimesInd'
  BY <1>6, DowntimeMoves
<1> QED
  BY <1>1, <1>2, <1>3, <1>4, <1>5, <1>6, NebSteps

-----------------------------------------------------------------------------
(* Acknowledgements *)

(* The fields of a row. *)
LEMMA AckRowType ==
    ASSUME NEW rows \in Seq(AckRows), NEW i \in DOMAIN rows
    PROVE  rows[i].closed \in BOOLEAN /\ rows[i].end \in Ends
<1>1. rows[i] \in AckRows
  OBVIOUS
<1> QED
  BY <1>1 DEF AckRows

(* No acknowledgement at first. *)
LEMMA AcksInit == NebInit => AcksInd
<1> SUFFICES ASSUME NebInit PROVE AcksInd
  OBVIOUS
<1>1. ackRow = <<>> /\ acks = NoAck /\ state = "ok" /\ acked = none
  BY DEF NebInit
<1>2. acks \in [id : Nat, sticky : BOOLEAN, state : States]
  BY <1>1 DEF NoAck, States
<1>3. ackRow \in Seq(AckRows) /\ Len(ackRow) <= MaxAcks /\ DOMAIN ackRow = {}
  BY <1>1, NebAssumption
<1> QED
  BY <1>1, <1>2, <1>3 DEF AcksInd, States

(* The row in force ends, its acknowledgement is forgotten or never was. *)
LEMMA AcksEnd ==
    ASSUME AcksInd, NEW why \in Ends, why \notin {"live", "operator"},
           ackRow' = Ended(ackRow, why),
           state' \in States, acked' \in {none, "normal", "sticky"},
           acks' = acks \/ acks' = NoAck,
           ~ registered' => acks' = NoAck,
           acks' # NoAck => applied' = applied /\ why = "forgotten"
    PROVE  AcksInd'
<1>1. ackRow \in Seq(AckRows) /\ Len(ackRow) <= MaxAcks
  BY DEF AcksInd
<1>2. /\ ackRow' \in Seq(AckRows) /\ Len(ackRow') = Len(ackRow)
      /\ DOMAIN ackRow' = DOMAIN ackRow
      /\ \A i \in DOMAIN ackRow : ackRow'[i].closed = ackRow[i].closed
      /\ \A i \in DOMAIN ackRow : ackRow[i].end = "live" => ackRow'[i].end = why
      /\ \A i \in DOMAIN ackRow : ackRow[i].end # "live" => ackRow'[i].end = ackRow[i].end
  BY <1>1, EndedRows
<1>3. acks' \in [id : Nat, sticky : BOOLEAN, state : States]
  <2>1. NoAck \in [id : Nat, sticky : BOOLEAN, state : States]
    BY DEF NoAck, States
  <2> QED
    BY <2>1 DEF AcksInd
<1>4. \A i \in DOMAIN ackRow : ackRow'[i].end # "live"
  BY <1>2
<1>5. ASSUME NEW i \in DOMAIN ackRow
      PROVE  RowTrue(ackRow'[i])
  <2>1. RowTrue(ackRow[i])
    BY DEF AcksInd
  <2>2. CASE ackRow[i].end = "live"
    BY <1>2, <2>1, <2>2 DEF RowTrue
  <2>3. CASE ackRow[i].end # "live"
    BY <1>2, <2>1, <2>3 DEF RowTrue
  <2> QED
    BY <2>2, <2>3
<1>6. acks' = NoAck \/ acks'.id \in DOMAIN ackRow'
  BY <1>2 DEF AcksInd
<1>7. acks' # NoAck /\ applied' => ackRow'[acks'.id].end \in {"live", "forgotten"}
  <2> SUFFICES ASSUME acks' # NoAck, applied' PROVE ackRow'[acks'.id].end = "forgotten"
    OBVIOUS
  <2>1. acks' = acks /\ applied /\ why = "forgotten" /\ acks # NoAck
    OBVIOUS
  <2>2. acks.id \in DOMAIN ackRow /\ ackRow[acks.id].end \in {"live", "forgotten"}
    BY <2>1 DEF AcksInd
  <2> QED
    BY <1>2, <2>1, <2>2
<1>8. Len(ackRow') <= MaxAcks
  BY <1>1, <1>2
<1>9. \A i \in DOMAIN ackRow' : RowTrue(ackRow'[i])
  BY <1>2, <1>5
<1>10. \A i \in DOMAIN ackRow' : ackRow'[i].end # "live"
  BY <1>2, <1>4
<1> QED
  BY <1>2, <1>3, <1>6, <1>7, <1>8, <1>9, <1>10 DEF AcksInd, RowTrue

(* Steps that leave the acknowledgements alone. *)
LEMMA AcksQuiet ==
    ASSUME AcksInd, UNCHANGED <<registered, applied, acks, ackRow, state, acked>>
    PROVE  AcksInd'
<1>1. \A i : InForce(i) => InForce(i)'
  BY DEF InForce
<1>2. \A i \in DOMAIN ackRow : RowTrue(ackRow[i]) => RowTrue(ackRow[i])'
  BY DEF RowTrue
<1> QED
  BY <1>1, <1>2 DEF AcksInd

(* The event loop starts without an acknowledgement. *)
LEMMA AcksStart ==
    ASSUME ObjectsInd, AcksInd, ~ registered, registered' = TRUE,
           UNCHANGED <<acks, ackRow, state, acked>>
    PROVE  AcksInd'
<1>1. acks = NoAck
  BY DEF AcksInd
<1>2. \A i \in DOMAIN ackRow : ackRow[i].end # "live"
  BY <1>1 DEF AcksInd, InForce
<1>3. \A i \in DOMAIN ackRow : RowTrue(ackRow[i]) => RowTrue(ackRow[i])'
  BY DEF RowTrue
<1> QED
  BY <1>1, <1>2, <1>3 DEF AcksInd

(* A new row. *)
LEMMA AppendRow ==
    ASSUME NEW rows \in Seq(AckRows), NEW r \in AckRows, NEW new, new = Append(rows, r)
    PROVE  /\ new \in Seq(AckRows) /\ Len(new) = Len(rows) + 1
           /\ Len(rows) + 1 \in DOMAIN new
           /\ new[Len(rows) + 1] = r
           /\ \A i \in DOMAIN new : i # Len(rows) + 1 => i \in DOMAIN rows /\ new[i] = rows[i]
  OBVIOUS

(* callback_acknowledgement. *)
LEMMA AcksAcknowledge ==
    ASSUME ObjectsInd, AcksInd, NEW sticky \in BOOLEAN, Acknowledge(sticky)
    PROVE  AcksInd'
<1>1. /\ registered' = registered /\ registered /\ applied' = applied /\ state' = state
      /\ state # "ok" /\ Len(ackRow) < MaxAcks
      /\ acked' = IF sticky THEN "sticky" ELSE "normal"
      /\ acks' = [id |-> Len(ackRow) + 1, sticky |-> sticky, state |-> state]
  BY DEF Acknowledge
<1>2. PICK rows : rows = Ended(ackRow, "replaced")
  OBVIOUS
<1>3. PICK r : r = StoredAck(FALSE, IF applied THEN "live" ELSE "unheard")
  OBVIOUS
<1>4. ackRow' = Append(rows, r)
  BY <1>2, <1>3 DEF Acknowledge, StoredAck
<1>5. r \in AckRows /\ r.closed = FALSE /\ (r.end = IF applied THEN "live" ELSE "unheard")
  BY <1>3, EndsType DEF StoredAck, AckRows
<1>6. ackRow \in Seq(AckRows) /\ state \in States /\ Len(ackRow) \in Nat
  BY DEF AcksInd
<1>7. /\ rows \in Seq(AckRows) /\ Len(rows) = Len(ackRow)
      /\ DOMAIN rows = DOMAIN ackRow
      /\ \A i \in DOMAIN ackRow : rows[i].closed = ackRow[i].closed
      /\ \A i \in DOMAIN ackRow : ackRow[i].end = "live" => rows[i].end = "replaced"
      /\ \A i \in DOMAIN ackRow : ackRow[i].end # "live" => rows[i].end = ackRow[i].end
  <2>1. "replaced" \in Ends
    BY EndsType
  <2> QED
    BY <1>2, <1>6, <2>1, EndedRows
<1>8. /\ ackRow' \in Seq(AckRows) /\ Len(ackRow') = Len(ackRow) + 1
      /\ Len(ackRow) + 1 \in DOMAIN ackRow'
      /\ ackRow'[Len(ackRow) + 1] = r
      /\ \A i \in DOMAIN ackRow' : i # Len(ackRow) + 1 =>
              i \in DOMAIN ackRow /\ ackRow'[i] = rows[i]
  BY <1>4, <1>5, <1>7, AppendRow
<1>9. acks' \in [id : Nat, sticky : BOOLEAN, state : States] /\ acks'.id = Len(ackRow) + 1
      /\ acks'.sticky = sticky /\ acks'.state = state
  BY <1>1, <1>6
<1>10. acks' # NoAck
  BY <1>6, <1>9 DEF NoAck
<1>11. \A i \in DOMAIN ackRow : rows[i].end # "live"
  BY <1>7
<1>12. ASSUME NEW i \in DOMAIN ackRow
       PROVE  RowTrue(rows[i])
  <2>1. RowTrue(ackRow[i])
    BY DEF AcksInd
  <2>2. CASE ackRow[i].end = "live"
    BY <1>7, <2>1, <2>2 DEF RowTrue
  <2>3. CASE ackRow[i].end # "live"
    BY <1>7, <2>1, <2>3 DEF RowTrue
  <2> QED
    BY <2>2, <2>3
<1>13. RowTrue(r)
  BY <1>5 DEF RowTrue
<1>14. \A i \in DOMAIN ackRow' : RowTrue(ackRow'[i])
  BY <1>8, <1>12, <1>13
<1>15. ASSUME NEW i \in DOMAIN ackRow', ackRow'[i].end = "live"
       PROVE  InForce(i)'
  <2>1. i = Len(ackRow) + 1
    BY <1>8, <1>11, <1>15
  <2>2. applied
    BY <1>5, <1>8, <1>15, <2>1
  <2>3. applied' = TRUE /\ registered' = TRUE
    BY <1>1, <2>2 DEF ObjectsInd
  <2>4. acked' # none /\ (acked' = "sticky" <=> sticky)
    BY <1>1 DEF none
  <2> QED
    BY <1>1, <1>9, <1>10, <2>1, <2>3, <2>4 DEF InForce
<1>16. applied' => ackRow'[acks'.id].end = "live"
  BY <1>1, <1>5, <1>8, <1>9
<1>17. Len(ackRow') <= MaxAcks
  BY <1>1, <1>6, <1>8, NebAssumption
<1>18. acks'.id \in DOMAIN ackRow' /\ acked' \in {none, "normal", "sticky"} /\ state' \in States
  BY <1>1, <1>6, <1>8, <1>9
<1> QED
  BY <1>1, <1>8, <1>9, <1>14, <1>15, <1>16, <1>17, <1>18 DEF AcksInd, RowTrue

ClosedAt(new, rows, i) == new = [rows EXCEPT ![i] = ClosedAck(@)]
(* The end of an acknowledgement is published. *)
LEMMA CloseStored ==
    ASSUME NEW rows \in Seq(AckRows), NEW i \in DOMAIN rows, NEW new,
           ClosedAt(new, rows, i)
    PROVE  /\ new \in Seq(AckRows) /\ Len(new) = Len(rows) /\ DOMAIN new = DOMAIN rows
           /\ new[i].closed = TRUE /\ new[i].end = rows[i].end
           /\ \A j \in DOMAIN rows : j # i => new[j] = rows[j]
<1>1. PICK r : r = ClosedAck(rows[i])
  OBVIOUS
<1>2. rows[i].end \in Ends
  BY AckRowType
<1>3. r \in AckRows /\ r.closed = TRUE /\ r.end = rows[i].end
  BY <1>1, <1>2 DEF AckRows, ClosedAck, StoredAck
<1>4. new = [rows EXCEPT ![i] = r]
  BY <1>1 DEF ClosedAt
<1>5. rows \in [1 .. Len(rows) -> AckRows] /\ DOMAIN rows = 1 .. Len(rows) /\ Len(rows) \in Nat
  OBVIOUS
<1>6. new \in [1 .. Len(rows) -> AckRows]
  BY <1>3, <1>4, <1>5
<1>7. new \in Seq(AckRows) /\ Len(new) = Len(rows)
  BY <1>5, <1>6
<1> QED
  BY <1>3, <1>4, <1>5, <1>7

(* A status in which the acknowledgement is still there. *)
LEMMA AcksStatusKept ==
    ASSUME ObjectsInd, AcksInd, UNCHANGED <<registered, applied, acks, ackRow, acked>>,
           state' \in States, state' # "ok", acked = "sticky"
    PROVE  AcksInd'
<1>1. ASSUME NEW i \in DOMAIN ackRow, ackRow[i].end = "live"
      PROVE  InForce(i)'
  <2>1. InForce(i)
    BY <1>1 DEF AcksInd
  <2> QED
    BY <2>1 DEF InForce
<1>2. \A i \in DOMAIN ackRow : RowTrue(ackRow[i]) => RowTrue(ackRow[i])'
  BY DEF RowTrue
<1> QED
  BY <1>1, <1>2 DEF AcksInd

(* A status without acknowledgement. *)
LEMMA AcksStatusEnd ==
    ASSUME ObjectsInd, AcksInd, NEW s \in States, NEW why \in {"state", "operator"},
           CallbackServiceStatus(s, none, why),
           why = "operator" => s = state,
           why = "state" => s # state /\ (s = "ok" \/ acked # "sticky")
    PROVE  AcksInd'
<1>1. /\ registered' = registered /\ registered /\ applied' = applied
      /\ state' = s /\ acked' = none
  BY DEF CallbackServiceStatus
<1>2. PICK rows : rows = Ended(ackRow, why)
  OBVIOUS
<1>3. ackRow \in Seq(AckRows) /\ why \in Ends
  BY EndsType DEF AcksInd
<1>4. /\ rows \in Seq(AckRows) /\ Len(rows) = Len(ackRow)
      /\ DOMAIN rows = DOMAIN ackRow
      /\ \A i \in DOMAIN ackRow : rows[i].closed = ackRow[i].closed
      /\ \A i \in DOMAIN ackRow : ackRow[i].end = "live" => rows[i].end = why
      /\ \A i \in DOMAIN ackRow : ackRow[i].end # "live" => rows[i].end = ackRow[i].end
  BY <1>2, <1>3, EndedRows
<1>5. \A i \in DOMAIN ackRow : rows[i].end # "live"
  BY <1>4
<1>6. acks' = NoAck
  BY DEF CallbackServiceStatus, AcksInd
<1>7. \A i \in DOMAIN ackRow : RowTrue(ackRow[i])
  BY DEF AcksInd
<1>8. \A i \in DOMAIN ackRow : ackRow[i].end = "live" => InForce(i)
  BY DEF AcksInd
<1>9. /\ ackRow' \in Seq(AckRows) /\ Len(ackRow') = Len(ackRow)
      /\ DOMAIN ackRow' = DOMAIN ackRow
      /\ \A i \in DOMAIN ackRow : ackRow'[i].end = rows[i].end
      /\ \A i \in DOMAIN ackRow : RowTrue(ackRow'[i])
  <2>1. CASE acks = NoAck
    <3>1. ackRow' = rows
      BY <1>2, <2>1 DEF CallbackServiceStatus
    <3>2. \A i \in DOMAIN ackRow : ackRow[i].end # "live"
      BY <1>8, <2>1 DEF InForce
    <3>3. \A i \in DOMAIN ackRow : RowTrue(rows[i])
      BY <1>4, <1>7, <3>2 DEF RowTrue
    <3> QED
      BY <1>4, <3>1, <3>3
  <2>2. CASE acks # NoAck /\ applied /\ EndPublished(s)
    <3>1. acks.id \in DOMAIN ackRow /\ ackRow[acks.id].end \in {"live", "forgotten"}
      BY <2>2 DEF AcksInd
    <3>2. ackRow' = [rows EXCEPT ![acks.id] = ClosedAck(@)]
      BY <1>2, <2>2 DEF CallbackServiceStatus
    <3>3. /\ ackRow' \in Seq(AckRows) /\ Len(ackRow') = Len(rows)
          /\ DOMAIN ackRow' = DOMAIN rows
          /\ ackRow'[acks.id].closed = TRUE /\ ackRow'[acks.id].end = rows[acks.id].end
          /\ \A j \in DOMAIN rows : j # acks.id => ackRow'[j] = rows[j]
      <4>1. PICK i : i = acks.id
        OBVIOUS
      <4>2. PICK new : new = ackRow'
        OBVIOUS
      <4>3. ClosedAt(new, rows, i) /\ i \in DOMAIN rows /\ rows \in Seq(AckRows)
        BY <1>4, <3>1, <3>2, <4>1, <4>2 DEF ClosedAt
      <4>4. /\ new \in Seq(AckRows) /\ Len(new) = Len(rows) /\ DOMAIN new = DOMAIN rows
            /\ new[i].closed = TRUE /\ new[i].end = rows[i].end
            /\ \A j \in DOMAIN rows : j # i => new[j] = rows[j]
        BY ONLY <4>3, CloseStored
      <4> QED
        BY <4>1, <4>2, <4>4
    <3>4. ASSUME ackRow[acks.id].end = "live" PROVE why = "operator"
      <4>1. InForce(acks.id)
        BY <1>8, <3>1, <3>4
      <4> QED
        BY <2>2, <4>1 DEF InForce, EndPublished
    <3>5. rows[acks.id].end \in {"operator", "forgotten"}
      BY <1>4, <3>1, <3>4
    <3>6. \A i \in DOMAIN ackRow : i # acks.id => ackRow[i].end # "live"
      BY <1>8 DEF InForce
    <3>7. ASSUME NEW i \in DOMAIN ackRow
          PROVE  RowTrue(ackRow'[i]) /\ ackRow'[i].end = rows[i].end
      <4>1. CASE i = acks.id
        BY <3>3, <3>5, <4>1 DEF RowTrue
      <4>2. CASE i # acks.id
        BY <1>4, <1>7, <3>3, <3>6, <4>2 DEF RowTrue
      <4> QED
        BY <4>1, <4>2
    <3> QED
      BY <1>4, <3>3, <3>7
  <2>3. CASE acks # NoAck /\ ~ (applied /\ EndPublished(s))
    <3>1. ackRow' = rows
      BY <1>2, <2>3 DEF CallbackServiceStatus
    <3>2. ASSUME NEW i \in DOMAIN ackRow, ackRow[i].end = "live" PROVE why = "state"
      <4>1. InForce(i)
        BY <1>8, <3>2
      <4> QED
        BY <2>3, <4>1 DEF InForce, EndPublished, AcksInd
    <3>3. ASSUME NEW i \in DOMAIN ackRow
          PROVE  RowTrue(rows[i])
      <4>1. CASE ackRow[i].end = "live"
        BY <1>4, <1>7, <3>2, <4>1 DEF RowTrue
      <4>2. CASE ackRow[i].end # "live"
        BY <1>4, <1>7, <4>2 DEF RowTrue
      <4> QED
        BY <4>1, <4>2
    <3> QED
      BY <1>4, <3>1, <3>3
  <2> QED
    BY <2>1, <2>2, <2>3
<1>10. acks' \in [id : Nat, sticky : BOOLEAN, state : States]
  BY <1>6 DEF NoAck, States
<1>11. \A i \in DOMAIN ackRow' : ackRow'[i].end # "live"
  BY <1>5, <1>9
<1>12. Len(ackRow') <= MaxAcks
  BY <1>9 DEF AcksInd
<1>13. \A i \in DOMAIN ackRow' : RowTrue(ackRow'[i])
  BY <1>9
<1> QED
  BY <1>1, <1>6, <1>9, <1>10, <1>11, <1>12, <1>13 DEF AcksInd, RowTrue

(* A check changes the state. *)
LEMMA AcksStateChanged ==
    ASSUME ObjectsInd, AcksInd, NEW s \in States, StateChanged(s)
    PROVE  AcksInd'
<1>1. s # state
  BY DEF StateChanged
<1>2. CASE s # "ok" /\ acked = "sticky"
  <2>1. CallbackServiceStatus(s, acked, "state") /\ acked # none
    BY <1>2 DEF StateChanged, none
  <2>2. UNCHANGED <<registered, applied, acks, ackRow, acked>> /\ state' = s
    BY <2>1 DEF CallbackServiceStatus
  <2> QED
    BY <1>2, <2>2, AcksStatusKept
<1>3. CASE ~ (s # "ok" /\ acked = "sticky")
  <2>1. CallbackServiceStatus(s, none, "state")
    BY <1>3 DEF StateChanged
  <2> QED
    BY <1>1, <1>3, <2>1, AcksStatusEnd
<1> QED
  BY <1>2, <1>3

(* What happens to an acknowledgement. *)
LEMMA AcksMoves ==
    ASSUME ObjectsInd, AcksInd, AckMove
    PROVE  AcksInd'
<1>1. CASE AckRemoved
  <2>1. CallbackServiceStatus(state, none, "operator") /\ state \in States
    BY <1>1 DEF AckRemoved, AcksInd
  <2> QED
    BY <2>1, AcksStatusEnd
<1> QED
  BY <1>1, AcksStateChanged, AcksAcknowledge DEF AckMove

(* A service that is deleted takes its acknowledgement with it. *)
LEMMA AcksObjects ==
    ASSUME ObjectsInd, AcksInd, NEW k \in ObjectKinds, ObjectAdded(k) \/ ObjectDeleted(k)
    PROVE  AcksInd'
<1>1. CASE ObjectAdded(k) \/ (ObjectDeleted(k) /\ k # "service")
  BY <1>1, AcksQuiet DEF ObjectAdded, ObjectDeleted, moduleVars
<1>2. CASE ObjectDeleted(k) /\ k = "service"
  <2>1. /\ UNCHANGED <<registered, applied, acks>>
        /\ ackRow' = Ended(ackRow, "forgotten") /\ state' = "ok" /\ acked' = none
    BY <1>2 DEF ObjectDeleted, moduleVars
  <2>2. ~ registered => acks = NoAck
    BY DEF AcksInd
  <2> QED
    BY <2>1, <2>2, AcksEnd, EndsType DEF States
<1> QED
  BY <1>1, <1>2

(* An end is published exactly when an operator has removed the            *)
(* acknowledgement.                                                        *)
LEMMA AcksInductive ==
    ObjectsInd /\ AcksInd /\ [NebNext]_nebVars => AcksInd'
<1> SUFFICES ASSUME ObjectsInd, AcksInd, [NebNext]_nebVars PROVE AcksInd'
  OBVIOUS
<1>1. CASE EventLoopStart
  BY <1>1, AcksStart DEF EventLoopStart, engineVars
<1>2. CASE EventLoopStartFails
  BY <1>2, AcksStart DEF EventLoopStartFails, readerVars, engineVars
<1>3. CASE EngineRestart
  <2>1. /\ registered' = FALSE /\ acks' = NoAck /\ ackRow' = Ended(ackRow, "restart")
        /\ UNCHANGED <<state, acked>>
    BY <1>3 DEF EngineRestart
  <2>2. state \in States /\ acked \in {none, "normal", "sticky"}
    BY DEF AcksInd
  <2> QED
    BY <2>1, <2>2, AcksEnd, EndsType
<1>4. CASE ObjectStep
  BY <1>4, ObjectSteps, AcksObjects
<1>5. CASE TellStep
  <2>1. PICK k \in {"host", "service"} : Tells(k)
    BY <1>5, TellSteps
  <2> QED
    BY <2>1, AcksQuiet DEF Tells, moduleVars, engineVars
<1>6. CASE AckMove
  BY <1>6, AcksMoves
<1>7. ASSUME NEW d \in Downtimes, DowntimeMove(d)
      PROVE  AcksInd'
  BY <1>7, DowntimeQuiet, AcksQuiet
<1>8. CASE UNCHANGED nebVars
  BY <1>8, AcksQuiet DEF nebVars, moduleVars, readerVars, engineVars
<1> QED
  BY <1>1, <1>2, <1>3, <1>4, <1>5, <1>6, <1>7, <1>8, NebSteps

-----------------------------------------------------------------------------
(* The invariant of the runs follows. *)
LEMMA NebImplied == NebInd => NebInv
<1> SUFFICES ASSUME NebInd PROVE NebInv
  OBVIOUS
<1>1. NebTypeOK
  <2>1. acks \in [id : 0 .. MaxAcks, sticky : BOOLEAN, state : States]
    <3>1. acks.id \in 0 .. MaxAcks
      <4>1. CASE acks = NoAck
        BY <4>1, NebAssumption DEF NoAck
      <4>2. CASE acks # NoAck
        <5>1. acks.id \in DOMAIN ackRow /\ ackRow \in Seq(AckRows) /\ Len(ackRow) <= MaxAcks
          BY <4>2 DEF NebInd, AcksInd
        <5>2. acks.id \in 1 .. Len(ackRow) /\ Len(ackRow) \in Nat
          BY <5>1
        <5> QED
          BY <5>1, <5>2, NebAssumption
      <4> QED
        BY <4>1, <4>2
    <3> QED
      BY <3>1 DEF NebInd, AcksInd
  <2>2. ackRow \in Seq([closed : BOOLEAN,
                       end : {"live", "operator", "state", "replaced",
                              "restart", "forgotten", "unheard"}])
    BY DEF NebInd, AcksInd, AckRows, Ends
  <2>3. undeclared \in BOOLEAN
    BY DEF NebInd, ObjectsInd
  <2> QED
    BY <2>1, <2>2, <2>3 DEF NebTypeOK, NebInd, ObjectsInd, DowntimesInd, AcksInd
<1>2. DowntimesTracked
  <2>1. ASSUME applied, NEW d \in Downtimes, life[d].at \notin {none, "forgotten"}
        PROVE  d \in DOMAIN row /\
               row[d] = [started |-> life[d].started,
                          ended |-> life[d].started
                                    /\ life[d].at \in {"ended", "deleted"},
                          cancelled |-> life[d].cancelled,
                          deleted |-> life[d].at = "deleted"]
    <3>1. d \in DOMAIN row /\ row[d] = Told(life[d])
      BY <2>1 DEF NebInd, DowntimesInd, NoDowntime
    <3> QED
      BY <3>1 DEF Told
  <2> QED
    BY <1>1, <2>1 DEF DowntimesTracked
<1>3. AcksClosed
  <2>1. \A i \in DOMAIN ackRow : RowTrue(ackRow[i]) /\ ackRow[i].closed \in BOOLEAN
    BY AckRowType DEF NebInd, AcksInd
  <2> QED
    BY <2>1 DEF AcksClosed, RowTrue
<1>4. DeclaredFirst
  BY DEF DeclaredFirst, NebInd, ObjectsInd, Needed
<1> QED
  BY <1>2, <1>3, <1>4 DEF NebInv

(* What the module of the monitoring engine publishes                      *)
(* (neb/src/callbacks.cc, initial.cc) is true of the engine: the last      *)
(* event of a downtime tells where it is, the end of an acknowledgement    *)
(* is published exactly when an operator removed it, and no event names    *)
(* an object that was not declared before.                                 *)
THEOREM NebCorrect == NebSpec => []NebInv
<1>1. NebInit => NebInd
  BY ObjectsInit, DowntimesInit, AcksInit DEF NebInd
<1>2. NebInd /\ [NebNext]_nebVars => NebInd'
  BY ObjectsInductive, DowntimesInductive, AcksInductive DEF NebInd
<1> QED
  BY <1>1, <1>2, NebImplied, PTL DEF NebSpec

=============================================================================
