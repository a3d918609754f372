--------------------------- MODULE MysqlConnections ---------------------------
(***************************************************************************)
(* mysql, mysql_manager and mysql_connection: every output that uses a     *)
(* database has a mysql object, the manager gives the objects with the     *)
(* same parameters the same connections, and each connection is a thread   *)
(* with a list of tasks.  Queries are sent and forgotten; an error is kept *)
(* by the connection and thrown by the next call on any object that uses   *)
(* it.  commit() and the queries with a result wait for a promise.         *)
(***************************************************************************)
EXTENDS Naturals, Sequences, FiniteSets, SequencesExt, FiniteSetsExt

CONSTANTS
    Users,          \* threads that own a mysql object
    Count,          \* connections_count of their configuration
    MaxConns,       \* bound: number of connections ever made
    MaxQueries,     \* bound: queries of each user
    MaxFailures     \* bound: failed queries, lost servers, stopped databases

ASSUME UsersAssumption == IsFiniteSet(Users)
ASSUME CountAssumption == Count \in Nat \ {0}
ASSUME BoundsAssumption == MaxConns \in Nat /\ MaxQueries \in Nat /\ MaxFailures \in Nat

VARIABLES
    user,       \* where each thread is
    owned,      \* _connection of its mysql object
    ko,         \* the counter of commit(), a local variable it shares
    promise,    \* the promise a thread waits for: "none", "unset", "value", "exception"
    listed,     \* _connection of the manager
    lock,       \* _cfg_mutex: the thread that holds it
    conn,       \* the connections
    made,       \* history: number of connections made
    server,     \* the database server: "up" or "down"
    alive,      \* FALSE after std::terminate
    issued,     \* history: queries each thread has sent
    base,       \* history: queries each thread had sent before its mysql object
    stored,     \* queries that are committed
    refused,    \* history: queries the server refused, with nothing but a log
    undone,     \* history: queries undone with their transaction by a dead lock
    failures    \* history: number of failures

mysqlVars == <<user, owned, ko, promise, listed, lock, conn, made, server,
               alive, issued, base, stored, refused, undone, failures>>

Nobody == "nobody"
Query == Users \X (1 .. MaxQueries)
Conn == 1 .. MaxConns

(* A connection: tasks is _tasks_list after the list its thread has        *)
(* swapped for an empty one and works on, which keeps the order.           *)
(* need is _need_commit, txn the queries of the open transaction, and cut  *)
(* tells that the server has closed the session.                           *)
NewConn(at) == [at |-> at, tasks |-> <<>>, error |-> FALSE,
                need |-> FALSE, txn |-> {}, cut |-> FALSE]

Tasks ==
    [op : {"query", "result"}, id : Query, fatal : BOOLEAN]
      \union [op : {"commit"}, id : Users] \union [op : {"finish"}]

Connection ==
    [at : {"none", "connect", "run", "finish", "ended"}, tasks : Seq(Tasks),
     error : BOOLEAN, need : BOOLEAN, txn : SUBSET Query, cut : BOOLEAN]

MysqlTypeOK ==
    /\ user \in [Users -> {"none", "wait lock", "create", "update", "idle", "wait commit",
                           "wait result", "closing", "wait close", "release"}]
    /\ made \in 0 .. MaxConns
    /\ owned \in [Users -> SUBSET (1 .. made)]
    /\ listed \subseteq 1 .. made
    /\ ko \in [Users -> 0 .. Count]
    /\ promise \in [Users -> {"none", "unset", "value", "exception"}]
    /\ lock \in Users \union {Nobody}
    /\ conn \in [Conn -> Connection]
    /\ server \in {"up", "down"}
    /\ alive \in BOOLEAN
    /\ issued \in [Users -> 0 .. MaxQueries]
    /\ base \in [Users -> 0 .. MaxQueries]
    /\ stored \subseteq Query
    /\ refused \subseteq Query
    /\ undone \subseteq Query
    /\ failures \in 0 .. MaxFailures

MysqlInit ==
    /\ user = [u \in Users |-> "none"]
    /\ owned = [u \in Users |-> {}]
    /\ ko = [u \in Users |-> 0] /\ promise = [u \in Users |-> "none"]
    /\ listed = {} /\ lock = Nobody
    /\ conn = [i \in Conn |-> NewConn("none")] /\ made = 0
    /\ server = "up" /\ alive = TRUE
    /\ issued = [u \in Users |-> 0] /\ base = [u \in Users |-> 0]
    /\ stored = {} /\ refused = {} /\ undone = {} /\ failures = 0

-----------------------------------------------------------------------------
(* mysql_manager. *)

Go(u, to) == user' = [user EXCEPT ![u] = to]

(* mysql::mysql: get_connections waits for _cfg_mutex. *)
Open(u) ==
    /\ user[u] = "none" /\ Go(u, "wait lock")
    /\ made + Count * Cardinality({v \in Users : v = u \/ user[v] = "wait lock"}) <= MaxConns
    /\ base' = [base EXCEPT ![u] = issued[u]]
    /\ UNCHANGED <<owned, ko, promise, listed, lock, conn, made, server,
                   alive, issued, stored, refused, undone, failures>>

(* Connections of the manager that may be given once more. *)
Reusable == {i \in listed : conn[i].at = "run" /\ ~conn[i].error}

(* The first Count of them, all of them if there are no more.              *)
FirstReusable(reused) ==
    /\ Cardinality(reused) <= Count
    /\ Cardinality(reused) < Count => reused = Reusable
    /\ \A i \in reused, j \in Reusable \ reused : i < j

(* get_connections: the first Count connections that match; the missing    *)
(* ones are made while the mutex is held.                                  *)
GetConnections(u) ==
    /\ user[u] = "wait lock" /\ lock = Nobody
    /\ \E reused \in SUBSET Reusable :
       LET fresh == made + 1 .. made + (Count - Cardinality(reused))
       IN  /\ FirstReusable(reused)
           /\ owned' = [owned EXCEPT ![u] = reused \union fresh]
           /\ conn' = [i \in Conn |-> IF i \in fresh THEN NewConn("connect")
                                      ELSE conn[i]]
           /\ made' = made + Cardinality(fresh)
           /\ listed' = listed \union fresh
           /\ IF fresh = {}
              THEN Go(u, "idle") /\ lock' = Nobody
              ELSE Go(u, "create") /\ lock' = u
    /\ UNCHANGED <<ko, promise, server, alive, issued, base, stored, refused,
                   undone, failures>>

(* The constructor of the last connection has seen _started; the mutex is  *)
(* left and update_connections takes it again.                             *)
Created(u) ==
    /\ user[u] = "create" /\ \A i \in owned[u] : conn[i].at # "connect"
    /\ lock' = Nobody /\ Go(u, "update")
    /\ UNCHANGED <<owned, ko, promise, listed, conn, made, server, alive,
                   issued, base, stored, refused, undone, failures>>

(* Nobody but the manager has this connection. *)
Unique(i) == \A u \in Users : i \notin owned[u]

(* update_connections: the connections nobody uses are removed; the        *)
(* destructor sends a last task and waits for the thread, with the mutex   *)
(* held.                                                                   *)
UpdateConnections(u) ==
    /\ user[u] \in {"update", "release"} /\ lock = Nobody
    /\ LET old == {i \in listed : Unique(i)}
       IN  /\ conn' = [i \in Conn |-> IF i \in old
                                      THEN [conn[i] EXCEPT !.at = "finish",
                                                           !.tasks = Append(@, [op |-> "finish"])]
                                      ELSE conn[i]]
           /\ listed' = listed \ old
    /\ lock' = u
    /\ UNCHANGED <<user, owned, ko, promise, made, server, alive, issued, base,
                   stored, refused, undone, failures>>

(* The threads of the removed connections are joined. *)
ConnectionsUpdated(u) ==
    /\ user[u] \in {"update", "release"} /\ lock = u
    /\ \A i \in Conn : conn[i].at # "finish"
    /\ lock' = Nobody /\ Go(u, IF user[u] = "update" THEN "idle" ELSE "none")
    /\ UNCHANGED <<owned, ko, promise, listed, conn, made, server, alive,
                   issued, base, stored, refused, undone, failures>>

-----------------------------------------------------------------------------
(* mysql. *)

InError(u) == \E i \in owned[u] : conn[i].error

(* mysql_connection::_push *)
Push(i, task) == conn' = [conn EXCEPT ![i].tasks = Append(@, task)]

(* run_query, run_statement: sent to the connection that was chosen. *)
RunQuery(u) ==
    /\ user[u] = "idle" /\ ~InError(u) /\ issued[u] < MaxQueries
    /\ issued' = [issued EXCEPT ![u] = @ + 1]
    /\ \E i \in owned[u], fatal \in BOOLEAN :
          Push(i, [op |-> "query", id |-> <<u, issued[u] + 1>>, fatal |-> fatal])
    /\ UNCHANGED <<user, owned, ko, promise, listed, lock, made, server,
                   alive, base, stored, refused, undone, failures>>

(* run_query_and_get_result, run_statement_and_get_result, and the wait on *)
(* the future.                                                             *)
RunQueryAndGetResult(u) ==
    /\ user[u] = "idle" /\ ~InError(u) /\ issued[u] < MaxQueries
    /\ issued' = [issued EXCEPT ![u] = @ + 1]
    /\ \E i \in owned[u] :
          Push(i, [op |-> "result", id |-> <<u, issued[u] + 1>>, fatal |-> TRUE])
    /\ promise' = [promise EXCEPT ![u] = "unset"] /\ Go(u, "wait result")
    /\ UNCHANGED <<owned, ko, listed, lock, made, server, alive, base, stored,
                   refused, undone, failures>>

(* future.get() returns, or throws and the stream is destroyed. *)
HasResult(u) ==
    /\ user[u] = "wait result" /\ promise[u] # "unset"
    /\ Go(u, IF promise[u] = "value" THEN "idle" ELSE "closing")
    /\ promise' = [promise EXCEPT ![u] = "none"]
    /\ UNCHANGED <<owned, ko, listed, lock, conn, made, server, alive,
                   issued, base, stored, refused, undone, failures>>

(* _check_errors throws: the stream and its mysql object are destroyed. *)
CheckErrors(u) ==
    /\ user[u] = "idle" /\ InError(u) /\ Go(u, "closing")
    /\ UNCHANGED <<owned, ko, promise, listed, lock, conn, made, server,
                   alive, issued, base, stored, refused, undone, failures>>

(* The stream is destroyed for another reason. *)
Close(u) ==
    /\ user[u] = "idle" /\ ~InError(u) /\ Go(u, "closing")
    /\ UNCHANGED <<owned, ko, promise, listed, lock, conn, made, server,
                   alive, issued, base, stored, refused, undone, failures>>

(* mysql::commit, by the owner or by mysql::~mysql: the counter is set     *)
(* before the first task is pushed, and the promise only when it is zero,  *)
(* so that the pushes on the several connections are one step.             *)
Commit(u) ==
    /\ user[u] \in {"idle", "closing"}
    /\ ko' = [ko EXCEPT ![u] = Cardinality(owned[u])]
    /\ conn' = [i \in Conn |-> IF i \in owned[u]
                               THEN [conn[i] EXCEPT !.tasks = Append(@, [op |-> "commit", id |-> u])]
                               ELSE conn[i]]
    /\ promise' = [promise EXCEPT ![u] = "unset"]
    /\ Go(u, IF user[u] = "idle" THEN "wait commit" ELSE "wait close")
    /\ UNCHANGED <<owned, listed, lock, made, server, alive, issued, base, stored,
                   refused, undone, failures>>

(* future.get() has returned. *)
Committed(u) ==
    /\ user[u] = "wait commit" /\ promise[u] = "value"
    /\ promise' = [promise EXCEPT ![u] = "none"] /\ Go(u, "idle")
    /\ UNCHANGED <<owned, ko, listed, lock, conn, made, server, alive,
                   issued, base, stored, refused, undone, failures>>

(* mysql::~mysql after its commit: the connections are given back. *)
Release(u) ==
    /\ user[u] = "wait close" /\ promise[u] = "value"
    /\ promise' = [promise EXCEPT ![u] = "none"]
    /\ owned' = [owned EXCEPT ![u] = {}] /\ Go(u, "release")
    /\ UNCHANGED <<ko, listed, lock, conn, made, server, alive, issued, base,
                   stored, refused, undone, failures>>

-----------------------------------------------------------------------------
(* mysql_connection::_run and its tasks. *)

(* mysql_real_connect, tried every five seconds. *)
Connect(i) ==
    /\ conn[i].at = "connect" /\ server = "up"
    /\ conn' = [conn EXCEPT ![i].at = "run"]
    /\ UNCHANGED <<user, owned, ko, promise, listed, lock, made, server,
                   alive, issued, base, stored, refused, undone, failures>>

Working(i, ops) ==
    /\ conn[i].at \in {"run", "finish"} /\ conn[i].tasks # <<>>
    /\ Head(conn[i].tasks).op \in ops

Task(i) == Head(conn[i].tasks)

(* The task is done; the other fields of the connection become c. *)
Done(i, c) == conn' = [conn EXCEPT ![i] = [c EXCEPT !.tasks = Tail(@)]]

(* The promise of a query with a result. *)
SetPromise(task, value) ==
    promise' = IF task.op = "result" THEN [promise EXCEPT ![task.id[1]] = value] ELSE promise

(* _query, _query_res, _query_int, _statement...: the server has done it. *)
QueryDone(i) ==
    /\ Working(i, {"query", "result"}) /\ ~conn[i].cut
    /\ Done(i, [conn[i] EXCEPT !.need = TRUE, !.txn = @ \union {Task(i).id}])
    /\ SetPromise(Task(i), "value")
    /\ UNCHANGED <<user, owned, ko, listed, lock, made, server, alive,
                   issued, base, stored, refused, undone, failures>>

(* The server refuses the query: an error of the connection only if the    *)
(* query was a fatal one; an exception for the one who waits.  A statement *)
(* is followed by a commit of what was done before.                        *)
QueryRefused(i) ==
    /\ Working(i, {"query", "result"}) /\ ~conn[i].cut /\ failures < MaxFailures
    /\ failures' = failures + 1
    /\ LET t == Task(i)
       IN  \E commits \in BOOLEAN :
              /\ Done(i, [conn[i] EXCEPT !.error = @ \/ (t.op = "query" /\ t.fatal),
                                         !.txn = IF commits THEN {} ELSE @])
              /\ stored' = IF commits THEN stored \union conn[i].txn ELSE stored
              /\ refused' = IF t.op = "query" /\ ~t.fatal THEN refused \union {t.id} ELSE refused
              /\ SetPromise(t, "exception")
    /\ UNCHANGED <<user, owned, ko, listed, lock, made, server, alive,
                   issued, base, undone>>

(* _server_error: the connection is in error. *)
QueryLost(i) ==
    /\ Working(i, {"query", "result"}) /\ conn[i].cut
    /\ Done(i, [conn[i] EXCEPT !.error = TRUE])
    /\ SetPromise(Task(i), "exception")
    /\ UNCHANGED <<user, owned, ko, listed, lock, made, server, alive,
                   issued, base, stored, refused, undone, failures>>

(* _statement..., error 1213: the server has undone the whole transaction; *)
(* the statement alone is tried again.                                     *)
DeadLock(i) ==
    /\ Working(i, {"query", "result"}) /\ ~conn[i].cut /\ failures < MaxFailures
    /\ failures' = failures + 1
    /\ undone' = undone \union conn[i].txn
    /\ conn' = [conn EXCEPT ![i].txn = {}]
    /\ UNCHANGED <<user, owned, ko, promise, listed, lock, made, server, alive,
                   issued, base, stored, refused>>

(* _statement_res: mysql_stmt_store_result has failed; the promise gets an *)
(* exception and then a value, which nobody catches.                       *)
StoreResultFails(i) ==
    /\ Working(i, {"result"}) /\ ~conn[i].cut /\ failures < MaxFailures
    /\ failures' = failures + 1
    /\ alive' = FALSE
    /\ UNCHANGED <<user, owned, ko, promise, listed, lock, conn, made,
                   server, issued, base, stored, refused, undone>>

(* Mutant: a failed commit does not count down. *)
CountDownOnSuccess(u, ok) ==
    /\ ko' = [ko EXCEPT ![u] = IF ok THEN @ - 1 ELSE @]
    /\ promise' = IF ko[u] = 1 /\ ok THEN [promise EXCEPT ![u] = "value"] ELSE promise

(* _commit: the last connection sets the promise, to true in any case. *)
CountDown(u, ok) ==
    /\ ko' = [ko EXCEPT ![u] = @ - 1]
    /\ promise' = IF ko[u] = 1 THEN [promise EXCEPT ![u] = "value"] ELSE promise

(* Mutant: a commit that fails is only logged. *)
RunCommitLogged(i) ==
    /\ Working(i, {"commit"})
    /\ LET ok == ~conn[i].need \/ ~conn[i].cut
       IN  /\ CountDown(Task(i).id, ok)
           /\ stored' = stored \union conn[i].txn
           /\ Done(i, [conn[i] EXCEPT !.need = @ /\ ~ok, !.txn = {}])
    /\ UNCHANGED <<user, owned, listed, lock, made, server, alive, issued, base,
                   refused, undone, failures>>

(* _commit: mysql_commit is called only if a query has succeeded, and      *)
(* fails if the server has closed the session.                             *)
RunCommit(i) ==
    /\ Working(i, {"commit"})
    /\ LET ok == ~conn[i].need \/ ~conn[i].cut
       IN  /\ CountDown(Task(i).id, ok)
           /\ stored' = stored \union conn[i].txn
           /\ Done(i, [conn[i] EXCEPT !.need = @ /\ ~ok, !.txn = {}, !.error = @ \/ ~ok])
    /\ UNCHANGED <<user, owned, listed, lock, made, server, alive, issued, base,
                   refused, undone, failures>>

(* _finish: the thread ends and the destructor goes on. *)
Finish(i) ==
    /\ Working(i, {"finish"})
    /\ conn' = [conn EXCEPT ![i] = NewConn("ended")]
    /\ UNCHANGED <<user, owned, ko, promise, listed, lock, made, server,
                   alive, issued, base, stored, refused, undone, failures>>

(* The server stops: it closes every session and undoes the open           *)
(* transactions.  Later it comes back.                                     *)
ServerStops ==
    /\ server = "up" /\ failures < MaxFailures
    /\ failures' = failures + 1 /\ server' = "down"
    /\ conn' = [i \in Conn |-> IF conn[i].at \in {"run", "finish"}
                               THEN [conn[i] EXCEPT !.cut = TRUE, !.txn = {}]
                               ELSE conn[i]]
    /\ UNCHANGED <<user, owned, ko, promise, listed, lock, made, alive,
                   issued, base, stored, refused, undone>>

ServerStarts ==
    /\ server = "down" /\ server' = "up"
    /\ UNCHANGED <<user, owned, ko, promise, listed, lock, conn, made, alive,
                   issued, base, stored, refused, undone, failures>>

-----------------------------------------------------------------------------

UserStep(u) ==
    \/ GetConnections(u) \/ Created(u) \/ UpdateConnections(u) \/ ConnectionsUpdated(u)
    \/ HasResult(u) \/ Committed(u) \/ Release(u)
    \/ user[u] = "closing" /\ Commit(u)

UserCall(u) ==
    \/ Open(u) \/ RunQuery(u) \/ RunQueryAndGetResult(u) \/ CheckErrors(u) \/ Close(u)
    \/ user[u] = "idle" /\ Commit(u)

WorkerStep(i) ==
    \/ Connect(i) \/ QueryDone(i) \/ QueryLost(i) \/ RunCommit(i)
    \/ Finish(i)

Failure(i) == QueryRefused(i) \/ DeadLock(i) \/ StoreResultFails(i)

MysqlNext ==
    /\ alive
    /\ \/ \E u \in Users : UserStep(u) \/ UserCall(u)
       \/ \E i \in Conn : WorkerStep(i) \/ Failure(i)
       \/ ServerStops \/ ServerStarts

(* The threads of the connections and of their users go on, and a thread   *)
(* that waits for _cfg_mutex gets it some time: the others need it only    *)
(* when they open or destroy a stream.  Nothing says that the server comes *)
(* back.                                                                   *)
MysqlSpec ==
    /\ MysqlInit /\ [][MysqlNext]_mysqlVars
    /\ \A u \in Users : /\ WF_mysqlVars(alive /\ UserStep(u))
                           /\ SF_mysqlVars(alive /\ (GetConnections(u) \/ UpdateConnections(u)))
    /\ \A i \in Conn : WF_mysqlVars(alive /\ WorkerStep(i))

-----------------------------------------------------------------------------
(* Properties. *)

(* A connection that a mysql object uses is never removed by the manager,  *)
(* however the objects come and go.                                        *)
InUseRuns == \A u \in Users : \A i \in owned[u] : conn[i].at \in {"connect", "run"}

(* The promise of a commit is set when all the connections have answered,  *)
(* not before: its counter and its promise are local variables of          *)
(* mysql::commit that the threads of the connections use.                  *)
NoDanglingCommit ==
    \A i \in Conn : \A t \in ToSet(conn[i].tasks) :
        t.op = "commit" => user[t.id] \in {"wait commit", "wait close"} /\ promise[t.id] = "unset"

(* When commit() returns, every query its owner has sent before is stored, *)
(* or one of its connections is in error and the next call throws.  Only a *)
(* query that is not fatal and a dead lock lose data with a mere log.      *)
StoredOrReported ==
    \A u \in Users :
        (user[u] = "wait commit" /\ promise[u] = "value") =>
            \A n \in base[u] + 1 .. issued[u] :
                <<u, n>> \in stored \union refused \union undone \/ InError(u)

(* The invariant of the connections. *)
MysqlInv == MysqlTypeOK /\ InUseRuns /\ NoDanglingCommit /\ StoredOrReported

(* Every call returns, also with connections in error and with others that *)
(* make and remove connections: a commit gets its answers, a query its     *)
(* promise, and _cfg_mutex is left.  Only a server that is down keeps them *)
(* waiting, and with them all who want a connection.                       *)
MysqlReturns ==
    \A u \in Users : []<>(user[u] \in {"none", "idle"} \/ server = "down" \/ ~alive)

=============================================================================
