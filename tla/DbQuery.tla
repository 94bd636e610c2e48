-------------------------------- MODULE DbQuery --------------------------------
(***************************************************************************)
(* PgDb::query_retry and RedisDb::cmd_retry: one query on a pooled         *)
(* connection with one transparent retry, while the database server stops  *)
(* and starts again and sockets break.  The pool's own steps are those of  *)
(* ConnPool; what is added is the server, which connections are alive, and *)
(* what a query reports.  The server is external: it is modelled by what   *)
(* the drivers report to db.rs (as_db_error / is_io_error).                *)
(***************************************************************************)
EXTENDS ConnPool

CONSTANTS MaxStops,   \* bound: server restarts
          MaxSevers   \* bound: single sockets broken by the network

ASSUME BlipAssumption == MaxStops \in Nat /\ MaxSevers \in Nat

VARIABLES up,        \* the server accepts connections and answers
          alive,     \* the open connections whose socket still works
          retried,   \* the local variable of query_retry, per thread
          verdict,   \* what client.query() reported for the guard held now
          result,    \* what the thread's last call returned
          clean,     \* history: the server was up, and no socket broke, since
                     \* the thread's call began
          stops, severs,
          deaths,    \* history: connections whose socket died
          fallout    \* history: calls that returned a socket error

callVars == <<retried, verdict, result>>
serverVars == <<up, alive, stops, severs, deaths>>
vars == <<poolVars, callVars, serverVars, clean, fallout>>

Dead == InUse \ alive

Init ==
  /\ PoolInit
  /\ up = TRUE
  /\ alive = {}
  /\ retried = [t \in Threads |-> FALSE]
  /\ verdict = [t \in Threads |-> "none"]
  /\ result = [t \in Threads |-> "none"]
  /\ clean = [t \in Threads |-> FALSE]
  /\ stops = 0 /\ severs = 0 /\ deaths = 0 /\ fallout = 0
-------------------------------------------------------------------------------
(* The server and the network (external). *)

Stop ==
  /\ up
  /\ stops < MaxStops
  /\ up' = FALSE
  /\ alive' = {}
  /\ deaths' = deaths + Cardinality(alive)
  /\ stops' = stops + 1
  /\ clean' = [t \in Threads |-> FALSE]
  /\ UNCHANGED <<poolVars, callVars, severs, fallout>>

Start ==
  /\ ~up
  /\ up' = TRUE
  /\ UNCHANGED <<poolVars, callVars, alive, stops, severs, deaths, clean, fallout>>

Sever(c) ==
  /\ c \in alive
  /\ severs < MaxSevers
  /\ alive' = alive \ {c}
  /\ deaths' = deaths + 1
  /\ severs' = severs + 1
  /\ clean' = [t \in Threads |-> FALSE]
  /\ UNCHANGED <<poolVars, callVars, up, stops, fallout>>
-------------------------------------------------------------------------------
(* A call of query_retry. *)

Call(t) ==
  /\ Want(t)
  /\ retried' = [retried EXCEPT ![t] = FALSE]
  /\ result' = [result EXCEPT ![t] = "none"]
  /\ clean' = [clean EXCEPT ![t] = up]
  /\ UNCHANGED <<serverVars, verdict, fallout>>

\* self.pool.get()? up to the point where it has a connection or must make one.
Acquire(t) ==
  /\ GetPop(t) \/ GetReserve(t) \/ GetWait(t)
  /\ UNCHANGED <<serverVars, callVars, clean, fallout>>

Wake(t) == SpuriousWake(t) /\ UNCHANGED <<serverVars, callVars, clean, fallout>>

ConnectOk(t, c) ==
  /\ up
  /\ MakeOk(t, c)
  /\ alive' = alive \cup {c}
  /\ UNCHANGED <<up, stops, severs, deaths, callVars, clean, fallout>>

\* A failed connect leaves query_retry at once through `?`, retry or not.
ConnectFail(t) ==
  /\ ~up
  /\ MakeFail(t)
  /\ result' = [result EXCEPT ![t] = "noconn"]
  /\ retried' = [retried EXCEPT ![t] = FALSE]
  /\ UNCHANGED <<serverVars, verdict, clean, fallout>>

\* client.query(): rows or an error of the server when the socket works, a
\* socket error when it does not.
Query(t) ==
  /\ pst[t] = "held"
  /\ verdict[t] = "none"
  /\ \E v \in IF conn[t] \in alive THEN {"rows", "dberr"} ELSE {"io"} :
        verdict' = [verdict EXCEPT ![t] = v]
  /\ UNCHANGED <<poolVars, serverVars, retried, result, clean, fallout>>

\* Ok(rows), or Err with the client kept: the guard goes back to the pool.
Answer(t) ==
  /\ verdict[t] \in {"rows", "dberr"}
  /\ Put(t, "out")
  /\ result' = [result EXCEPT ![t] = verdict[t]]
  /\ verdict' = [verdict EXCEPT ![t] = "none"]
  /\ retried' = [retried EXCEPT ![t] = FALSE]
  /\ UNCHANGED <<serverVars, clean, fallout>>

\* Mutant of IoRetry: the guard is not marked bad, so the dead client goes back.
IoRetryKeepsClient(t) ==
  /\ verdict[t] = "io"
  /\ ~retried[t]
  /\ Put(t, "want")
  /\ verdict' = [verdict EXCEPT ![t] = "none"]
  /\ retried' = [retried EXCEPT ![t] = TRUE]
  /\ UNCHANGED <<serverVars, result, clean, fallout>>

\* Mutant of IoRetry: the guard is leaked, its slot never comes back.
IoRetryLeaksGuard(t) ==
  /\ verdict[t] = "io"
  /\ ~retried[t]
  /\ pst' = [pst EXCEPT ![t] = "want"]
  /\ conn' = [conn EXCEPT ![t] = NoConn]
  /\ verdict' = [verdict EXCEPT ![t] = "none"]
  /\ retried' = [retried EXCEPT ![t] = TRUE]
  /\ UNCHANGED <<idle, created, serverVars, result, clean, fallout>>

\* The first socket error: mark_bad, retried = true, `continue` drops the guard
\* before the next get().
IoRetry(t) ==
  /\ verdict[t] = "io"
  /\ ~retried[t]
  /\ Discard(t, "want")
  /\ verdict' = [verdict EXCEPT ![t] = "none"]
  /\ retried' = [retried EXCEPT ![t] = TRUE]
  /\ UNCHANGED <<serverVars, result, clean, fallout>>

\* Mutant of IoFail: it gives the slot back itself and the guard's Drop again.
IoFailDiscardsTwice(t) ==
  /\ verdict[t] = "io"
  /\ retried[t]
  /\ pst[t] = "held"
  /\ created' = created - 2
  /\ conn' = [conn EXCEPT ![t] = NoConn]
  /\ MoveAndNotify(t, "out")
  /\ result' = [result EXCEPT ![t] = "io"]
  /\ verdict' = [verdict EXCEPT ![t] = "none"]
  /\ retried' = [retried EXCEPT ![t] = FALSE]
  /\ fallout' = fallout + 1
  /\ UNCHANGED <<idle, serverVars, clean>>

\* The second socket error is the caller's.
IoFail(t) ==
  /\ verdict[t] = "io"
  /\ retried[t]
  /\ Discard(t, "out")
  /\ result' = [result EXCEPT ![t] = "io"]
  /\ verdict' = [verdict EXCEPT ![t] = "none"]
  /\ retried' = [retried EXCEPT ![t] = FALSE]
  /\ fallout' = fallout + 1
  /\ UNCHANGED <<serverVars, clean>>

Run(t) ==
  \/ Acquire(t)
  \/ \E c \in Conn : ConnectOk(t, c)
  \/ ConnectFail(t)
  \/ Query(t)
  \/ Answer(t) \/ IoRetry(t) \/ IoFail(t)

Next ==
  \/ \E t \in Threads : Call(t) \/ Wake(t) \/ Run(t)
  \/ \E c \in Conn : Sever(c)
  \/ Stop \/ Start

\* A call that can proceed does: threads are scheduled, and queries and
\* connects return.  Nothing makes the server come back.
Safety == Init /\ [][Next]_vars
Spec == Safety /\ \A t \in Threads : WF_vars(Run(t))
-------------------------------------------------------------------------------
(* Properties *)

QueryTypeOK ==
  /\ TypeOK
  /\ up \in BOOLEAN
  /\ alive \in SUBSET Conn
  /\ retried \in [Threads -> BOOLEAN]
  /\ verdict \in [Threads -> {"none", "rows", "dberr", "io"}]
  /\ result \in [Threads -> {"none", "rows", "dberr", "io", "noconn"}]
  /\ clean \in [Threads -> BOOLEAN]
  /\ stops \in 0..MaxStops /\ severs \in 0..MaxSevers
  /\ deaths \in Nat /\ fallout \in Nat

\* What the retry buys: a socket error reaches the caller only after two dead
\* connections have been used up, so every pair of connections that dies costs
\* at most one failed call (four for a restart of the server behind a full pool
\* of eight), however the threads interleave.
RetryBudget == 2 * fallout <= deaths

\* Once no new call comes, every call returns, whatever the server does: the
\* retry gives its slot back before it asks for the next connection.
CallsReturn ==
  <>[][~\E t \in Threads : Call(t)]_vars => <>[](\A t \in Threads : pst[t] = "out")

\* db.rs:379-383: the failed client is discarded and the query re-run "on a
\* fresh connection, so a transient DB blip does not surface to FUSE callers as
\* EIO": a call during which the server was up all the time gets no socket error.
BlipHidden == \A t \in Threads : result[t] = "io" => ~clean[t]
================================================================================
