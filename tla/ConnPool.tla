------------------------------- MODULE ConnPool -------------------------------
(***************************************************************************)
(* The fixed-capacity connection pool Pool<T> of db.rs.  Every FUSE worker *)
(* thread runs  get();  use;  drop(guard).  A mutex protects `idle` and    *)
(* `created`; each critical section is one action here.  Connecting        *)
(* (`make`) runs outside the lock, so it spans two actions.                *)
(***************************************************************************)
EXTENDS Naturals, Sequences, FiniteSets

CONSTANTS Threads,   \* the FUSE worker threads
          Conn,      \* the identities a connection can have
          NoConn,    \* "no connection"
          Max        \* the capacity, already passed through max.max(1)

ASSUME PoolAssumption ==
  /\ IsFiniteSet(Threads)
  /\ NoConn \notin Conn
  /\ Max \in Nat \ {0}

VARIABLES idle,      \* PoolState.idle, a stack: its top is its last element
          created,   \* PoolState.created
          pst,       \* where each thread is in get()/drop()
          conn       \* the connection inside each thread's guard

poolVars == <<idle, created, pst, conn>>

\* "out"     not inside the pool        "want"  in get(), before the lock
\* "waiting" asleep in Condvar::wait    "awake" notified, lock not yet retaken
\* "making"  connecting, lock released  "held"  owns a guard
Where == {"out", "want", "waiting", "awake", "making", "held"}

At(w) == {t \in Threads : pst[t] = w}
Idle == {idle[i] : i \in 1..Len(idle)}
Busy == {t \in Threads : pst[t] \in {"making", "held"}}
InUse == Idle \cup {conn[t] : t \in At("held")}

PoolInit ==
  /\ idle = <<>>
  /\ created = 0
  /\ pst = [t \in Threads |-> "out"]
  /\ conn = [t \in Threads |-> NoConn]

-------------------------------------------------------------------------------
\* Thread t moves to w while avail.notify_one() wakes one waiter, if any.
MoveAndNotify(t, w) ==
  LET moved == [pst EXCEPT ![t] = w] IN
    IF At("waiting") = {}
      THEN pst' = moved
      ELSE \E u \in At("waiting") : pst' = [moved EXCEPT ![u] = "awake"]

\* get() is called.
Want(t) ==
  /\ pst[t] = "out"
  /\ pst' = [pst EXCEPT ![t] = "want"]
  /\ UNCHANGED <<idle, created, conn>>

Locking(t) == pst[t] \in {"want", "awake"}

\* The loop body of get(): pop the idle stack ...
GetPop(t) ==
  /\ Locking(t)
  /\ idle # <<>>
  /\ conn' = [conn EXCEPT ![t] = idle[Len(idle)]]
  /\ idle' = SubSeq(idle, 1, Len(idle) - 1)
  /\ pst' = [pst EXCEPT ![t] = "held"]
  /\ UNCHANGED created

\* Mutant of GetReserve: the slot is counted only once the connection exists.
GetReserveUncounted(t) ==
  /\ Locking(t)
  /\ idle = <<>>
  /\ created < Max
  /\ pst' = [pst EXCEPT ![t] = "making"]
  /\ UNCHANGED <<idle, created, conn>>

\* Mutant of GetReserve: capacity off by one.
GetReserveOneMore(t) ==
  /\ Locking(t)
  /\ idle = <<>>
  /\ created <= Max
  /\ created' = created + 1
  /\ pst' = [pst EXCEPT ![t] = "making"]
  /\ UNCHANGED <<idle, conn>>

\* ... or reserve a slot and leave the lock to connect ...
GetReserve(t) ==
  /\ Locking(t)
  /\ idle = <<>>
  /\ created < Max
  /\ created' = created + 1
  /\ pst' = [pst EXCEPT ![t] = "making"]
  /\ UNCHANGED <<idle, conn>>

\* ... or sleep on the condition variable.
GetWait(t) ==
  /\ Locking(t)
  /\ idle = <<>>
  /\ created >= Max
  /\ pst' = [pst EXCEPT ![t] = "waiting"]
  /\ UNCHANGED <<idle, created, conn>>

\* Condvar::wait may return without a notification.
SpuriousWake(t) ==
  /\ pst[t] = "waiting"
  /\ pst' = [pst EXCEPT ![t] = "awake"]
  /\ UNCHANGED <<idle, created, conn>>

\* (self.make)() returned a connection: a new one, nobody else has it.
MakeOk(t, c) ==
  /\ pst[t] = "making"
  /\ c \notin InUse
  /\ conn' = [conn EXCEPT ![t] = c]
  /\ pst' = [pst EXCEPT ![t] = "held"]
  /\ UNCHANGED <<idle, created>>

\* Mutant of MakeFail: the error path forgets the slot it reserved.
MakeFailLeaksSlot(t) ==
  /\ pst[t] = "making"
  /\ MoveAndNotify(t, "out")
  /\ UNCHANGED <<idle, created, conn>>

\* (self.make)() failed: give the slot back, get() returns the error.
MakeFail(t) ==
  /\ pst[t] = "making"
  /\ created' = created - 1
  /\ MoveAndNotify(t, "out")
  /\ UNCHANGED <<idle, conn>>

\* Mutant of Put: the connection comes back without waking a waiter.
PutSilently(t, w) ==
  /\ pst[t] = "held"
  /\ idle' = Append(idle, conn[t])
  /\ conn' = [conn EXCEPT ![t] = NoConn]
  /\ pst' = [pst EXCEPT ![t] = w]
  /\ UNCHANGED created

\* Dropping a healthy guard: put().  The caller then leaves (w = "out") or
\* asks again (w = "want").
Put(t, w) ==
  /\ pst[t] = "held"
  /\ idle' = Append(idle, conn[t])
  /\ conn' = [conn EXCEPT ![t] = NoConn]
  /\ MoveAndNotify(t, w)
  /\ UNCHANGED created

\* Mutant of Discard: the freed slot is not announced.
DiscardSilently(t, w) ==
  /\ pst[t] = "held"
  /\ created' = created - 1
  /\ conn' = [conn EXCEPT ![t] = NoConn]
  /\ pst' = [pst EXCEPT ![t] = w]
  /\ UNCHANGED idle

\* Dropping a guard marked bad: the connection is freed, then discard().
Discard(t, w) ==
  /\ pst[t] = "held"
  /\ created' = created - 1
  /\ conn' = [conn EXCEPT ![t] = NoConn]
  /\ MoveAndNotify(t, w)
  /\ UNCHANGED idle

\* What a thread inside the pool does next.
Proceed(t) ==
  \/ GetPop(t) \/ GetReserve(t) \/ GetWait(t)
  \/ MakeFail(t)
  \/ \E c \in Conn : MakeOk(t, c)
  \/ \E w \in {"out", "want"} : Put(t, w) \/ Discard(t, w)

PoolNext == \E t \in Threads : Want(t) \/ SpuriousWake(t) \/ Proceed(t)

PoolSafety == PoolInit /\ [][PoolNext]_poolVars

\* Threads are scheduled and `make` and the query in between return; a waiter
\* runs only after a notification, so SpuriousWake has no fairness.
PoolSpec == PoolSafety /\ \A t \in Threads : WF_poolVars(Proceed(t))
-------------------------------------------------------------------------------
(* Properties *)

TypeOK ==
  /\ idle \in Seq(Conn)
  /\ created \in 0..Max
  /\ pst \in [Threads -> Where]
  /\ conn \in [Threads -> Conn \cup {NoConn}]

\* The counter never drifts: each slot taken is an idle connection, one being
\* made or one checked out.  A leaked slot (a failed connect or a discarded
\* connection not given back) would shrink the pool until everyone waits.
SlotsAccounted == created = Len(idle) + Cardinality(Busy)

\* No lost wakeup: while someone sleeps, every idle connection and every free
\* slot is matched by a thread already on its way to take it.  notify_one in
\* put, discard and the failed make is what keeps this true.
NoLostWakeup ==
  At("waiting") # {} => Len(idle) + (Max - created) <= Cardinality(At("awake"))

\* Once no new request arrives (no get() from outside, and no caller that
\* asks again), every thread gets out of the pool: nobody sleeps for ever.
AskAgain == \E t \in Threads : Want(t) \/ Put(t, "want") \/ Discard(t, "want")
Drains == <>[][~AskAgain]_poolVars => <>[](\A t \in Threads : pst[t] = "out")

\* The pool implements the lease it promises: capacity, and exclusive use.
Promise == INSTANCE Lease WITH open <- InUse, holder <- conn
ImplementsLease == Promise!Spec
===============================================================================
