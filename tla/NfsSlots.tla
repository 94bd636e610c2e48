-------------------------------- MODULE NfsSlots --------------------------------
(***************************************************************************)
(* The pipelined NFS client of nfscli.rs: FUSE workers hand operations to  *)
(* the actor thread of a slot (one libnfs context each) and park on a      *)
(* private reply channel; the actor issues everything queued, then pumps   *)
(* replies until the connection is quiet.  The main thread mounts, forks   *)
(* into the background, serves, and shuts the slots down one by one.       *)
(* libnfs, libfuse and the kernel are external.                            *)
(***************************************************************************)
EXTENDS Naturals, Sequences, FiniteSets

CONSTANTS Workers,      \* FUSE worker threads
          Slot,         \* the number of contexts init() manages to mount
          Handles,      \* the addresses libnfs may give to an open file
          NoHandle,     \* the null nfsfh pointer
          Quit,         \* Task::Quit
          LoopJoins     \* does fuse_main return only when no callback runs?

ASSUME SlotsAssumption ==
  /\ IsFiniteSet(Workers)
  /\ Slot \in Nat \ {0}
  /\ NoHandle \notin Handles
  /\ Quit \notin Workers
  /\ LoopJoins \in BOOLEAN

Slots == 0..(Slot - 1)
NoSlot == Slot          \* "no slot": the key is absent, nobody owns the handle

VARIABLES
  mpc,        \* the main thread
  cur,        \* the slot shutdown() is at
  wpc,        \* where each worker is
  op,         \* the operation each worker runs: kind, slot, file handle
  reply,      \* each worker's private channel
  next,       \* NfsPool.next, modulo the number of slots
  openFiles,  \* NfsPool.open_files; NoSlot when the key is absent
  actor,      \* each slot's actor thread
  queue,      \* each slot's task channel
  inflight,   \* each slot's counter
  issued,     \* the operations libnfs holds a Pending of, per context
  owner,      \* libnfs: the context whose open file lives at an address
  destroyed,  \* contexts freed
  files       \* libfuse: the handles it may still read or must release

workerVars == <<wpc, op, reply>>
slotVars == <<actor, queue, inflight, issued>>
mainVars == <<mpc, cur, destroyed>>
fileVars == <<openFiles, owner, files>>
vars == <<mpc, cur, wpc, op, reply, next, openFiles, actor, queue, inflight,
          issued, owner, destroyed, files>>

Kinds == {"path", "open", "read", "close"}
NoOp == [kind |-> "path", slot |-> NoSlot, fh |-> NoHandle]
Empty == [st |-> "empty", fh |-> NoHandle]
Answer(st, fh) == [st |-> st, fh |-> fh]

\* "path" stands for lstat64, readlink and statvfs.
Ops == [kind : Kinds, slot : Slots \cup {NoSlot}, fh : Handles \cup {NoHandle}]
Replies == [st : {"empty", "ok", "err", "gone"}, fh : Handles \cup {NoHandle}]

Queued(s) == {queue[s][i] : i \in 1..Len(queue[s])}

\* Mutant of Init: init() spawns the actors itself.
InitEager ==
  /\ mpc = "mounted" /\ cur = 0
  /\ wpc = [w \in Workers |-> "idle"]
  /\ op = [w \in Workers |-> NoOp]
  /\ reply = [w \in Workers |-> Empty]
  /\ next = 0
  /\ openFiles = [h \in Handles |-> NoSlot]
  /\ actor = [s \in Slots |-> "recv"]
  /\ queue = [s \in Slots |-> <<>>]
  /\ inflight = [s \in Slots |-> 0]
  /\ issued = [s \in Slots |-> {}]
  /\ owner = [h \in Handles |-> NoSlot]
  /\ destroyed = [s \in Slots |-> FALSE]
  /\ files = {}

\* The state nfscli::init leaves: contexts mounted, channels made, no thread yet.
Init ==
  /\ mpc = "mounted" /\ cur = 0
  /\ wpc = [w \in Workers |-> "idle"]
  /\ op = [w \in Workers |-> NoOp]
  /\ reply = [w \in Workers |-> Empty]
  /\ next = 0
  /\ openFiles = [h \in Handles |-> NoSlot]
  /\ actor = [s \in Slots |-> "none"]
  /\ queue = [s \in Slots |-> <<>>]
  /\ inflight = [s \in Slots |-> 0]
  /\ issued = [s \in Slots |-> {}]
  /\ owner = [h \in Handles |-> NoSlot]
  /\ destroyed = [s \in Slots |-> FALSE]
  /\ files = {}
---------------------------------------------------------------------------------
(* FUSE workers. *)

Serving == mpc \notin {"mounted", "done"}
Accepting == IF LoopJoins THEN mpc = "serving" ELSE Serving

Begin(w, kind, s, h) ==
  /\ wpc' = [wpc EXCEPT ![w] = "start"]
  /\ op' = [op EXCEPT ![w] = [kind |-> kind, slot |-> s, fh |-> h]]

\* Mutant of PickSlot: the counter itself is used as the index.
PickSlotNoWrap(w, kind) ==
  /\ Accepting /\ wpc[w] = "idle"
  /\ Begin(w, kind, next, NoHandle)
  /\ next' = next + 1
  /\ UNCHANGED <<reply, slotVars, mainVars, fileVars>>

\* lstat64, readlink, statvfs and open take the next slot in rotation.
PickSlot(w, kind) ==
  /\ Accepting /\ wpc[w] = "idle"
  /\ Begin(w, kind, next, NoHandle)
  /\ next' = (next + 1) % Slot
  /\ UNCHANGED <<reply, slotVars, mainVars, fileVars>>

\* pread looks the handle up and goes to the slot that opened it; a handle that
\* is not in the map is EIO at once, which changes nothing.
ReadLookup(w, h) ==
  /\ Accepting /\ wpc[w] = "idle"
  /\ h \in files
  /\ openFiles[h] # NoSlot
  /\ Begin(w, "read", openFiles[h], h)
  /\ UNCHANGED <<reply, next, slotVars, mainVars, fileVars>>

\* Mutant of CloseRemove: the map is cleaned up only after the close returned.
CloseKeepsEntry(w, h) ==
  /\ Accepting /\ wpc[w] = "idle"
  /\ h \in files
  /\ \A v \in Workers : op[v].fh # h
  /\ files' = files \ {h}
  /\ openFiles[h] # NoSlot
  /\ Begin(w, "close", openFiles[h], h)
  /\ UNCHANGED <<openFiles, reply, next, owner, slotVars, mainVars>>

\* close takes the handle out of the map before it queues anything.  libfuse
\* releases a handle once, after the last operation on it.  (A handle that is
\* not in the map is left alone.)
CloseRemove(w, h) ==
  /\ Accepting /\ wpc[w] = "idle"
  /\ h \in files
  /\ \A v \in Workers : op[v].fh # h
  /\ files' = files \ {h}
  /\ openFiles[h] # NoSlot
  /\ openFiles' = [openFiles EXCEPT ![h] = NoSlot]
  /\ Begin(w, "close", openFiles[h], h)
  /\ UNCHANGED <<reply, next, owner, slotVars, mainVars>>

\* ensure_started(): whoever takes the receiver spawns the actor.
EnsureStarted(w) ==
  LET s == op[w].slot IN
    /\ Serving /\ wpc[w] = "start"
    /\ wpc' = [wpc EXCEPT ![w] = "send"]
    /\ actor' = IF actor[s] = "none" THEN [actor EXCEPT ![s] = "recv"] ELSE actor
    /\ UNCHANGED <<op, reply, next, queue, inflight, issued, mainVars, fileVars>>

\* slot.tx.send(task), then rx.recv() on the private channel; a send to an
\* actor that has gone fails and the operation returns EIO.
Send(w) ==
  LET s == op[w].slot IN
    /\ Serving /\ wpc[w] = "send"
    /\ wpc' = [wpc EXCEPT ![w] = "park"]
    /\ IF actor[s] = "gone"
         THEN reply' = [reply EXCEPT ![w] = Answer("gone", NoHandle)] /\ UNCHANGED queue
         ELSE queue' = [queue EXCEPT ![s] = Append(@, w)] /\ UNCHANGED reply
    /\ UNCHANGED <<op, next, actor, inflight, issued, mainVars, fileVars>>

Finish(w) ==
  /\ wpc' = [wpc EXCEPT ![w] = "idle"]
  /\ op' = [op EXCEPT ![w] = NoOp]
  /\ reply' = [reply EXCEPT ![w] = Empty]

\* The worker wakes up with its reply and returns.
Return(w) ==
  /\ Serving /\ wpc[w] = "park" /\ reply[w].st # "empty"
  /\ op[w].kind # "open" \/ reply[w].st # "ok" \/ reply[w].fh = NoHandle
  /\ Finish(w)
  /\ UNCHANGED <<next, slotVars, mainVars, fileVars>>

\* Mutant of ReturnOpen: the slot is picked again instead of remembered.
ReturnOpenForgetsSlot(w) ==
  LET h == reply[w].fh IN
    /\ Serving /\ wpc[w] = "park"
    /\ op[w].kind = "open" /\ reply[w].st = "ok" /\ h # NoHandle
    /\ openFiles' = [openFiles EXCEPT ![h] = next]
    /\ files' = files \cup {h}
    /\ Finish(w)
    /\ UNCHANGED <<next, owner, slotVars, mainVars>>

\* A successful open records which slot owns the handle.
ReturnOpen(w) ==
  LET h == reply[w].fh IN
    /\ Serving /\ wpc[w] = "park"
    /\ op[w].kind = "open" /\ reply[w].st = "ok" /\ h # NoHandle
    /\ openFiles' = [openFiles EXCEPT ![h] = op[w].slot]
    /\ files' = files \cup {h}
    /\ Finish(w)
    /\ UNCHANGED <<next, owner, slotVars, mainVars>>
---------------------------------------------------------------------------------
(* The actor of slot s. *)

Alive(s) == mpc # "done" /\ actor[s] \in {"recv", "drain", "check", "service"}

\* What an operation does to libnfs when it completes with status st: an open
\* creates a file at an address nothing else lives at, a close frees it.
Effect(w, s, st, h) ==
  CASE op[w].kind = "open" /\ st = "ok" ->
         \/ h = NoHandle /\ UNCHANGED owner
         \/ h \in Handles /\ owner[h] = NoSlot /\ owner' = [owner EXCEPT ![h] = s]
    [] op[w].kind = "close" ->
         h = NoHandle /\ owner' = [owner EXCEPT ![op[w].fh] = NoSlot]
    [] OTHER -> h = NoHandle /\ UNCHANGED owner

\* Mutant of IssueQueued: `ret <= 0` instead of `ret < 0`, so a request libnfs
\* accepted is answered as if it had been refused.
IssueQueuedAnswered(s, w) ==
  /\ issued' = [issued EXCEPT ![s] = @ \cup {w}]
  /\ reply' = [reply EXCEPT ![w] = Answer("err", NoHandle)]
  /\ UNCHANGED <<inflight, owner>>

\* libnfs queued the request: the Pending is its own until the callback.
IssueQueued(s, w) ==
  /\ inflight' = [inflight EXCEPT ![s] = @ + 1]
  /\ issued' = [issued EXCEPT ![s] = @ \cup {w}]
  /\ UNCHANGED <<reply, owner>>

\* Mutant of IssueRejected: the error path forgets to uncount the request.
IssueRejectedCounted(s, w) ==
  /\ reply' = [reply EXCEPT ![w] = Answer("err", NoHandle)]
  /\ inflight' = [inflight EXCEPT ![s] = @ + 1]
  /\ UNCHANGED <<issued, owner>>

\* libnfs refused it (ret < 0): counted, uncounted and answered at once.
IssueRejected(s, w) ==
  /\ reply' = [reply EXCEPT ![w] = Answer("err", NoHandle)]
  /\ UNCHANGED <<inflight, issued, owner>>

\* libnfs ran the callback inside the call: its fetch_sub follows our fetch_add.
IssueCompleted(s, w) ==
  \E st \in {"ok", "err"}, h \in Handles \cup {NoHandle} :
    /\ Effect(w, s, st, h)
    /\ reply' = [reply EXCEPT ![w] = Answer(st, h)]
    /\ UNCHANGED <<inflight, issued>>

\* handle_task() on an operation.  From recv() or check the actor goes on to
\* take everything else that is queued.
HandleOp(s) ==
  /\ Alive(s) /\ actor[s] \in {"recv", "drain"}
  /\ queue[s] # <<>> /\ Head(queue[s]) # Quit
  /\ LET w == Head(queue[s]) IN
       IssueQueued(s, w) \/ IssueRejected(s, w) \/ IssueCompleted(s, w)
  /\ queue' = [queue EXCEPT ![s] = Tail(@)]
  /\ actor' = [actor EXCEPT ![s] = "drain"]
  /\ UNCHANGED <<wpc, op, next, openFiles, files, mainVars>>

\* handle_task() on Quit: runner() returns and drops the receiver, and with it
\* every task still queued, so those workers find their channel disconnected.
HandleQuit(s) ==
  /\ Alive(s) /\ actor[s] \in {"recv", "drain"}
  /\ queue[s] # <<>> /\ Head(queue[s]) = Quit
  /\ reply' = [w \in Workers |-> IF w \in Queued(s) THEN Answer("gone", NoHandle)
                                                   ELSE reply[w]]
  /\ queue' = [queue EXCEPT ![s] = <<>>]
  /\ actor' = [actor EXCEPT ![s] = "gone"]
  /\ UNCHANGED <<wpc, op, next, inflight, issued, mainVars, fileVars>>

\* try_recv() found the channel empty.
Drained(s) ==
  /\ Alive(s) /\ actor[s] = "drain" /\ queue[s] = <<>>
  /\ actor' = [actor EXCEPT ![s] = "check"]
  /\ UNCHANGED <<workerVars, next, queue, inflight, issued, mainVars, fileVars>>

\* Mutant of Check: one round of service, then back to recv().
CheckOnce(s) ==
  /\ Alive(s) /\ actor[s] = "check"
  /\ actor' = [actor EXCEPT ![s] = "recv"]
  /\ UNCHANGED <<workerVars, next, queue, inflight, issued, mainVars, fileVars>>

\* while inflight > 0 { pump ... }, else back to the blocking recv().
Check(s) ==
  /\ Alive(s) /\ actor[s] = "check"
  /\ actor' = [actor EXCEPT ![s] = IF inflight[s] > 0 THEN "service" ELSE "recv"]
  /\ UNCHANGED <<workerVars, next, queue, inflight, issued, mainVars, fileVars>>

\* A callback inside nfs_service(): complete() uncounts and answers.
Callback(s, w) ==
  /\ Alive(s) /\ actor[s] = "service" /\ w \in issued[s]
  /\ \E st \in {"ok", "err"}, h \in Handles \cup {NoHandle} :
       Effect(w, s, st, h) /\ reply' = [reply EXCEPT ![w] = Answer(st, h)]
  /\ issued' = [issued EXCEPT ![s] = @ \ {w}]
  /\ inflight' = [inflight EXCEPT ![s] = @ - 1]
  /\ UNCHANGED <<wpc, op, next, openFiles, files, actor, queue, mainVars>>

\* pump() returns: poll timed out, was interrupted, or the service round ended.
Pumped(s) ==
  /\ Alive(s) /\ actor[s] = "service"
  /\ actor' = [actor EXCEPT ![s] = "drain"]
  /\ UNCHANGED <<workerVars, next, queue, inflight, issued, mainVars, fileVars>>
---------------------------------------------------------------------------------
(* The main thread. *)

MainStep(from, to) == mpc = from /\ mpc' = to

\* fuse_main daemonizes: of a process that forks, only the forking thread
\* survives, so an actor already running would be lost.
Fork ==
  /\ MainStep("mounted", "serving")
  /\ actor' = [s \in Slots |-> IF actor[s] = "none" THEN "none" ELSE "lost"]
  /\ UNCHANGED <<cur, destroyed, workerVars, next, queue, inflight, issued, fileVars>>

\* -f: no fork.
Foreground ==
  /\ MainStep("mounted", "serving")
  /\ UNCHANGED <<cur, destroyed, workerVars, next, slotVars, fileVars>>

\* fuse_main returns and shutdown() begins.
LoopEnds ==
  /\ MainStep("serving", "quit")
  /\ LoopJoins => \A w \in Workers : wpc[w] = "idle"
  /\ UNCHANGED <<cur, destroyed, workerVars, next, slotVars, fileVars>>

\* Mutant of SendQuit: shutdown() counts on the actor to see its channel close.
SendNothing ==
  /\ MainStep("quit", "join")
  /\ UNCHANGED <<cur, destroyed, workerVars, next, slotVars, fileVars>>

SendQuit ==
  /\ MainStep("quit", "join")
  /\ queue' = IF actor[cur] = "gone" THEN queue
              ELSE [queue EXCEPT ![cur] = Append(@, Quit)]
  /\ UNCHANGED <<cur, destroyed, workerVars, next, actor, inflight, issued, fileVars>>

\* Mutant of Join: shutdown() does not wait for the actor.
NoJoin ==
  /\ MainStep("join", "destroy")
  /\ UNCHANGED <<cur, destroyed, workerVars, next, slotVars, fileVars>>

\* The handle, if there is one, is taken and joined; nothing to join before the
\* first operation started the actor.
Join ==
  /\ actor[cur] \in {"none", "gone"}
  /\ MainStep("join", "destroy")
  /\ UNCHANGED <<cur, destroyed, workerVars, next, slotVars, fileVars>>

\* nfs_destroy_context(): libnfs cancels what it still holds, and the files of
\* the context go with it.  After the last slot the map is cleared.
Destroy ==
  /\ mpc = "destroy"
  /\ destroyed' = [destroyed EXCEPT ![cur] = TRUE]
  /\ reply' = [w \in Workers |-> IF w \in issued[cur] THEN Answer("err", NoHandle)
                                                     ELSE reply[w]]
  /\ issued' = [issued EXCEPT ![cur] = {}]
  /\ inflight' = [inflight EXCEPT ![cur] = @ - Cardinality(issued[cur])]
  /\ owner' = [h \in Handles |-> IF owner[h] = cur THEN NoSlot ELSE owner[h]]
  /\ IF cur + 1 < Slot
       THEN mpc' = "quit" /\ cur' = cur + 1 /\ UNCHANGED openFiles
       ELSE /\ mpc' = "done" /\ cur' = cur
            /\ openFiles' = [h \in Handles |-> NoSlot]
  /\ UNCHANGED <<wpc, op, next, actor, queue, files>>

Exited == mpc = "done" /\ UNCHANGED vars
---------------------------------------------------------------------------------
Request(w) == \/ \E kind \in {"path", "open"} : PickSlot(w, kind)
              \/ \E h \in Handles : ReadLookup(w, h) \/ CloseRemove(w, h)

WorkerStep(w) == EnsureStarted(w) \/ Send(w) \/ Return(w) \/ ReturnOpen(w)

ActorStep(s) == HandleOp(s) \/ HandleQuit(s) \/ Drained(s) \/ Check(s) \/ Pumped(s)

Shutdown == SendQuit \/ Join \/ Destroy

Next ==
  \/ \E w \in Workers : Request(w) \/ WorkerStep(w)
  \/ \E s \in Slots : ActorStep(s) \/ \E w \in Workers : Callback(s, w)
  \/ Fork \/ Foreground \/ LoopEnds \/ Shutdown \/ Exited

Safety == Init /\ [][Next]_vars

\* Threads are scheduled; libnfs answers or fails every request it holds when
\* it is pumped again and again (a dead socket completes them with an error).
Fairness ==
  /\ \A w \in Workers : WF_vars(WorkerStep(w))
  /\ \A s \in Slots : WF_vars(ActorStep(s))
  /\ \A s \in Slots, w \in Workers : SF_vars(Callback(s, w))
  /\ WF_vars(Shutdown)

Spec == Safety /\ Fairness
---------------------------------------------------------------------------------
(* Properties *)

TypeOK ==
  /\ mpc \in {"mounted", "serving", "quit", "join", "destroy", "done"}
  /\ cur \in Slots
  /\ wpc \in [Workers -> {"idle", "start", "send", "park"}]
  /\ op \in [Workers -> Ops]
  /\ reply \in [Workers -> Replies]
  /\ next \in Slots
  /\ openFiles \in [Handles -> Slots \cup {NoSlot}]
  /\ actor \in [Slots -> {"none", "recv", "drain", "check", "service", "gone", "lost"}]
  /\ queue \in [Slots -> Seq(Workers \cup {Quit})]
  /\ inflight \in [Slots -> Nat]
  /\ issued \in [Slots -> SUBSET Workers]
  /\ owner \in [Handles -> Slots \cup {NoSlot}]
  /\ destroyed \in [Slots -> BOOLEAN]
  /\ files \in SUBSET Handles

\* The counter the pump loop watches is the number of requests libnfs holds:
\* too low and the actor parks with replies outstanding, too high and it spins.
InflightExact == \A s \in Slots : inflight[s] = Cardinality(issued[s])

\* The actor blocks in recv() only when libnfs holds nothing: a reply that
\* arrives while it sleeps there would not be read until the next operation.
NoBlindWait == \A s \in Slots : actor[s] = "recv" => issued[s] = {}

\* libnfs writes into buffers of the worker's stack frame: as long as a task is
\* queued or issued its worker is parked, unanswered, and the task is in the one
\* slot it was sent to.
BuffersOwned ==
  \A s \in Slots : \A w \in Workers :
    w \in Queued(s) \cup issued[s] =>
      wpc[w] = "park" /\ reply[w] = Empty /\ op[w].slot = s

\* Until the loop ends, the map holds exactly the handles libfuse has, each with
\* the context it lives in, and every queued read or close goes to that context.
\* An entry that outlived its file would misroute the next file at its address.
HandlesAtHome ==
  mpc = "serving" =>
    /\ \A h \in Handles : openFiles[h] = IF h \in files THEN owner[h] ELSE NoSlot
    /\ \A h \in files : owner[h] # NoSlot
    /\ \A w \in Workers :
         op[w].kind \in {"read", "close"} /\ reply[w] = Empty =>
           owner[op[w].fh] = op[w].slot

\* No thread touches a context after nfs_destroy_context: its actor is out of
\* the loop, or will read the Quit that shutdown() queued before anything else.
NoUseAfterDestroy ==
  \A s \in Slots : destroyed[s] =>
    /\ issued[s] = {}
    /\ actor[s] \in {"none", "recv", "gone"}
    /\ actor[s] # "gone" => queue[s] # <<>> /\ Head(queue[s]) = Quit

\* Every operation handed to an actor is answered, until the process exits.  The
\* actor empties its channel before it pumps, so this needs that libnfs does not
\* go on for ever refusing or completing requests on the spot: a worker that is
\* answered at once may refill the channel while another waits for the pump.
OnTheSpot == \E s \in Slots : HandleOp(s) /\ inflight' = inflight
Answered ==
  <>[][~OnTheSpot]_vars =>
    \A w \in Workers : wpc[w] = "park" ~> wpc[w] # "park" \/ mpc = "done"

\* Shutdown terminates: every actor sees its Quit and is joined.
ShutdownEnds == mpc = "quit" ~> mpc = "done"
=================================================================================
