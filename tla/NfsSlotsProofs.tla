---------------------------- MODULE NfsSlotsProofs ----------------------------
(***************************************************************************)
(* The pipelined NFS client is correct for every finite set of workers,    *)
(* every number of slots, any set of handle addresses, and whether or not  *)
(* callbacks run on into shutdown().  The inductive invariant has two      *)
(* layers: Channels says where every operation, every task and every Quit  *)
(* is, and Home which context every handle lives in.                       *)
(***************************************************************************)
EXTENDS NfsSlots, FiniteSetTheorems, SequenceTheorems, TLAPS

\* What is in a channel, and that nothing is in it twice.
Elems(q) == {q[i] : i \in 1..Len(q)}
Once(q) == \A i, j \in 1..Len(q) : q[i] = q[j] => i = j

\* shutdown() has sent its Quit to slot s; it has joined the actor of slot s.
QuitSent(s) == s < cur \/ (s = cur /\ mpc \in {"join", "destroy", "done"})
Joined(s) == s < cur \/ (s = cur /\ mpc \in {"destroy", "done"})

\* An operation is in one place: once in a channel, or with libnfs.
OnePlace ==
  \A s \in Slots : Once(queue[s]) /\ issued[s] \cap Queued(s) = {}

\* What the place of a worker says of its operation, its reply and its actor.
WorkersInStep ==
  \A w \in Workers :
    /\ wpc[w] = "idle" => op[w] = NoOp
    /\ wpc[w] # "idle" => op[w].slot \in Slots
    /\ wpc[w] # "park" => reply[w] = Empty
    /\ reply[w] # Empty => reply[w].st # "empty"
    /\ wpc[w] = "send" => actor[op[w].slot] # "none"

\* Nothing runs before the fork; an actor that does not run has nothing to do.
ActorsInStep ==
  /\ mpc = "mounted" => /\ \A w \in Workers : wpc[w] = "idle"
                        /\ \A s \in Slots : actor[s] = "none"
  /\ \A s \in Slots :
       /\ actor[s] # "lost"
       /\ actor[s] = "none" => issued[s] = {} /\ Queued(s) \subseteq {Quit}
       /\ actor[s] = "gone" => queue[s] = <<>>

\* Where shutdown() is: a Quit was sent at most once, and what was joined stays
\* away from its context, for a Quit is the next task it would take.
QuitInStep ==
  \A s \in Slots :
    /\ Quit \in Queued(s) => QuitSent(s)
    /\ QuitSent(s) /\ actor[s] = "none" => queue[s] # <<>>
    /\ destroyed[s] => Joined(s) /\ issued[s] = {}
    /\ Joined(s) => /\ actor[s] \in {"none", "recv", "gone"}
                    /\ actor[s] # "gone" => queue[s] # <<>> /\ Head(queue[s]) = Quit

Channels ==
  /\ TypeOK /\ InflightExact /\ NoBlindWait /\ BuffersOwned
  /\ OnePlace /\ WorkersInStep /\ ActorsInStep /\ QuitInStep

-------------------------------------------------------------------------------
(* Channels as sequences. *)

\* What a send leaves in a channel.
LEMMA SendElems ==
  ASSUME NEW S, NEW q \in Seq(S), NEW x \in S
  PROVE  /\ Append(q, x) \in Seq(S)
         /\ Append(q, x) # <<>>
         /\ Elems(Append(q, x)) = Elems(q) \cup {x}
         /\ Once(q) /\ x \notin Elems(q) => Once(Append(q, x))
         /\ Head(Append(q, x)) = IF q = <<>> THEN x ELSE Head(q)
<1>1. /\ Append(q, x) \in Seq(S)
      /\ Len(Append(q, x)) = Len(q) + 1
      /\ \A i \in 1..Len(q) : Append(q, x)[i] = q[i]
      /\ Append(q, x)[Len(q) + 1] = x
  BY AppendProperties
<1>2. Len(q) \in Nat
  OBVIOUS
<1> DEFINE r == Append(q, x)
<1> HIDE DEF r
<1>3. Elems(r) = Elems(q) \cup {x}
  <2>1. \A i \in 1..Len(r) : i \in 1..Len(q) \/ i = Len(q) + 1
    BY <1>1, <1>2 DEF r
  <2>2. \A i \in 1..Len(q) : i \in 1..Len(r)
    BY <1>1, <1>2 DEF r
  <2>3. Len(q) + 1 \in 1..Len(r)
    BY <1>1, <1>2 DEF r
  <2> QED
    BY <1>1, <2>1, <2>2, <2>3 DEF Elems, r
<1>4. Once(q) /\ x \notin Elems(q) => Once(r)
  BY <1>1, <1>2 DEF Once, Elems, r
<1>5. Append(q, x) # <<>> /\ Head(Append(q, x)) = IF q = <<>> THEN x ELSE Head(q)
  BY AppendProperties, HeadTailAppend
<1> QED
  BY <1>1, <1>3, <1>4, <1>5 DEF r

\* What a receive takes out of a channel and leaves in it.
LEMMA ReceiveElems ==
  ASSUME NEW S, NEW q \in Seq(S), q # <<>>, Once(q)
  PROVE  /\ Head(q) \in S /\ Tail(q) \in Seq(S)
         /\ Head(q) \in Elems(q)
         /\ Elems(Tail(q)) = Elems(q) \ {Head(q)}
         /\ Once(Tail(q))
<1>1. /\ Tail(q) \in Seq(S) /\ Head(q) \in S
      /\ Len(Tail(q)) = Len(q) - 1
      /\ \A i \in 1..Len(Tail(q)) : Tail(q)[i] = q[i + 1]
  BY HeadTailProperties
<1>2. Len(q) \in Nat /\ Len(q) > 0 /\ Head(q) = q[1]
  OBVIOUS
<1> DEFINE r == Tail(q)
<1> HIDE DEF r
<1>3. Elems(r) = Elems(q) \ {Head(q)}
  <2>1. ASSUME NEW y \in Elems(r) PROVE y \in Elems(q) \ {Head(q)}
    <3>1. PICK i \in 1..Len(r) : y = r[i]
      BY DEF Elems
    <3>2. i + 1 \in 1..Len(q) /\ y = q[i + 1] /\ i + 1 # 1 /\ 1 \in 1..Len(q)
      BY <1>1, <1>2, <3>1 DEF r
    <3> QED
      BY <1>2, <3>2 DEF Elems, Once
  <2>2. ASSUME NEW y \in Elems(q), y # Head(q) PROVE y \in Elems(r)
    <3>1. PICK i \in 1..Len(q) : y = q[i]
      BY DEF Elems
    <3>2. i - 1 \in 1..Len(r) /\ r[i - 1] = q[i - 1 + 1] /\ i - 1 + 1 = i
      BY <1>1, <1>2, <2>2, <3>1 DEF r
    <3> QED
      BY <3>1, <3>2 DEF Elems
  <2> QED
    BY <2>1, <2>2
<1>4. Once(r)
  BY <1>1, <1>2 DEF Once, r
<1>5. Head(q) \in Elems(q)
  BY <1>2 DEF Elems
<1> QED
  BY <1>1, <1>3, <1>4, <1>5 DEF r

\* Queued is the elements of the queue, before and after a step.
LEMMA QueuedElems ==
  \A s : Queued(s) = Elems(queue[s]) /\ Queued(s)' = Elems(queue'[s])
BY DEF Queued, Elems

LEMMA NothingQueued == Elems(<<>>) = {} /\ Once(<<>>)
BY DEF Elems, Once

\* Sets of operations are finite, so their cardinalities count.
LEMMA IssuedSets ==
  ASSUME NEW S \in SUBSET Workers
  PROVE  /\ IsFiniteSet(S) /\ Cardinality(S) \in Nat
         /\ Cardinality(S) = 0 <=> S = {}
BY SlotsAssumption, FS_Subset, FS_CardinalityType, FS_EmptySet
-------------------------------------------------------------------------------
(* Channels: it holds initially, and every action preserves it. *)

LEMMA InitChannels == Init => Channels
<1> SUFFICES ASSUME Init PROVE Channels
  OBVIOUS
<1>0. Slot \in Nat /\ Slot > 0 /\ 0 \in Slots /\ NoSlot \notin Slots
  BY SlotsAssumption DEF Slots, NoSlot
<1>1. TypeOK
  BY <1>0, EmptySeq DEF Init, TypeOK, NoOp, Empty, Ops, Replies, Kinds
<1>2. InflightExact
  BY IssuedSets DEF Init, InflightExact
<1>3. NoBlindWait /\ WorkersInStep
  BY DEF Init, NoBlindWait, WorkersInStep
<1>4. \A s \in Slots : queue[s] = <<>> /\ issued[s] = {} /\ Queued(s) = {}
  BY QueuedElems, NothingQueued DEF Init
<1>5. BuffersOwned /\ OnePlace
  BY <1>4, NothingQueued DEF BuffersOwned, OnePlace
<1>6. ActorsInStep
  BY <1>4 DEF Init, ActorsInStep
<1>7. \A s \in Slots : ~QuitSent(s) /\ ~Joined(s) /\ ~destroyed[s]
  BY <1>0 DEF Init, QuitSent, Joined, Slots
<1>8. QuitInStep
  BY <1>4, <1>7 DEF QuitInStep
<1> QED
  BY <1>1, <1>2, <1>3, <1>5, <1>6, <1>8 DEF Channels

\* A worker takes up an operation: nothing of it is in a channel or with libnfs.
LEMMA BeginChannels ==
  ASSUME Channels, NEW w \in Workers, NEW kind \in Kinds, NEW s \in Slots,
         NEW h \in Handles \cup {NoHandle},
         wpc[w] = "idle", mpc # "mounted", Begin(w, kind, s, h),
         next' \in Slots, openFiles' \in [Handles -> Slots \cup {NoSlot}],
         files' \in SUBSET Handles, UNCHANGED <<reply, owner, slotVars, mainVars>>
  PROVE  Channels'
<1>1. TypeOK'
  BY DEF Channels, TypeOK, Begin, Ops, slotVars, mainVars
<1>2. UNCHANGED <<actor, queue, inflight, issued, reply, mpc, cur, destroyed>>
  BY DEF slotVars, mainVars
<1>3. InflightExact' /\ NoBlindWait'
  BY <1>2 DEF Channels, InflightExact, NoBlindWait
<1>4. \A r \in Slots : Queued(r)' = Queued(r)
  BY <1>2 DEF Queued
<1>5. BuffersOwned'
  BY <1>2, <1>4 DEF Channels, BuffersOwned, TypeOK, Begin
<1>6. OnePlace'
  BY <1>2, <1>4 DEF Channels, OnePlace
<1>7. WorkersInStep'
  BY <1>2 DEF Channels, WorkersInStep, TypeOK, Begin
<1>8. ActorsInStep'
  BY <1>2, <1>4 DEF Channels, ActorsInStep
<1>9. QuitInStep'
  BY <1>2, <1>4 DEF Channels, QuitInStep, QuitSent, Joined
<1> QED
  BY <1>1, <1>3, <1>5, <1>6, <1>7, <1>8, <1>9 DEF Channels

LEMMA RequestChannels ==
  ASSUME Channels, NEW w \in Workers, Request(w)
  PROVE  Channels'
<1>0. /\ Slot \in Nat \ {0} /\ next \in Slots /\ (next + 1) % Slot \in Slots
      /\ NoHandle \in Handles \cup {NoHandle}
  BY SlotsAssumption DEF Channels, TypeOK, Slots
<1>1. Accepting => mpc # "mounted"
  BY DEF Accepting, Serving
<1>2. ASSUME NEW kind \in {"path", "open"}, PickSlot(w, kind) PROVE Channels'
  <2>1. kind \in Kinds /\ UNCHANGED <<openFiles, owner, files>>
    BY <1>2 DEF Kinds, PickSlot, fileVars
  <2> QED
    BY <1>0, <1>1, <1>2, <2>1, BeginChannels DEF PickSlot, Channels, TypeOK
<1>3. ASSUME NEW h \in Handles, ReadLookup(w, h) PROVE Channels'
  <2>1. /\ "read" \in Kinds /\ openFiles[h] \in Slots
        /\ UNCHANGED <<openFiles, owner, files, next>>
    BY <1>3 DEF Kinds, ReadLookup, fileVars, Channels, TypeOK
  <2> QED
    BY <1>0, <1>1, <1>3, <2>1, BeginChannels DEF ReadLookup, Channels, TypeOK
<1>4. ASSUME NEW h \in Handles, CloseRemove(w, h) PROVE Channels'
  <2>1. "close" \in Kinds /\ openFiles[h] \in Slots /\ next' = next
    BY <1>4 DEF Kinds, CloseRemove, Channels, TypeOK
  <2>2. /\ openFiles' \in [Handles -> Slots \cup {NoSlot}]
        /\ files' \in SUBSET Handles
    BY <1>4 DEF CloseRemove, Channels, TypeOK
  <2> QED
    BY <1>0, <1>1, <1>4, <2>1, <2>2, BeginChannels DEF CloseRemove
<1> QED
  BY <1>2, <1>3, <1>4 DEF Request

LEMMA EnsureStartedChannels ==
  ASSUME Channels, NEW w \in Workers, EnsureStarted(w)
  PROVE  Channels'
<1> DEFINE s == op[w].slot
<1>1. /\ s \in Slots /\ wpc[w] = "start"
      /\ mpc # "mounted"
      /\ wpc' = [wpc EXCEPT ![w] = "send"]
      /\ actor' = IF actor[s] = "none" THEN [actor EXCEPT ![s] = "recv"] ELSE actor
      /\ UNCHANGED <<op, reply, next, openFiles, owner, files, queue, inflight,
                     issued, mpc, cur, destroyed>>
  BY DEF EnsureStarted, Channels, WorkersInStep, TypeOK, mainVars, fileVars, Serving
<1> HIDE DEF s
<1>2. TypeOK'
  BY <1>1 DEF Channels, TypeOK
<1>3. \A r \in Slots : /\ actor'[r] = actor[r] \/ (actor[r] = "none" /\ actor'[r] = "recv")
                       /\ Queued(r)' = Queued(r)
  BY <1>1 DEF Channels, TypeOK, Queued
<1>4. InflightExact' /\ OnePlace'
  BY <1>1, <1>3 DEF Channels, InflightExact, OnePlace
<1>5. NoBlindWait'
  BY <1>1, <1>3 DEF Channels, NoBlindWait, ActorsInStep
<1>6. BuffersOwned'
  BY <1>1, <1>3 DEF Channels, BuffersOwned, TypeOK
<1>7. WorkersInStep'
  BY <1>1 DEF Channels, WorkersInStep, TypeOK, s
<1>8. ActorsInStep'
  BY <1>1, <1>3 DEF Channels, ActorsInStep
<1>9. QuitInStep'
  BY <1>1, <1>3 DEF Channels, QuitInStep, QuitSent, Joined
<1> QED
  BY <1>2, <1>4, <1>5, <1>6, <1>7, <1>8, <1>9 DEF Channels

LEMMA SendChannels ==
  ASSUME Channels, NEW w \in Workers, Send(w)
  PROVE  Channels'
<1> DEFINE s == op[w].slot
<1>1. /\ s \in Slots /\ wpc[w] = "send" /\ reply[w] = Empty
      /\ mpc # "mounted" /\ actor[s] # "none"
      /\ wpc' = [wpc EXCEPT ![w] = "park"]
      /\ UNCHANGED <<op, next, openFiles, owner, files, actor, inflight,
                     issued, mpc, cur, destroyed>>
  BY DEF Send, Channels, WorkersInStep, TypeOK, mainVars, fileVars, Serving
<1>2. \A r \in Slots : w \notin Queued(r) /\ w \notin issued[r]
  BY <1>1 DEF Channels, BuffersOwned
<1>3. CASE actor[s] = "gone"
  <2>1. /\ reply' = [reply EXCEPT ![w] = Answer("gone", NoHandle)]
        /\ queue' = queue
    BY <1>3 DEF Send
  <2>2. \A r \in Slots : Queued(r)' = Queued(r)
    BY <2>1 DEF Queued
  <2> HIDE DEF s
  <2>3. TypeOK'
    BY <1>1, <2>1 DEF Channels, TypeOK, Answer, Replies
  <2>4. InflightExact' /\ OnePlace' /\ NoBlindWait'
    BY <1>1, <2>1, <2>2 DEF Channels, InflightExact, OnePlace, NoBlindWait
  <2>5. BuffersOwned'
    BY <1>1, <1>2, <2>1, <2>2 DEF Channels, BuffersOwned, TypeOK
  <2>6. WorkersInStep'
    BY <1>1, <2>1 DEF Channels, WorkersInStep, TypeOK, Answer
  <2>7. ActorsInStep'
    BY <1>1, <2>1, <2>2 DEF Channels, ActorsInStep
  <2>8. QuitInStep'
    BY <1>1, <2>1, <2>2 DEF Channels, QuitInStep, QuitSent, Joined
  <2> QED
    BY <2>3, <2>4, <2>5, <2>6, <2>7, <2>8 DEF Channels
<1>4. CASE actor[s] # "gone"
  <2>1. queue' = [queue EXCEPT ![s] = Append(@, w)] /\ reply' = reply
    BY <1>4 DEF Send
  <2> HIDE DEF s
  <2>2. queue[s] \in Seq(Workers \cup {Quit}) /\ w \in Workers \cup {Quit}
    BY <1>1 DEF Channels, TypeOK
  <2>3. /\ queue'[s] = Append(queue[s], w)
        /\ \A r \in Slots \ {s} : queue'[r] = queue[r]
    BY <1>1, <2>1 DEF Channels, TypeOK
  <2>4. /\ queue'[s] \in Seq(Workers \cup {Quit}) /\ queue'[s] # <<>>
        /\ Elems(queue'[s]) = Elems(queue[s]) \cup {w}
        /\ Once(queue[s]) /\ w \notin Elems(queue[s]) => Once(queue'[s])
        /\ queue[s] # <<>> => Head(queue'[s]) = Head(queue[s])
    BY <2>2, <2>3, SendElems
  <2>5. \A r \in Slots : Queued(r)' = IF r = s THEN Queued(r) \cup {w} ELSE Queued(r)
    BY <2>3, <2>4, QueuedElems
  <2>6. TypeOK'
    BY <1>1, <2>1, <2>4 DEF Channels, TypeOK
  <2>7. InflightExact' /\ NoBlindWait'
    BY <1>1 DEF Channels, InflightExact, NoBlindWait
  <2>8. BuffersOwned'
    <3>1. op'[w].slot = s
      BY <1>1 DEF s
    <3>2. /\ wpc'[w] = "park" /\ reply'[w] = Empty
          /\ \A v \in Workers \ {w} : wpc'[v] = wpc[v]
      BY <1>1, <2>1 DEF Channels, TypeOK
    <3>3. ASSUME NEW r \in Slots, NEW v \in Workers, v \in Queued(r)' \cup issued'[r]
          PROVE  wpc'[v] = "park" /\ reply'[v] = Empty /\ op'[v].slot = r
      <4>1. v \in Queued(r) \cup issued[r] \/ (v = w /\ r = s)
        BY <1>1, <2>5, <3>3
      <4> QED
        BY <1>1, <1>2, <2>1, <3>1, <3>2, <4>1 DEF Channels, BuffersOwned
    <3> QED
      BY <3>3 DEF BuffersOwned
  <2>9. OnePlace'
    BY <1>1, <1>2, <2>3, <2>4, <2>5, QueuedElems DEF Channels, OnePlace
  <2>10. WorkersInStep'
    BY <1>1, <2>1 DEF Channels, WorkersInStep, TypeOK
  <2>11. ActorsInStep'
    BY <1>1, <1>4, <2>3, <2>5 DEF Channels, ActorsInStep
  <2>12. QuitInStep'
    BY <1>1, <2>3, <2>4, <2>5, SlotsAssumption
       DEF Channels, QuitInStep, QuitSent, Joined
  <2> QED
    BY <2>6, <2>7, <2>8, <2>9, <2>10, <2>11, <2>12 DEF Channels
<1> QED
  BY <1>3, <1>4

LEMMA ReturnChannels ==
  ASSUME Channels, NEW w \in Workers, Return(w) \/ ReturnOpen(w)
  PROVE  Channels'
<1>1. /\ wpc[w] = "park" /\ reply[w] # Empty /\ mpc # "mounted"
      /\ Finish(w)
      /\ UNCHANGED <<next, owner, slotVars, mainVars>>
  BY DEF Return, ReturnOpen, Serving, Empty, fileVars
<1>2. UNCHANGED <<next, owner, actor, queue, inflight, issued, mpc, cur, destroyed>>
  BY <1>1 DEF slotVars, mainVars
<1>3. files' \in SUBSET Handles /\ openFiles' \in [Handles -> Slots \cup {NoSlot}]
  <2>1. CASE Return(w)
    BY <2>1 DEF Return, fileVars, Channels, TypeOK
  <2>2. CASE ReturnOpen(w)
    <3>1. reply[w].fh \in Handles /\ op[w].slot \in Slots
      BY <1>1, <2>2 DEF ReturnOpen, Channels, WorkersInStep, TypeOK, Replies
    <3> QED
      BY <2>2, <3>1 DEF ReturnOpen, Channels, TypeOK
  <2> QED
    BY <2>1, <2>2
<1>4. /\ wpc' = [wpc EXCEPT ![w] = "idle"]
      /\ op' = [op EXCEPT ![w] = NoOp]
      /\ reply' = [reply EXCEPT ![w] = Empty]
  BY <1>1 DEF Finish
<1>5. TypeOK'
  <2>1. NoOp \in Ops /\ Empty \in Replies
    BY DEF NoOp, Empty, Ops, Replies, Kinds
  <2> QED
    BY <1>2, <1>3, <1>4, <2>1 DEF Channels, TypeOK
<1>6. \A r \in Slots : Queued(r)' = Queued(r) /\ w \notin Queued(r) \cup issued[r]
  BY <1>1, <1>2 DEF Queued, Channels, BuffersOwned
<1>7. InflightExact' /\ NoBlindWait' /\ OnePlace'
  BY <1>2, <1>6 DEF Channels, InflightExact, NoBlindWait, OnePlace
<1>8. BuffersOwned'
  BY <1>2, <1>4, <1>6 DEF Channels, BuffersOwned, TypeOK
<1>9. WorkersInStep'
  BY <1>2, <1>4 DEF Channels, WorkersInStep, TypeOK
<1>10. ActorsInStep'
  BY <1>1, <1>2, <1>6 DEF Channels, ActorsInStep
<1>11. QuitInStep'
  BY <1>2, <1>6 DEF Channels, QuitInStep, QuitSent, Joined
<1> QED
  BY <1>5, <1>7, <1>8, <1>9, <1>10, <1>11 DEF Channels

\* An answer is never the empty reply.
LEMMA AnswerProperties ==
  ASSUME NEW st \in {"ok", "err", "gone"}, NEW h \in Handles \cup {NoHandle}
  PROVE  /\ Answer(st, h) \in Replies
         /\ Answer(st, h) # Empty /\ Answer(st, h).st # "empty"
         /\ Answer(st, h).st = st /\ Answer(st, h).fh = h
BY DEF Answer, Replies, Empty

\* What an operation does when it completes: the owners stay well-typed.
LEMMA EffectType ==
  ASSUME Channels, NEW w \in Workers, NEW s \in Slots, NEW st, NEW h, Effect(w, s, st, h)
  PROVE  owner' \in [Handles -> Slots \cup {NoSlot}]
BY DEF Effect, Channels, TypeOK

\* Buffers stay owned if no operation enters a channel or libnfs, and those that
\* stay there are not disturbed.
LEMMA StillOwned ==
  ASSUME BuffersOwned,
         \A r \in Slots : \A v \in Workers : v \in Queued(r)' \cup issued'[r] =>
           /\ v \in Queued(r) \cup issued[r]
           /\ wpc'[v] = wpc[v] /\ reply'[v] = reply[v] /\ op'[v] = op[v]
  PROVE  BuffersOwned'
BY DEF BuffersOwned

\* A task leaves the channel of a live actor: to libnfs, or answered on the spot.
LEMMA HandleOpChannels ==
  ASSUME Channels, NEW s \in Slots, HandleOp(s)
  PROVE  Channels'
<1> DEFINE w == Head(queue[s])
<1>1. /\ mpc # "done" /\ actor[s] \in {"recv", "drain"}
      /\ queue[s] # <<>> /\ w # Quit
      /\ IssueQueued(s, w) \/ IssueRejected(s, w) \/ IssueCompleted(s, w)
      /\ queue' = [queue EXCEPT ![s] = Tail(@)]
      /\ actor' = [actor EXCEPT ![s] = "drain"]
      /\ UNCHANGED <<wpc, op, next, openFiles, files, mpc, cur, destroyed>>
  BY DEF HandleOp, Alive, mainVars
<1> HIDE DEF w
<1>2. queue[s] \in Seq(Workers \cup {Quit}) /\ Once(queue[s])
  BY DEF Channels, TypeOK, OnePlace
<1>3. /\ w \in Workers /\ w \in Queued(s)
      /\ queue'[s] \in Seq(Workers \cup {Quit})
      /\ Queued(s)' = Queued(s) \ {w}
      /\ Once(queue'[s])
  <2>1. queue'[s] = Tail(queue[s])
    BY <1>1 DEF Channels, TypeOK
  <2>2. w \in Workers \cup {Quit}
    BY <1>1, <1>2, ReceiveElems DEF w
  <2> QED
    BY <1>1, <1>2, <2>1, <2>2, ReceiveElems, QueuedElems DEF w
<1>4. \A r \in Slots \ {s} : queue'[r] = queue[r] /\ Queued(r)' = Queued(r)
  BY <1>1 DEF Channels, TypeOK, Queued
<1>5. /\ wpc[w] = "park" /\ reply[w] = Empty /\ op[w].slot = s
      /\ \A r \in Slots \ {s} : w \notin Queued(r) \cup issued[r]
      /\ w \notin issued[s]
      /\ \A r \in Slots : w \notin Queued(r)'
  BY <1>3, <1>4 DEF Channels, BuffersOwned, OnePlace
<1>6. ~Joined(s) /\ ~destroyed[s]
  BY <1>1 DEF Channels, QuitInStep, w
<1>7. mpc # "mounted"
  BY <1>1 DEF Channels, ActorsInStep
<1>8. ActorsInStep'
  <2>1. \A r \in Slots \ {s} : issued'[r] = issued[r]
    BY <1>1 DEF IssueQueued, IssueRejected, IssueCompleted, Channels, TypeOK
  <2> QED
    BY <1>1, <1>4, <1>7, <2>1 DEF Channels, ActorsInStep, TypeOK
<1>9. QuitInStep'
  <2>1. \A r \in Slots \ {s} : issued'[r] = issued[r] /\ actor'[r] = actor[r]
    BY <1>1 DEF IssueQueued, IssueRejected, IssueCompleted, Channels, TypeOK
  <2> QED
    BY <1>1, <1>3, <1>4, <1>6, <2>1 DEF Channels, QuitInStep, QuitSent, Joined, TypeOK
<1>10. NoBlindWait'
  <2>1. \A r \in Slots \ {s} : issued'[r] = issued[r] /\ actor'[r] = actor[r]
    BY <1>1 DEF IssueQueued, IssueRejected, IssueCompleted, Channels, TypeOK
  <2> QED
    BY <1>1, <2>1 DEF Channels, NoBlindWait, TypeOK
<1>11. CASE IssueQueued(s, w)
  <2>1. /\ inflight' = [inflight EXCEPT ![s] = @ + 1]
        /\ issued' = [issued EXCEPT ![s] = @ \cup {w}]
        /\ UNCHANGED <<reply, owner>>
    BY <1>11 DEF IssueQueued
  <2>2. issued[s] \in SUBSET Workers
    BY DEF Channels, TypeOK
  <2>3. TypeOK'
    BY <1>1, <1>3, <2>1, <2>2 DEF Channels, TypeOK
  <2>4. InflightExact'
    <3>1. Cardinality(issued[s] \cup {w}) = Cardinality(issued[s]) + 1
      BY <1>5, <2>2, IssuedSets, FS_AddElement
    <3> QED
      BY <2>1, <3>1 DEF Channels, InflightExact, TypeOK
  <2>5. BuffersOwned'
    BY <1>1, <1>3, <1>4, <1>5, <2>1 DEF Channels, BuffersOwned, TypeOK
  <2>6. OnePlace'
    BY <1>3, <1>4, <1>5, <2>1 DEF Channels, OnePlace, TypeOK
  <2>7. WorkersInStep'
    BY <1>1, <2>1 DEF Channels, WorkersInStep, TypeOK
  <2> QED
    BY <1>8, <1>9, <1>10, <2>3, <2>4, <2>5, <2>6, <2>7 DEF Channels
<1>12. CASE IssueRejected(s, w) \/ IssueCompleted(s, w)
  <2>1. PICK a \in Replies : /\ reply' = [reply EXCEPT ![w] = a]
                             /\ a # Empty /\ a.st # "empty"
                             /\ owner' \in [Handles -> Slots \cup {NoSlot}]
    <3>1. CASE IssueRejected(s, w)
      <4>1. reply' = [reply EXCEPT ![w] = Answer("err", NoHandle)] /\ owner' = owner
        BY <3>1 DEF IssueRejected
      <4>2. owner' \in [Handles -> Slots \cup {NoSlot}]
        BY <4>1 DEF Channels, TypeOK
      <4> QED
        BY <4>1, <4>2, AnswerProperties
    <3>2. CASE IssueCompleted(s, w)
      <4>1. PICK st \in {"ok", "err"}, h \in Handles \cup {NoHandle} :
              /\ Effect(w, s, st, h)
              /\ reply' = [reply EXCEPT ![w] = Answer(st, h)]
        BY <3>2 DEF IssueCompleted
      <4>2. owner' \in [Handles -> Slots \cup {NoSlot}]
        BY <1>3, <4>1, EffectType
      <4> QED
        BY <4>1, <4>2, AnswerProperties
    <3> QED
      BY <1>12, <3>1, <3>2
  <2>2. UNCHANGED <<inflight, issued>>
    BY <1>12 DEF IssueRejected, IssueCompleted
  <2>3. TypeOK'
    BY <1>1, <1>3, <2>1, <2>2 DEF Channels, TypeOK
  <2>4. InflightExact'
    BY <2>2 DEF Channels, InflightExact
  <2>5. BuffersOwned'
    <3>1. \A v \in Workers \ {w} : reply'[v] = reply[v]
      BY <2>1 DEF Channels, TypeOK
    <3>2. \A r \in Slots : /\ Queued(r)' \subseteq Queued(r) /\ issued'[r] = issued[r]
                           /\ w \notin Queued(r)' \cup issued'[r]
      BY <1>3, <1>4, <1>5, <2>2
    <3> QED
      BY <1>1, <3>1, <3>2, StillOwned DEF Channels
  <2>6. OnePlace'
    BY <1>3, <1>4, <2>2 DEF Channels, OnePlace
  <2>7. WorkersInStep'
    BY <1>1, <1>5, <2>1 DEF Channels, WorkersInStep, TypeOK
  <2> QED
    BY <1>8, <1>9, <1>10, <2>3, <2>4, <2>5, <2>6, <2>7 DEF Channels
<1> QED
  BY <1>1, <1>11, <1>12

\* The receiver is dropped with what is queued; those workers read that it is gone.
LEMMA HandleQuitChannels ==
  ASSUME Channels, NEW s \in Slots, HandleQuit(s)
  PROVE  Channels'
<1>1. /\ actor[s] \in {"recv", "drain"} /\ queue[s] # <<>> /\ Head(queue[s]) = Quit
      /\ reply' = [w \in Workers |-> IF w \in Queued(s) THEN Answer("gone", NoHandle)
                                                        ELSE reply[w]]
      /\ queue' = [queue EXCEPT ![s] = <<>>]
      /\ actor' = [actor EXCEPT ![s] = "gone"]
      /\ UNCHANGED <<wpc, op, next, openFiles, owner, files, inflight, issued,
                     mpc, cur, destroyed>>
  BY DEF HandleQuit, mainVars, fileVars
<1>2. /\ Answer("gone", NoHandle) \in Replies
      /\ Answer("gone", NoHandle) # Empty /\ Answer("gone", NoHandle).st # "empty"
  BY AnswerProperties
<1>3. TypeOK'
  BY <1>1, <1>2, EmptySeq DEF Channels, TypeOK
<1>4. /\ queue'[s] = <<>> /\ Queued(s)' = {} /\ Once(queue'[s])
      /\ \A r \in Slots \ {s} : queue'[r] = queue[r] /\ Queued(r)' = Queued(r)
  <2>1. queue'[s] = <<>> /\ \A r \in Slots \ {s} : queue'[r] = queue[r]
    BY <1>1 DEF Channels, TypeOK
  <2> QED
    BY <2>1, QueuedElems, NothingQueued
<1>5. \A w \in Queued(s) \cap Workers :
        /\ wpc[w] = "park" /\ op[w].slot = s
        /\ \A r \in Slots : w \notin Queued(r)' \cup issued'[r]
  BY <1>1, <1>4 DEF Channels, BuffersOwned, OnePlace
<1>6. InflightExact' /\ OnePlace' /\ NoBlindWait'
  BY <1>1, <1>4 DEF Channels, InflightExact, OnePlace, NoBlindWait, TypeOK
<1>7. BuffersOwned'
  <2>1. \A r \in Slots : \A v \in Workers : v \in Queued(r)' \cup issued'[r] =>
          v \in Queued(r) \cup issued[r] /\ v \notin Queued(s)
    BY <1>1, <1>4, <1>5
  <2> QED
    BY <1>1, <2>1, StillOwned DEF Channels
<1>8. WorkersInStep'
  BY <1>1, <1>2, <1>5 DEF Channels, WorkersInStep, TypeOK
<1>9. ActorsInStep'
  BY <1>1, <1>4 DEF Channels, ActorsInStep, TypeOK
<1>10. QuitInStep'
  BY <1>1, <1>4 DEF Channels, QuitInStep, QuitSent, Joined, TypeOK
<1> QED
  BY <1>3, <1>6, <1>7, <1>8, <1>9, <1>10 DEF Channels

\* An actor that goes on to look whether it is quiet, or to pump: it blocks in
\* recv() only if libnfs holds nothing.
LEMMA ActorMoveChannels ==
  ASSUME Channels, NEW s \in Slots, Drained(s) \/ Check(s) \/ Pumped(s)
  PROVE  Channels'
<1>1. PICK a \in {"recv", "drain", "check", "service"} :
        /\ actor' = [actor EXCEPT ![s] = a]
        /\ a = "recv" => ~(inflight[s] > 0)
  BY DEF Drained, Check, Pumped
<1>2. /\ actor[s] \in {"drain", "check", "service"}
      /\ UNCHANGED <<wpc, op, reply, next, openFiles, owner, files, queue, inflight,
                     issued, mpc, cur, destroyed>>
  BY DEF Drained, Check, Pumped, workerVars, mainVars, fileVars
<1>3. a = "recv" => issued[s] = {}
  <2>1. /\ inflight[s] \in Nat /\ inflight[s] = Cardinality(issued[s])
        /\ issued[s] \in SUBSET Workers
    BY DEF Channels, InflightExact, TypeOK
  <2> QED
    BY <1>1, <2>1, IssuedSets
<1>4. \A r \in Slots : Queued(r)' = Queued(r)
  BY <1>2 DEF Queued
<1>5. TypeOK'
  BY <1>1, <1>2 DEF Channels, TypeOK
<1>6. InflightExact' /\ OnePlace' /\ BuffersOwned'
  BY <1>2, <1>4 DEF Channels, InflightExact, OnePlace, BuffersOwned
<1>7. NoBlindWait'
  BY <1>1, <1>2, <1>3 DEF Channels, NoBlindWait, TypeOK
<1>8. WorkersInStep'
  BY <1>1, <1>2 DEF Channels, WorkersInStep, TypeOK
<1>9. ActorsInStep'
  BY <1>1, <1>2, <1>4 DEF Channels, ActorsInStep, TypeOK
<1>10. QuitInStep'
  BY <1>1, <1>2, <1>4 DEF Channels, QuitInStep, QuitSent, Joined, TypeOK
<1> QED
  BY <1>5, <1>6, <1>7, <1>8, <1>9, <1>10 DEF Channels

\* complete(): uncounted, no longer with libnfs, and answered.
LEMMA CallbackChannels ==
  ASSUME Channels, NEW s \in Slots, NEW w \in Workers, Callback(s, w)
  PROVE  Channels'
<1>1. PICK st \in {"ok", "err"}, h \in Handles \cup {NoHandle} :
        Effect(w, s, st, h) /\ reply' = [reply EXCEPT ![w] = Answer(st, h)]
  BY DEF Callback
<1>2. /\ actor[s] = "service" /\ w \in issued[s]
      /\ issued' = [issued EXCEPT ![s] = @ \ {w}]
      /\ inflight' = [inflight EXCEPT ![s] = @ - 1]
      /\ UNCHANGED <<wpc, op, next, openFiles, files, actor, queue, mpc, cur, destroyed>>
  BY DEF Callback, mainVars
<1>3. /\ Answer(st, h) \in Replies
      /\ Answer(st, h) # Empty /\ Answer(st, h).st # "empty"
      /\ owner' \in [Handles -> Slots \cup {NoSlot}]
  BY <1>1, AnswerProperties, EffectType
<1>4. /\ wpc[w] = "park" /\ op[w].slot = s
      /\ \A r \in Slots : w \notin Queued(r)
      /\ \A r \in Slots \ {s} : w \notin issued[r]
  BY <1>2 DEF Channels, BuffersOwned, OnePlace
<1>5. \A r \in Slots : Queued(r)' = Queued(r)
  BY <1>2 DEF Queued
<1>6. /\ inflight[s] = Cardinality(issued[s]) /\ inflight[s] \in Nat
      /\ Cardinality(issued[s] \ {w}) = inflight[s] - 1
      /\ inflight[s] - 1 \in Nat
  <2>1. issued[s] \in SUBSET Workers /\ inflight[s] = Cardinality(issued[s])
    BY DEF Channels, TypeOK, InflightExact
  <2>2. Cardinality(issued[s] \ {w}) = Cardinality(issued[s]) - 1
    BY <1>2, <2>1, IssuedSets, FS_RemoveElement
  <2>3. Cardinality(issued[s] \ {w}) \in Nat /\ Cardinality(issued[s]) \in Nat
    BY <2>1, IssuedSets
  <2> QED
    BY <2>1, <2>2, <2>3
<1>7. TypeOK'
  BY <1>1, <1>2, <1>3, <1>6 DEF Channels, TypeOK
<1>8. InflightExact'
  BY <1>2, <1>6 DEF Channels, InflightExact, TypeOK
<1>9. NoBlindWait' /\ OnePlace'
  BY <1>2, <1>5 DEF Channels, NoBlindWait, OnePlace, TypeOK
<1>10. BuffersOwned'
  <2>1. \A r \in Slots : issued'[r] \subseteq issued[r] /\ w \notin issued'[r]
    BY <1>2, <1>4 DEF Channels, TypeOK
  <2>2. \A v \in Workers \ {w} : reply'[v] = reply[v]
    BY <1>1 DEF Channels, TypeOK
  <2> QED
    BY <1>2, <1>4, <1>5, <2>1, <2>2, StillOwned DEF Channels
<1>11. WorkersInStep'
  BY <1>1, <1>2, <1>3, <1>4 DEF Channels, WorkersInStep, TypeOK
<1>12. ActorsInStep' /\ QuitInStep'
  BY <1>2, <1>5 DEF Channels, ActorsInStep, QuitInStep, QuitSent, Joined, TypeOK
<1> QED
  BY <1>7, <1>8, <1>9, <1>10, <1>11, <1>12 DEF Channels

-------------------------------------------------------------------------------
(* The main thread. *)

\* A step of the main thread alone: what Quits were sent and what was joined may
\* only be said of the slot it is at.
LEMMA MainChannels ==
  ASSUME Channels,
         mpc' \in {"serving", "quit", "destroy"},
         cur' = cur, destroyed' = destroyed, actor' = actor,
         UNCHANGED <<workerVars, next, queue, inflight, issued, fileVars>>,
         \A s \in Slots : /\ Joined(s) => Joined(s)'
                          /\ QuitSent(s) <=> QuitSent(s)'
                          /\ Joined(s)' /\ ~Joined(s) =>
                               QuitSent(s) /\ actor[s] \in {"none", "gone"}
  PROVE  Channels'
<1>1. UNCHANGED <<wpc, op, reply, next, openFiles, owner, files, queue, inflight, issued>>
  BY DEF workerVars, fileVars
<1>2. \A r \in Slots : Queued(r)' = Queued(r)
  BY <1>1 DEF Queued
<1>3. TypeOK'
  BY <1>1 DEF Channels, TypeOK
<1>4. InflightExact' /\ OnePlace' /\ BuffersOwned' /\ NoBlindWait' /\ WorkersInStep'
  BY <1>1, <1>2
     DEF Channels, InflightExact, OnePlace, BuffersOwned, NoBlindWait, WorkersInStep
<1>5. ActorsInStep'
  BY <1>1, <1>2 DEF Channels, ActorsInStep
<1>6. QuitInStep'
  <2> SUFFICES ASSUME NEW s \in Slots, Joined(s)', ~Joined(s), actor[s] = "none"
               PROVE  queue[s] # <<>> /\ Head(queue[s]) = Quit
    BY <1>1, <1>2 DEF Channels, QuitInStep
  <2>1. queue[s] # <<>> /\ Queued(s) \subseteq {Quit}
    BY DEF Channels, QuitInStep, ActorsInStep
  <2>2. Head(queue[s]) \in Queued(s)
    BY <2>1, ReceiveElems, QueuedElems DEF Channels, TypeOK, OnePlace
  <2> QED
    BY <2>1, <2>2
<1> QED
  BY <1>3, <1>4, <1>5, <1>6 DEF Channels

LEMMA ServeChannels ==
  ASSUME Channels, Fork \/ Foreground \/ LoopEnds \/ Join
  PROVE  Channels'
<1>1. CASE Fork
  <2>1. actor' = actor
    BY <1>1 DEF Fork, MainStep, Channels, ActorsInStep, TypeOK
  <2> QED
    BY <1>1, <2>1, MainChannels
       DEF Fork, MainStep, QuitSent, Joined
<1>2. CASE Foreground
  BY <1>2, MainChannels DEF Foreground, MainStep, slotVars, QuitSent, Joined
<1>3. CASE LoopEnds
  BY <1>3, MainChannels DEF LoopEnds, MainStep, slotVars, QuitSent, Joined
<1>4. CASE Join
  BY <1>4, MainChannels DEF Join, MainStep, slotVars, QuitSent, Joined
<1> QED
  BY <1>1, <1>2, <1>3, <1>4

LEMMA SendQuitChannels ==
  ASSUME Channels, SendQuit
  PROVE  Channels'
<1>1. /\ mpc = "quit" /\ mpc' = "join" /\ cur \in Slots
      /\ UNCHANGED <<cur, destroyed, wpc, op, reply, next, actor, inflight, issued,
                     openFiles, owner, files>>
  BY DEF SendQuit, MainStep, workerVars, fileVars, Channels, TypeOK
<1>2. \A s \in Slots : /\ QuitSent(s)' <=> QuitSent(s) \/ s = cur
                       /\ Joined(s)' <=> Joined(s)
  BY <1>1 DEF QuitSent, Joined
<1>3. ~QuitSent(cur) /\ ~Joined(cur)
  BY <1>1 DEF QuitSent, Joined, Slots
<1>4. /\ queue[cur] \in Seq(Workers \cup {Quit}) /\ Once(queue[cur])
      /\ Quit \notin Queued(cur)
  BY <1>1, <1>3 DEF Channels, TypeOK, OnePlace, QuitInStep
<1>5. /\ queue' \in [Slots -> Seq(Workers \cup {Quit})]
      /\ \A s \in Slots \ {cur} : queue'[s] = queue[s] /\ Queued(s)' = Queued(s)
      /\ Queued(cur)' \subseteq Queued(cur) \cup {Quit}
      /\ Once(queue'[cur])
      /\ actor[cur] # "gone" => queue'[cur] # <<>>
      /\ actor[cur] = "gone" => queue'[cur] = queue[cur]
  <2>1. CASE actor[cur] = "gone"
    <3>1. queue' = queue
      BY <2>1 DEF SendQuit
    <3>2. \A s \in Slots : Queued(s)' = Queued(s)
      BY <3>1 DEF Queued
    <3>3. queue' \in [Slots -> Seq(Workers \cup {Quit})]
      BY <3>1 DEF Channels, TypeOK
    <3> QED
      BY <1>1, <1>4, <2>1, <3>1, <3>2, <3>3
  <2>2. CASE actor[cur] # "gone"
    <3>1. /\ queue' = [queue EXCEPT ![cur] = Append(queue[cur], Quit)]
          /\ queue'[cur] = Append(queue[cur], Quit)
          /\ \A s \in Slots \ {cur} : queue'[s] = queue[s]
      BY <1>1, <2>2 DEF SendQuit, Channels, TypeOK
    <3>2. /\ Append(queue[cur], Quit) \in Seq(Workers \cup {Quit})
          /\ queue'[cur] # <<>> /\ Once(queue'[cur])
          /\ Elems(queue'[cur]) = Elems(queue[cur]) \cup {Quit}
      BY <1>4, <3>1, SendElems, QueuedElems
    <3> QED
      BY <1>1, <2>2, <3>1, <3>2, QueuedElems DEF Channels, TypeOK
  <2> QED
    BY <2>1, <2>2
<1>6. TypeOK'
  BY <1>1, <1>5 DEF Channels, TypeOK
<1>7. InflightExact' /\ NoBlindWait' /\ WorkersInStep'
  BY <1>1 DEF Channels, InflightExact, NoBlindWait, WorkersInStep
<1>8. Quit \notin Workers
  BY SlotsAssumption
<1>9. BuffersOwned'
  BY <1>1, <1>5, <1>8, StillOwned DEF Channels
<1>10. OnePlace'
  <2>1. \A s \in Slots : issued'[s] = issued[s] /\ Quit \notin issued[s]
    BY <1>1, <1>8 DEF Channels, TypeOK
  <2> QED
    <3>1. ASSUME NEW s \in Slots
          PROVE  Once(queue'[s]) /\ issued'[s] \cap Queued(s)' = {}
      <4>1. Once(queue[s]) /\ issued[s] \cap Queued(s) = {}
        BY DEF Channels, OnePlace
      <4>2. CASE s = cur
        BY <1>1, <1>5, <2>1, <4>1, <4>2
      <4>3. CASE s # cur
        BY <1>5, <2>1, <4>1, <4>3
      <4> QED
        BY <4>2, <4>3
    <3> QED
      BY <3>1 DEF OnePlace
<1>11. ActorsInStep'
  BY <1>1, <1>5 DEF Channels, ActorsInStep
<1>12. QuitInStep'
  BY <1>1, <1>2, <1>3, <1>5 DEF Channels, QuitInStep
<1> QED
  BY <1>6, <1>7, <1>9, <1>10, <1>11, <1>12 DEF Channels

LEMMA DestroyChannels ==
  ASSUME Channels, Destroy
  PROVE  Channels'
<1>1. /\ mpc = "destroy" /\ cur \in Slots
      /\ destroyed' = [destroyed EXCEPT ![cur] = TRUE]
      /\ reply' = [w \in Workers |-> IF w \in issued[cur] THEN Answer("err", NoHandle)
                                                         ELSE reply[w]]
      /\ issued' = [issued EXCEPT ![cur] = {}]
      /\ inflight' = [inflight EXCEPT ![cur] = @ - Cardinality(issued[cur])]
      /\ owner' = [h \in Handles |-> IF owner[h] = cur THEN NoSlot ELSE owner[h]]
      /\ UNCHANGED <<wpc, op, next, actor, queue, files>>
  BY DEF Destroy, Channels, TypeOK
<1>2. \/ cur + 1 < Slot /\ mpc' = "quit" /\ cur' = cur + 1 /\ openFiles' = openFiles
      \/ mpc' = "done" /\ cur' = cur /\ openFiles' = [h \in Handles |-> NoSlot]
  BY DEF Destroy
<1>3. cur' \in Slots /\ mpc' \in {"quit", "done"}
  BY <1>1, <1>2, SlotsAssumption DEF Slots
<1>4. \A s \in Slots : (QuitSent(s)' <=> QuitSent(s)) /\ (Joined(s)' <=> Joined(s))
  BY <1>1, <1>2, <1>3 DEF QuitSent, Joined, Slots
<1>5. Joined(cur)
  BY <1>1 DEF Joined
<1>6. \A s \in Slots : Queued(s)' = Queued(s)
  BY <1>1 DEF Queued
<1>7. /\ Answer("err", NoHandle) \in Replies
      /\ Answer("err", NoHandle) # Empty /\ Answer("err", NoHandle).st # "empty"
  BY AnswerProperties
<1>8. inflight[cur] = Cardinality(issued[cur]) /\ inflight[cur] \in Nat
  BY <1>1 DEF Channels, InflightExact, TypeOK
<1>9. TypeOK'
  BY <1>1, <1>2, <1>3, <1>7, <1>8 DEF Channels, TypeOK
<1>10. InflightExact'
  <2>1. Cardinality({}) = 0
    BY FS_EmptySet
  <2> QED
    BY <1>1, <1>8, <2>1 DEF Channels, InflightExact, TypeOK
<1>11. NoBlindWait' /\ OnePlace'
  BY <1>1, <1>6 DEF Channels, NoBlindWait, OnePlace, TypeOK
<1>12. \A w \in issued[cur] : /\ wpc[w] = "park"
                              /\ \A r \in Slots : w \notin Queued(r)' \cup issued'[r]
  <2>1. \A w \in issued[cur] : w \in Workers
    BY <1>1 DEF Channels, TypeOK
  <2>2. issued'[cur] = {} /\ \A r \in Slots \ {cur} : issued'[r] = issued[r]
    BY <1>1 DEF Channels, TypeOK
  <2> QED
    BY <1>1, <1>6, <2>1, <2>2 DEF Channels, BuffersOwned, OnePlace
<1>13. BuffersOwned'
  <2>1. \A r \in Slots : \A v \in Workers : v \in Queued(r)' \cup issued'[r] =>
          v \in Queued(r) \cup issued[r] /\ v \notin issued[cur]
    BY <1>1, <1>6, <1>12 DEF Channels, TypeOK
  <2> QED
    BY <1>1, <2>1, StillOwned DEF Channels
<1>14. WorkersInStep'
  BY <1>1, <1>7, <1>12 DEF Channels, WorkersInStep, TypeOK
<1>15. ActorsInStep'
  BY <1>1, <1>3, <1>6 DEF Channels, ActorsInStep, TypeOK
<1>16. QuitInStep'
  BY <1>1, <1>4, <1>5, <1>6 DEF Channels, QuitInStep, TypeOK
<1> QED
  BY <1>9, <1>10, <1>11, <1>13, <1>14, <1>15, <1>16 DEF Channels

LEMMA StutterChannels ==
  ASSUME Channels, UNCHANGED vars
  PROVE  Channels'
<1>1. TypeOK' /\ InflightExact' /\ NoBlindWait' /\ WorkersInStep'
  BY DEF Channels, vars, TypeOK, InflightExact, NoBlindWait, WorkersInStep
<1>2. \A s \in Slots : Queued(s)' = Queued(s)
  BY DEF vars, Queued
<1>3. BuffersOwned' /\ OnePlace' /\ ActorsInStep'
  BY <1>2 DEF Channels, vars, BuffersOwned, OnePlace, ActorsInStep
<1>4. QuitInStep'
  BY <1>2 DEF Channels, vars, QuitInStep, QuitSent, Joined
<1> QED
  BY <1>1, <1>3, <1>4 DEF Channels

LEMMA ChannelsStep == Channels /\ [Next]_vars => Channels'
<1> SUFFICES ASSUME Channels, [Next]_vars PROVE Channels'
  OBVIOUS
<1>1. ASSUME NEW w \in Workers, Request(w) \/ WorkerStep(w) PROVE Channels'
  BY <1>1, RequestChannels, EnsureStartedChannels, SendChannels, ReturnChannels
     DEF WorkerStep
<1>2. ASSUME NEW s \in Slots, ActorStep(s) PROVE Channels'
  BY <1>2, HandleOpChannels, HandleQuitChannels, ActorMoveChannels DEF ActorStep
<1>3. ASSUME NEW s \in Slots, NEW w \in Workers, Callback(s, w) PROVE Channels'
  BY <1>3, CallbackChannels
<1>4. CASE Fork \/ Foreground \/ LoopEnds \/ Shutdown
  BY <1>4, ServeChannels, SendQuitChannels, DestroyChannels DEF Shutdown
<1>5. CASE Exited \/ UNCHANGED vars
  BY <1>5, StutterChannels DEF Exited
<1> QED
  BY <1>1, <1>2, <1>3, <1>4, <1>5 DEF Next
-------------------------------------------------------------------------------
(* Handles: which context every file lives in. *)

\* An operation on a file that nobody has answered; a file that nobody has yet
\* entered in the map, for its worker has still to read the reply of the open.
Wants(w) == op[w].kind \in {"read", "close"} /\ reply[w] = Empty
Granted(w) == reply[w].fh # NoHandle

HandlesInStep ==
  \A w \in Workers :
    /\ op[w].kind \in {"read", "close"} <=> op[w].fh # NoHandle
    /\ Granted(w) => op[w].kind = "open" /\ reply[w].st = "ok"

\* The map holds what libfuse has, with the context it lives in.
MapExact ==
  /\ \A h \in Handles : openFiles[h] = IF h \in files THEN owner[h] ELSE NoSlot
  /\ \A h \in files : owner[h] # NoSlot

\* An operation on a file is on its way to the context of the file.
WantsAtHome == \A w \in Workers : Wants(w) => owner[op[w].fh] = op[w].slot

\* A file that was just opened lives where its open went, and is no one else's.
GrantsAtHome ==
  \A w \in Workers : Granted(w) =>
    /\ owner[reply[w].fh] = op[w].slot
    /\ reply[w].fh \notin files
    /\ \A v \in Workers : reply[v].fh = reply[w].fh => v = w

\* Until a close is answered nobody else uses its file, nor is its address reused.
ClosesAlone ==
  \A w \in Workers : Wants(w) /\ op[w].kind = "close" =>
    /\ op[w].fh \notin files
    /\ \A v \in Workers \ {w} : Wants(v) => op[v].fh # op[w].fh
    /\ \A v \in Workers : reply[v].fh # op[w].fh

LoopRuns == mpc \in {"mounted", "serving"}

Home ==
  /\ HandlesInStep
  /\ LoopRuns => MapExact /\ WantsAtHome /\ GrantsAtHome /\ ClosesAlone

LEMMA InitHome == Init => Home
<1> SUFFICES ASSUME Init PROVE Home
  OBVIOUS
<1>1. \A w \in Workers : op[w] = NoOp /\ reply[w] = Empty
  BY DEF Init
<1>2. \A w \in Workers : ~Wants(w) /\ ~Granted(w) /\ op[w].fh = NoHandle
                         /\ op[w].kind = "path"
  BY <1>1 DEF Wants, Granted, NoOp, Empty
<1>3. MapExact
  BY DEF Init, MapExact
<1> QED
  BY <1>2, <1>3 DEF Home, HandlesInStep, WantsAtHome, GrantsAtHome, ClosesAlone

\* A step that leaves operations, replies and files alone.
LEMMA UntouchedHome ==
  ASSUME Home, UNCHANGED <<op, reply, openFiles, owner, files>>, LoopRuns' => LoopRuns
  PROVE  Home'
<1>1. \A w \in Workers : (Wants(w)' <=> Wants(w)) /\ (Granted(w)' <=> Granted(w))
  BY DEF Wants, Granted
<1> QED
  BY <1>1 DEF Home, HandlesInStep, MapExact, WantsAtHome, GrantsAtHome, ClosesAlone

\* Some operations are answered without a handle, and libnfs does nothing.
LEMMA AnsweredHome ==
  ASSUME Home, Channels, NEW W \in SUBSET Workers, \A w \in W : reply[w] = Empty,
         \A w \in W : reply'[w] # Empty /\ reply'[w].fh = NoHandle,
         \A w \in Workers \ W : reply'[w] = reply[w],
         UNCHANGED <<op, openFiles, owner, files>>, LoopRuns' => LoopRuns
  PROVE  Home'
<1>1. \A w \in Workers : /\ Wants(w)' <=> Wants(w) /\ w \notin W
                         /\ Granted(w)' <=> Granted(w)
                         /\ Granted(w) => w \notin W
                         /\ reply'[w].fh = reply[w].fh
  BY DEF Wants, Granted, Empty
<1> QED
  BY <1>1 DEF Home, HandlesInStep, MapExact, WantsAtHome, GrantsAtHome, ClosesAlone

\* An operation without a handle begins.
LEMMA PickSlotHome ==
  ASSUME Home, Channels, NEW w \in Workers, NEW kind \in {"path", "open"}, PickSlot(w, kind)
  PROVE  Home'
<1>1. /\ op' = [op EXCEPT ![w] = [kind |-> kind, slot |-> next, fh |-> NoHandle]]
      /\ UNCHANGED <<mpc, reply, openFiles, owner, files>>
      /\ wpc[w] = "idle"
  BY DEF PickSlot, Begin, mainVars, fileVars
<1>2. op[w] = NoOp /\ reply[w] = Empty
  BY <1>1 DEF Channels, WorkersInStep
<1>3. /\ op'[w].kind = kind /\ op'[w].fh = NoHandle
      /\ \A v \in Workers \ {w} : op'[v] = op[v]
  BY <1>1 DEF Channels, TypeOK
<1>4. /\ ~Wants(w) /\ ~Wants(w)' /\ ~Granted(w) /\ ~Granted(w)'
      /\ \A v \in Workers : (Granted(v)' <=> Granted(v)) /\ (Wants(v)' <=> Wants(v))
  BY <1>1, <1>2, <1>3 DEF Wants, Granted, NoOp, Empty
<1> QED
  BY <1>1, <1>3, <1>4
     DEF Home, HandlesInStep, MapExact, WantsAtHome, GrantsAtHome, ClosesAlone, LoopRuns

\* A read begins on a file that libfuse has, so nobody closes it.
LEMMA ReadLookupHome ==
  ASSUME Home, Channels, NEW w \in Workers, NEW h \in Handles, ReadLookup(w, h)
  PROVE  Home'
<1>1. /\ op' = [op EXCEPT ![w] = [kind |-> "read", slot |-> openFiles[h], fh |-> h]]
      /\ UNCHANGED <<mpc, reply, openFiles, owner, files>>
      /\ wpc[w] = "idle" /\ h \in files
  BY DEF ReadLookup, Begin, mainVars, fileVars
<1>2. op[w] = NoOp /\ reply[w] = Empty /\ h # NoHandle
  BY <1>1, SlotsAssumption DEF Channels, WorkersInStep
<1>3. /\ op'[w].kind = "read" /\ op'[w].fh = h /\ op'[w].slot = openFiles[h]
      /\ \A v \in Workers \ {w} : op'[v] = op[v]
  BY <1>1 DEF Channels, TypeOK
<1>4. /\ ~Wants(w) /\ Wants(w)' /\ ~Granted(w) /\ ~Granted(w)'
      /\ \A v \in Workers : Granted(v)' <=> Granted(v)
      /\ \A v \in Workers \ {w} : Wants(v)' <=> Wants(v)
  BY <1>1, <1>2, <1>3 DEF Wants, Granted, NoOp, Empty
<1>5. HandlesInStep'
  BY <1>1, <1>2, <1>3, <1>4 DEF Home, HandlesInStep
<1>6. CASE LoopRuns
  <2>1. MapExact /\ WantsAtHome /\ GrantsAtHome /\ ClosesAlone
    BY <1>6 DEF Home
  <2>2. MapExact' /\ GrantsAtHome'
    BY <1>1, <1>3, <1>4, <2>1 DEF MapExact, GrantsAtHome
  <2>3. WantsAtHome'
    BY <1>1, <1>3, <1>4, <2>1 DEF MapExact, WantsAtHome
  <2>4. ClosesAlone'
    BY <1>1, <1>3, <1>4, <2>1 DEF ClosesAlone
  <2> QED
    BY <1>5, <2>2, <2>3, <2>4 DEF Home
<1> QED
  BY <1>1, <1>5, <1>6 DEF Home, LoopRuns

\* A close begins on a file that no operation uses, and takes it out of the map.
LEMMA CloseRemoveHome ==
  ASSUME Home, Channels, NEW w \in Workers, NEW h \in Handles, CloseRemove(w, h)
  PROVE  Home'
<1>1. /\ op' = [op EXCEPT ![w] = [kind |-> "close", slot |-> openFiles[h], fh |-> h]]
      /\ openFiles' = [openFiles EXCEPT ![h] = NoSlot]
      /\ files' = files \ {h}
      /\ UNCHANGED <<mpc, reply, owner>>
      /\ wpc[w] = "idle" /\ h \in files
      /\ \A v \in Workers : op[v].fh # h
  BY DEF CloseRemove, Begin, mainVars
<1>2. op[w] = NoOp /\ reply[w] = Empty /\ h # NoHandle
  BY <1>1, SlotsAssumption DEF Channels, WorkersInStep
<1>3. /\ op'[w].kind = "close" /\ op'[w].fh = h /\ op'[w].slot = openFiles[h]
      /\ \A v \in Workers \ {w} : op'[v] = op[v]
  BY <1>1 DEF Channels, TypeOK
<1>4. /\ ~Wants(w) /\ Wants(w)' /\ ~Granted(w) /\ ~Granted(w)'
      /\ \A v \in Workers : Granted(v)' <=> Granted(v)
      /\ \A v \in Workers \ {w} : Wants(v)' <=> Wants(v)
  BY <1>1, <1>2, <1>3 DEF Wants, Granted, NoOp, Empty
<1>5. HandlesInStep'
  BY <1>1, <1>2, <1>3, <1>4 DEF Home, HandlesInStep
<1>6. CASE LoopRuns
  <2>1. MapExact /\ WantsAtHome /\ GrantsAtHome /\ ClosesAlone
    BY <1>6 DEF Home
  <2>2. MapExact' /\ GrantsAtHome'
    BY <1>1, <1>3, <1>4, <2>1 DEF MapExact, GrantsAtHome, Channels, TypeOK
  <2>3. WantsAtHome'
    BY <1>1, <1>3, <1>4, <2>1 DEF MapExact, WantsAtHome
  <2>4. \A v \in Workers : reply'[v].fh # h
    BY <1>1, <1>2, <2>1 DEF GrantsAtHome, Granted
  <2>5. ClosesAlone'
    BY <1>1, <1>3, <1>4, <2>1, <2>4 DEF ClosesAlone
  <2> QED
    BY <1>5, <2>2, <2>3, <2>5 DEF Home
<1> QED
  BY <1>1, <1>5, <1>6 DEF Home, LoopRuns

\* The worker of an operation that left no file returns.
LEMMA ReturnHome ==
  ASSUME Home, Channels, NEW w \in Workers, Return(w)
  PROVE  Home'
<1>1. /\ op' = [op EXCEPT ![w] = NoOp] /\ reply' = [reply EXCEPT ![w] = Empty]
      /\ UNCHANGED <<mpc, openFiles, owner, files>>
      /\ reply[w] # Empty
      /\ op[w].kind # "open" \/ reply[w].st # "ok" \/ reply[w].fh = NoHandle
  BY DEF Return, Finish, mainVars, fileVars, Empty
<1>2. /\ op'[w] = NoOp /\ reply'[w] = Empty
      /\ \A v \in Workers \ {w} : op'[v] = op[v] /\ reply'[v] = reply[v]
  BY <1>1 DEF Channels, TypeOK
<1>3. ~Granted(w) /\ ~Wants(w)
  BY <1>1 DEF Home, HandlesInStep, Granted, Wants
<1>4. /\ ~Wants(w)' /\ ~Granted(w)'
      /\ reply'[w].fh = NoHandle /\ reply[w].fh = NoHandle
      /\ op'[w].fh = NoHandle /\ op'[w].kind = "path"
      /\ \A v \in Workers : (Granted(v)' <=> Granted(v)) /\ (Wants(v)' <=> Wants(v))
  BY <1>2, <1>3 DEF Wants, Granted, NoOp, Empty
<1> QED
  BY <1>1, <1>2, <1>4
     DEF Home, HandlesInStep, MapExact, WantsAtHome, GrantsAtHome, ClosesAlone, LoopRuns

\* The worker of an open enters the file in the map.
LEMMA ReturnOpenHome ==
  ASSUME Home, Channels, NEW w \in Workers, ReturnOpen(w)
  PROVE  Home'
<1> DEFINE h == reply[w].fh
<1>1. /\ op' = [op EXCEPT ![w] = NoOp] /\ reply' = [reply EXCEPT ![w] = Empty]
      /\ openFiles' = [openFiles EXCEPT ![h] = op[w].slot]
      /\ files' = files \cup {h}
      /\ UNCHANGED <<mpc, owner>>
      /\ reply[w] # Empty /\ Granted(w) /\ wpc[w] = "park"
  BY DEF ReturnOpen, Finish, mainVars, Empty, Granted
<1>2. /\ op'[w] = NoOp /\ reply'[w] = Empty
      /\ \A v \in Workers \ {w} : op'[v] = op[v] /\ reply'[v] = reply[v]
      /\ h \in Handles /\ op[w].slot \in Slots
  BY <1>1 DEF Channels, TypeOK, WorkersInStep, Granted, Replies
<1>3. /\ ~Wants(w) /\ ~Wants(w)' /\ ~Granted(w)'
      /\ op'[w].fh = NoHandle /\ op'[w].kind = "path" /\ reply'[w].fh = NoHandle
      /\ \A v \in Workers \ {w} : (Granted(v)' <=> Granted(v)) /\ (Wants(v)' <=> Wants(v))
  BY <1>1, <1>2 DEF Wants, Granted, NoOp, Empty
<1> HIDE DEF h
<1>4. HandlesInStep'
  BY <1>2, <1>3 DEF Home, HandlesInStep
<1>5. CASE LoopRuns
  <2>1. MapExact /\ WantsAtHome /\ GrantsAtHome /\ ClosesAlone
    BY <1>5 DEF Home
  <2>2. /\ owner[h] = op[w].slot /\ h \notin files
        /\ \A v \in Workers : reply[v].fh = h => v = w
    BY <1>1, <2>1 DEF GrantsAtHome, h
  <2>3. op[w].slot # NoSlot
    BY <1>2, SlotsAssumption DEF Slots, NoSlot
  <2>4. MapExact'
    BY <1>1, <1>2, <2>1, <2>2, <2>3 DEF MapExact, Channels, TypeOK
  <2>5. WantsAtHome'
    BY <1>1, <1>2, <1>3, <2>1 DEF WantsAtHome
  <2>6. GrantsAtHome'
    BY <1>1, <1>2, <1>3, <2>1, <2>2 DEF GrantsAtHome, Granted
  <2>7. \A v \in Workers : Wants(v) /\ op[v].kind = "close" => op[v].fh # h
    BY <2>1 DEF ClosesAlone, h
  <2>8. ClosesAlone'
    <3> SUFFICES ASSUME NEW v \in Workers, Wants(v)', op'[v].kind = "close"
                 PROVE  /\ op'[v].fh \notin files'
                        /\ \A u \in Workers \ {v} : Wants(u)' => op'[u].fh # op'[v].fh
                        /\ \A u \in Workers : reply'[u].fh # op'[v].fh
      BY DEF ClosesAlone
    <3>1. v # w /\ Wants(v) /\ op'[v] = op[v] /\ op[v].fh # NoHandle
      BY <1>2, <1>3 DEF Home, HandlesInStep
    <3>2. /\ op[v].fh \notin files /\ op[v].fh # h
          /\ \A u \in Workers \ {v} : Wants(u) => op[u].fh # op[v].fh
          /\ \A u \in Workers : reply[u].fh # op[v].fh
      BY <2>1, <2>7, <3>1 DEF ClosesAlone
    <3> QED
      BY <1>1, <1>2, <1>3, <3>1, <3>2
  <2> QED
    BY <1>4, <2>4, <2>5, <2>6, <2>8 DEF Home
<1> QED
  BY <1>1, <1>4, <1>5 DEF Home, LoopRuns

\* What an operation did to libnfs when it completed, case by case.
LEMMA EffectCases ==
  ASSUME NEW w, NEW s, NEW st, NEW h, Effect(w, s, st, h)
  PROVE  \/ /\ op[w].kind = "open" /\ st = "ok" /\ h \in Handles
            /\ owner[h] = NoSlot /\ owner' = [owner EXCEPT ![h] = s]
         \/ /\ op[w].kind = "close" /\ h = NoHandle
            /\ owner' = [owner EXCEPT ![op[w].fh] = NoSlot]
         \/ h = NoHandle /\ owner' = owner
BY DEF Effect

\* An operation completes: in the call that issued it or in a callback.
LEMMA CompletedHome ==
  ASSUME Home, Channels, NEW w \in Workers, NEW s \in Slots,
         NEW st \in {"ok", "err"}, NEW h \in Handles \cup {NoHandle},
         reply[w] = Empty, op[w].slot = s, Effect(w, s, st, h),
         reply' = [reply EXCEPT ![w] = Answer(st, h)],
         UNCHANGED <<op, openFiles, files, mpc>>
  PROVE  Home'
<1>1. /\ reply'[w].st = st /\ reply'[w].fh = h /\ reply'[w] # Empty
      /\ \A v \in Workers \ {w} : reply'[v] = reply[v]
  <2>1. reply \in [Workers -> Replies]
    BY DEF Channels, TypeOK
  <2>2. reply'[w] = Answer(st, h) /\ \A v \in Workers \ {w} : reply'[v] = reply[v]
    BY <2>1
  <2>3. Answer(st, h).st = st /\ Answer(st, h).fh = h /\ Answer(st, h) # Empty
    BY AnswerProperties
  <2> QED
    BY <2>2, <2>3
<1>2. ~Granted(w) /\ ~Wants(w)' /\ reply[w].fh = NoHandle
  BY <1>1 DEF Granted, Wants, Empty
<1>3. \A v \in Workers \ {w} : (Granted(v)' <=> Granted(v)) /\ (Wants(v)' <=> Wants(v))
  <2> SUFFICES ASSUME NEW v \in Workers \ {w}
               PROVE  (Granted(v)' <=> Granted(v)) /\ (Wants(v)' <=> Wants(v))
    OBVIOUS
  <2>1. reply'[v] = reply[v]
    BY <1>1
  <2> QED
    BY <2>1 DEF Granted, Wants
<1>4. CASE h = NoHandle /\ owner' = owner
  <2> DEFINE W == {w}
  <2>1. /\ W \in SUBSET Workers /\ \A v \in W : reply[v] = Empty
        /\ \A v \in W : reply'[v] # Empty /\ reply'[v].fh = NoHandle
        /\ \A v \in Workers \ W : reply'[v] = reply[v]
    BY <1>1, <1>4
  <2>2. UNCHANGED <<op, openFiles, owner, files>> /\ (LoopRuns' => LoopRuns)
    BY <1>4 DEF LoopRuns
  <2> HIDE DEF W
  <2> QED
    BY <2>1, <2>2, AnsweredHome
<1>5. CASE /\ op[w].kind = "open" /\ st = "ok" /\ h \in Handles
           /\ owner[h] = NoSlot /\ owner' = [owner EXCEPT ![h] = s]
  <2>1. /\ owner'[h] = s /\ \A g \in Handles \ {h} : owner'[g] = owner[g]
        /\ h # NoHandle /\ s # NoSlot /\ Granted(w)'
    BY <1>1, <1>5, SlotsAssumption DEF Channels, TypeOK, Slots, NoSlot, Granted
  <2>2. HandlesInStep'
    BY <1>1, <1>3, <1>5 DEF Home, HandlesInStep
  <2>3. CASE LoopRuns
    <3>1. MapExact /\ WantsAtHome /\ GrantsAtHome /\ ClosesAlone
      BY <2>3 DEF Home
    <3>2. \A v \in Workers : Wants(v) => op[v].fh \in Handles \ {h}
      <4>1. \A v \in Workers : Wants(v) => op[v].fh \in Handles
        BY DEF Wants, Home, HandlesInStep, Channels, TypeOK, Ops
      <4>2. \A v \in Workers : Wants(v) => op[v].slot \in Slots
        BY DEF Wants, Channels, WorkersInStep, NoOp
      <4>3. NoSlot \notin Slots
        BY SlotsAssumption DEF Slots, NoSlot
      <4> QED
        BY <1>5, <3>1, <4>1, <4>2, <4>3 DEF WantsAtHome
    <3>3. \A v \in Workers : Granted(v) => reply[v].fh \in Handles \ {h}
      <4>1. \A v \in Workers : Granted(v) => reply[v].fh \in Handles
        BY DEF Granted, Channels, TypeOK, Replies
      <4>2. \A v \in Workers : Granted(v) => op[v].slot \in Slots
        BY DEF Granted, Channels, WorkersInStep, Empty
      <4>3. NoSlot \notin Slots
        BY SlotsAssumption DEF Slots, NoSlot
      <4> QED
        BY <1>5, <3>1, <4>1, <4>2, <4>3 DEF GrantsAtHome
    <3>4. h \notin files /\ files \in SUBSET Handles
      BY <1>5, <3>1 DEF MapExact, Channels, TypeOK
    <3>5. MapExact'
      BY <2>1, <3>1, <3>4 DEF MapExact
    <3>6. WantsAtHome'
      BY <1>2, <1>3, <2>1, <3>1, <3>2 DEF WantsAtHome
    <3>7. GrantsAtHome'
      BY <1>1, <1>2, <1>3, <2>1, <3>1, <3>3, <3>4 DEF GrantsAtHome, Granted
    <3>8. ClosesAlone'
      BY <1>1, <1>2, <1>3, <3>1, <3>2 DEF ClosesAlone
    <3> QED
      BY <2>2, <3>5, <3>6, <3>7, <3>8 DEF Home
  <2> QED
    BY <2>2, <2>3 DEF Home, LoopRuns
<1>6. CASE /\ op[w].kind = "close" /\ h = NoHandle
           /\ owner' = [owner EXCEPT ![op[w].fh] = NoSlot]
  <2> DEFINE g == op[w].fh
  <2>1. /\ Wants(w) /\ g \in Handles /\ ~Granted(w)'
        /\ \A k \in Handles \ {g} : owner'[k] = owner[k]
    BY <1>1, <1>6 DEF Wants, Granted, Home, HandlesInStep, Channels, TypeOK, Ops
  <2>2. HandlesInStep'
    BY <1>1, <1>3, <2>1 DEF Home, HandlesInStep
  <2>3. CASE LoopRuns
    <3>1. MapExact /\ WantsAtHome /\ GrantsAtHome /\ ClosesAlone
      BY <2>3 DEF Home
    <3>2. /\ g \notin files /\ files \in SUBSET Handles
          /\ \A v \in Workers \ {w} : Wants(v) => op[v].fh \in Handles \ {g}
          /\ \A v \in Workers : Granted(v) => reply[v].fh \in Handles \ {g}
      <4>1. \A v \in Workers : Wants(v) => op[v].fh \in Handles
        BY DEF Wants, Home, HandlesInStep, Channels, TypeOK, Ops
      <4>2. \A v \in Workers : Granted(v) => reply[v].fh \in Handles
        BY DEF Granted, Channels, TypeOK, Replies
      <4> QED
        BY <1>6, <2>1, <3>1, <4>1, <4>2 DEF ClosesAlone, Channels, TypeOK
    <3> HIDE DEF g
    <3>3. MapExact'
      BY <2>1, <3>1, <3>2 DEF MapExact
    <3>4. WantsAtHome'
      BY <1>2, <1>3, <2>1, <3>1, <3>2 DEF WantsAtHome
    <3>5. GrantsAtHome'
      BY <1>1, <1>2, <1>3, <1>6, <2>1, <3>1, <3>2 DEF GrantsAtHome, Granted
    <3>6. ClosesAlone'
      <4> SUFFICES ASSUME NEW v \in Workers, Wants(v)', op'[v].kind = "close"
                   PROVE  /\ op'[v].fh \notin files'
                          /\ \A u \in Workers \ {v} : Wants(u)' => op'[u].fh # op'[v].fh
                          /\ \A u \in Workers : reply'[u].fh # op'[v].fh
        BY DEF ClosesAlone
      <4>1. v # w /\ Wants(v) /\ op[v].kind = "close" /\ op[v].fh # NoHandle
        BY <1>2, <1>3 DEF Home, HandlesInStep
      <4> QED
        BY <1>1, <1>2, <1>3, <1>6, <3>1, <4>1 DEF ClosesAlone
    <3> QED
      BY <2>2, <3>3, <3>4, <3>5, <3>6 DEF Home
  <2> QED
    BY <2>2, <2>3 DEF Home, LoopRuns
<1> QED
  BY <1>4, <1>5, <1>6, EffectCases

LEMMA HandleOpHome ==
  ASSUME Home, Channels, NEW s \in Slots, HandleOp(s)
  PROVE  Home'
<1> DEFINE w == Head(queue[s])
<1>1. /\ queue[s] # <<>> /\ w # Quit
      /\ IssueQueued(s, w) \/ IssueRejected(s, w) \/ IssueCompleted(s, w)
      /\ UNCHANGED <<op, openFiles, files, mpc>>
  BY DEF HandleOp, mainVars
<1>2. w \in Workers /\ w \in Queued(s)
  BY <1>1, ReceiveElems, QueuedElems DEF Channels, TypeOK, OnePlace
<1>3. reply[w] = Empty /\ op[w].slot = s
  BY <1>2 DEF Channels, BuffersOwned
<1> HIDE DEF w
<1>4. CASE IssueQueued(s, w)
  BY <1>1, <1>4, UntouchedHome DEF IssueQueued, LoopRuns
<1>5. CASE IssueRejected(s, w)
  <2>1. reply' = [reply EXCEPT ![w] = Answer("err", NoHandle)] /\ owner' = owner
    BY <1>5 DEF IssueRejected
  <2>2. /\ reply'[w] # Empty /\ reply'[w].fh = NoHandle
        /\ \A v \in Workers \ {w} : reply'[v] = reply[v]
    BY <1>2, <2>1, AnswerProperties DEF Channels, TypeOK
  <2> QED
    <3>1. {w} \in SUBSET Workers /\ (LoopRuns' => LoopRuns)
      BY <1>1, <1>2 DEF LoopRuns
    <3> QED
      BY <1>1, <1>2, <1>3, <2>1, <2>2, <3>1, AnsweredHome
<1>6. CASE IssueCompleted(s, w)
  BY <1>1, <1>2, <1>3, <1>6, CompletedHome DEF IssueCompleted
<1> QED
  BY <1>1, <1>4, <1>5, <1>6

LEMMA CallbackHome ==
  ASSUME Home, Channels, NEW s \in Slots, NEW w \in Workers, Callback(s, w)
  PROVE  Home'
<1>1. reply[w] = Empty /\ op[w].slot = s
  BY DEF Callback, Channels, BuffersOwned
<1> QED
  BY <1>1, CompletedHome DEF Callback, mainVars

LEMMA HandleQuitHome ==
  ASSUME Home, Channels, NEW s \in Slots, HandleQuit(s)
  PROVE  Home'
<1> DEFINE W == Queued(s) \cap Workers
<1>1. /\ reply' = [w \in Workers |-> IF w \in Queued(s) THEN Answer("gone", NoHandle)
                                                        ELSE reply[w]]
      /\ UNCHANGED <<op, openFiles, owner, files, mpc>>
  BY DEF HandleQuit, mainVars, fileVars
<1>2. \A w \in W : /\ reply[w] = Empty
                   /\ reply'[w] # Empty /\ reply'[w].fh = NoHandle
  BY <1>1, AnswerProperties DEF Channels, BuffersOwned
<1>3. \A w \in Workers \ W : reply'[w] = reply[w]
  BY <1>1
<1> HIDE DEF W
<1>4. W \in SUBSET Workers
  BY DEF W
<1> QED
  BY <1>1, <1>2, <1>3, <1>4, AnsweredHome DEF LoopRuns

LEMMA SendHome ==
  ASSUME Home, Channels, NEW w \in Workers, Send(w)
  PROVE  Home'
<1>1. UNCHANGED <<op, openFiles, owner, files, mpc>>
  BY DEF Send, mainVars, fileVars
<1>2. CASE reply' = reply
  BY <1>1, <1>2, UntouchedHome DEF LoopRuns
<1>3. CASE reply' = [reply EXCEPT ![w] = Answer("gone", NoHandle)]
  <2>1. reply[w] = Empty
    BY DEF Send, Channels, WorkersInStep
  <2>2. /\ reply'[w] # Empty /\ reply'[w].fh = NoHandle
        /\ \A v \in Workers \ {w} : reply'[v] = reply[v]
    BY <1>3, AnswerProperties DEF Channels, TypeOK
  <2> QED
    BY <1>1, <2>1, <2>2, AnsweredHome DEF LoopRuns
<1> QED
  BY <1>2, <1>3 DEF Send

LEMMA HomeStep == Home /\ Channels /\ [Next]_vars => Home'
<1> SUFFICES ASSUME Home, Channels, [Next]_vars PROVE Home'
  OBVIOUS
<1>1. ASSUME NEW w \in Workers, Request(w) PROVE Home'
  BY <1>1, PickSlotHome, ReadLookupHome, CloseRemoveHome DEF Request
<1>2. ASSUME NEW w \in Workers, WorkerStep(w) PROVE Home'
  <2>1. CASE EnsureStarted(w)
    BY <2>1, UntouchedHome DEF EnsureStarted, mainVars, fileVars, LoopRuns
  <2> QED
    BY <1>2, <2>1, SendHome, ReturnHome, ReturnOpenHome DEF WorkerStep
<1>3. ASSUME NEW s \in Slots, ActorStep(s) PROVE Home'
  <2>1. CASE Drained(s) \/ Check(s) \/ Pumped(s)
    BY <2>1, UntouchedHome
       DEF Drained, Check, Pumped, workerVars, mainVars, fileVars, LoopRuns
  <2> QED
    BY <1>3, <2>1, HandleOpHome, HandleQuitHome DEF ActorStep
<1>4. ASSUME NEW s \in Slots, NEW w \in Workers, Callback(s, w) PROVE Home'
  BY <1>4, CallbackHome
<1>5. CASE Fork \/ Foreground \/ LoopEnds \/ SendQuit \/ Join
  BY <1>5, UntouchedHome
     DEF Fork, Foreground, LoopEnds, SendQuit, Join, MainStep, workerVars, fileVars, LoopRuns
<1>6. CASE Destroy
  <2>1. ~LoopRuns'
    BY <1>6 DEF Destroy, LoopRuns
  <2>2. \A w \in Workers : Granted(w)' => Granted(w) /\ reply'[w] = reply[w]
    BY <1>6, AnswerProperties DEF Destroy, Granted
  <2>3. op' = op
    BY <1>6 DEF Destroy
  <2> QED
    BY <2>1, <2>2, <2>3 DEF Home, HandlesInStep
<1>7. CASE Exited \/ UNCHANGED vars
  BY <1>7, UntouchedHome DEF Exited, vars, LoopRuns
<1> QED
  BY <1>1, <1>2, <1>3, <1>4, <1>5, <1>6, <1>7 DEF Next, Shutdown

-------------------------------------------------------------------------------
(* Theorems. *)

SlotsInv == Channels /\ Home

\* In every behaviour, also one in which callbacks run on into shutdown(), every
\* operation is in one place, every Quit where shutdown() put it, and every file
\* with the context that opened it.
THEOREM SlotsInvariance == Safety => []SlotsInv
<1>1. Init => SlotsInv
  BY InitChannels, InitHome DEF SlotsInv
<1>2. SlotsInv /\ [Next]_vars => SlotsInv'
  BY ChannelsStep, HomeStep DEF SlotsInv
<1> QED
  BY <1>1, <1>2, PTL DEF Safety

\* Every variable of the client stays within its type.
THEOREM SlotsTypeCorrect == Safety => []TypeOK
BY SlotsInvariance, PTL DEF SlotsInv, Channels

\* The counter the pump loop watches never loses a request nor invents one.
THEOREM CounterIsExact == Safety => []InflightExact
BY SlotsInvariance, PTL DEF SlotsInv, Channels

\* No actor sleeps in recv() while libnfs owes it a reply.
THEOREM ActorsNeverSleepOnReplies == Safety => []NoBlindWait
BY SlotsInvariance, PTL DEF SlotsInv, Channels

\* No buffer is handed to libnfs that its worker may leave, and none is handed to
\* two contexts.
THEOREM BuffersStayOwned == Safety => []BuffersOwned
BY SlotsInvariance, PTL DEF SlotsInv, Channels

\* Every read and close goes to the context that opened the file.
THEOREM HandlesStayHome == Safety => []HandlesAtHome
<1>1. Home => HandlesAtHome
  BY DEF Home, HandlesAtHome, LoopRuns, MapExact, WantsAtHome, Wants
<1> QED
  BY <1>1, SlotsInvariance, PTL DEF SlotsInv

\* No context is used after nfs_destroy_context(), even by callbacks of FUSE that
\* are still running then.
THEOREM ContextsNotUsedAfterDestroy == Safety => []NoUseAfterDestroy
<1>1. Channels => NoUseAfterDestroy
  BY DEF Channels, QuitInStep, NoUseAfterDestroy
<1> QED
  BY <1>1, SlotsInvariance, PTL DEF SlotsInv
================================================================================
