--------------------------------- MODULE Replies ---------------------------------
(***************************************************************************)
(* The data path of one NFS operation: the ids its request goes out with,  *)
(* the libnfs callback that takes the reply (libnfs.rs), the buffer the    *)
(* worker lent it (nfscli.rs), and what of it reaches the buffer that      *)
(* libfuse lent the worker (fs.rs).  When the callback runs is the subject *)
(* of NfsSlots; here one operation follows another on one context.         *)
(* Memory is an array of cells; "?" is what a cell holds that nobody wrote.*)
(* A structure (stat, statvfs) or a handle is one cell.  Group ids go the  *)
(* way of user ids and are left out.                                       *)
(***************************************************************************)
EXTENDS Integers, SequencesExt

CONSTANTS Users,       \* user ids of callers, files and -U
          Mounter,     \* the user that mounted
          NoId,        \* the -1 of "no -U"
          MaxSize,     \* bound on the sizes of libfuse's buffers
          MaxTarget    \* bound on the bytes of a link's target

ASSUME RepliesAssumption ==
  /\ Mounter \in Users /\ NoId \notin Users /\ "null" \notin Users
  /\ MaxSize \in Nat /\ MaxTarget \in Nat

VARIABLES cfg,      \* Cfg: the id of -U, or NoId, and -o
          ids,      \* the id the context puts on its requests
          op,       \* the operation: kind, caller, size of libfuse's buffer
          pc,       \* "idle", "issued", "completed", "returned"
          given,    \* history: status and data the server gave
          lent,     \* the buffer that return_data points to
          status,   \* the status of the Reply
          user,     \* libfuse's buffer
          ret       \* the result of the FUSE operation

vars == <<cfg, ids, op, pc, given, lent, status, user, ret>>

EIO == -5
Null == "null"
Bytes == {"a", "l", "c"}   \* ASCII; the lead of three bytes; one that continues it
Top == 3 * MaxTarget + MaxSize + 1
Untouched == [i \in 0..Top |-> "?"]
Nothing == [status |-> 0, data |-> <<>>]
Resting == [kind |-> "none", caller |-> Mounter, size |-> 0]

\* copy_nonoverlapping(): n cells of a sequence.
Copy(mem, data, n) == [i \in 0..Top |-> IF i < n THEN data[i + 1] ELSE mem[i]]
AtMost(n, m) == IF n < m THEN n ELSE m

Init ==
  /\ cfg \in [uid : Users \cup {NoId}, own : BOOLEAN]
  /\ ids = Mounter
  /\ op = Resting /\ pc = "idle" /\ given = Nothing
  /\ lent = Untouched /\ user = Untouched
  /\ status = 0 /\ ret = 0
----------------------------------------------------------------------------------
(* The worker lends a buffer, and the actor issues the request. *)

\* What return_data points to: a default structure, or zeros with room for a NUL.
\* It is null for open, and libfuse's own buffer for read.
Lend(kind, size) ==
  CASE kind \in {"stat", "statvfs"} -> [Untouched EXCEPT ![0] = "default"]
    [] kind = "readlink" -> [i \in 0..Top |-> IF i <= size THEN "0" ELSE "?"]
    [] kind = "open" -> [Untouched EXCEPT ![0] = Null]
    [] OTHER -> Untouched

Foreign(caller) == caller # Mounter

\* Mutant of UseCallerId: -o is for every user, the one that mounted included.
UseCallerIdAll(caller) ==
  (cfg.uid = NoId /\ ~cfg.own) \/ cfg.own

UseCallerId(caller) ==
  \/ cfg.uid = NoId /\ ~cfg.own
  \/ cfg.own /\ (cfg.uid = NoId \/ Foreign(caller))

\* statvfs and close keep the ids of the operation before them.
Credentials(kind, caller) ==
  ids' = IF kind \in {"statvfs", "close"} THEN ids
         ELSE IF UseCallerId(caller) THEN caller ELSE cfg.uid

Begin(kind, caller, size) ==
  /\ pc = "idle"
  /\ op' = [kind |-> kind, caller |-> caller, size |-> size]
  /\ lent' = Lend(kind, size)
  /\ UNCHANGED <<cfg, given, status>>

Issue(kind, caller, size) ==
  /\ Begin(kind, caller, size)
  /\ kind # "read" \/ size > 0
  /\ Credentials(kind, caller)
  /\ pc' = "issued"
  /\ user' = IF kind = "open" THEN [user EXCEPT ![0] = Null] ELSE user
  /\ UNCHANGED ret

\* A read of nothing does not leave fs.rs.
ReadNothing(caller) ==
  /\ Begin("read", caller, 0)
  /\ pc' = "returned" /\ ret' = 0
  /\ UNCHANGED <<ids, user>>

\* libnfs refuses the request, or the actor is gone: no callback runs.
Refused ==
  /\ pc = "issued"
  /\ pc' = "completed" /\ status' = EIO
  /\ given' = [status |-> EIO, data |-> <<>>]
  /\ UNCHANGED <<cfg, ids, op, lent, user, ret>>
----------------------------------------------------------------------------------
(* The callback of libnfs, with a status and data of the server. *)

Replied(s, data) ==
  /\ pc = "issued" /\ pc' = "completed"
  /\ given' = [status |-> s, data |-> data]
  /\ UNCHANGED <<cfg, ids, op, ret>>

\* generic_cb, and every callback of a failed request.
Fails(s) ==
  /\ Replied(s, <<>>)
  /\ s < 0 \/ op.kind = "close"
  /\ status' = s
  /\ UNCHANGED <<lent, user>>

copy_struct_cb(st) ==
  /\ op.kind \in {"stat", "statvfs"}
  /\ Replied(0, <<st>>)
  /\ status' = 0
  /\ lent' = Copy(lent, <<st>>, 1)
  /\ UNCHANGED user

\* strncat(): after the first NUL of the buffer, at most max bytes and a NUL.
Strncat(mem, bytes, max) ==
  LET from == CHOOSE i \in 0..Top : mem[i] = "0" /\ \A j \in 0..(i - 1) : mem[j] # "0"
      n == AtMost(Len(bytes), max)
  IN  [i \in 0..Top |-> IF i \in from..(from + n - 1) THEN bytes[i - from + 1]
                        ELSE IF i = from + n THEN "0" ELSE mem[i]]

\* Mutant of readlink_cb: the bound counts the room for the NUL.
ReadlinkCbOneMore(target) ==
  /\ op.kind = "readlink"
  /\ Replied(0, target)
  /\ status' = 0
  /\ lent' = Strncat(lent, target, op.size + 1)
  /\ UNCHANGED user

readlink_cb(target) ==
  /\ op.kind = "readlink"
  /\ Replied(0, target)
  /\ status' = 0
  /\ lent' = Strncat(lent, target, op.size)
  /\ UNCHANGED user

\* Success need not come with a handle.
open_cb(fh) ==
  /\ op.kind = "open"
  /\ Replied(0, <<fh>>)
  /\ status' = 0
  /\ lent' = Copy(lent, <<fh>>, 1)
  /\ UNCHANGED user

\* Mutant of read_cb: the status of the server is passed on as it is.
ReadCbStatus(n, data) ==
  /\ op.kind = "read"
  /\ Replied(n, data)
  /\ status' = n
  /\ user' = Copy(user, data, AtMost(n, op.size))
  /\ UNCHANGED lent

\* The reply may be longer than what was asked for; at the end of the file it is
\* empty.  The status becomes the number of bytes delivered.
read_cb(n, data) ==
  /\ op.kind = "read"
  /\ Replied(n, data)
  /\ status' = AtMost(n, op.size)
  /\ user' = Copy(user, data, AtMost(n, op.size))
  /\ UNCHANGED lent
----------------------------------------------------------------------------------
(* The worker takes the reply and fills libfuse's buffer. *)

\* from_utf8_lossy(): each maximal piece of a character that is not whole becomes
\* U+FFFD, which has three bytes.
Replacement == <<"ef", "bf", "bd">>
Broken(part) == IF part = <<>> THEN <<>> ELSE Replacement
LossyByte(st, b) ==
  CASE b = "c" /\ st.part = <<>> -> [out |-> st.out \o Replacement, part |-> <<>>]
    [] b = "c" /\ Len(st.part) = 1 -> [out |-> st.out, part |-> <<"l", "c">>]
    [] b = "c" /\ Len(st.part) = 2 -> [out |-> st.out \o <<"l", "c", "c">>, part |-> <<>>]
    [] b = "l" -> [out |-> st.out \o Broken(st.part), part |-> <<"l">>]
    [] OTHER -> [out |-> st.out \o Broken(st.part) \o <<b>>, part |-> <<>>]
LossyRun(bytes) ==
  LET st[i \in 0..Len(bytes)] ==
        IF i = 0 THEN [out |-> <<>>, part |-> <<>>] ELSE LossyByte(st[i - 1], bytes[i])
  IN  st
Lossy(bytes) ==
  LET st == LossyRun(bytes)[Len(bytes)] IN st.out \o Broken(st.part)

\* The bytes of a buffer of `len` cells up to its first NUL, or all of it.
CString(mem, len) ==
  LET ends == {i \in 0..(len - 1) : mem[i] = "0"}
      n == IF ends = {} THEN len ELSE CHOOSE i \in ends : \A j \in ends : i <= j
  IN  [i \in 1..n |-> mem[i - 1]]

Answer(r, mem) ==
  /\ pc = "completed" /\ pc' = "returned"
  /\ ret' = r /\ user' = mem
  /\ UNCHANGED <<cfg, ids, op, given, lent, status>>

\* getattr: map_uid() shows the files of the -U user as the caller's.
MapUid(owner) == IF cfg.uid # NoId /\ owner = cfg.uid THEN op.caller ELSE owner

Failed == status < 0 /\ op.kind # "close" /\ Answer(status, user)

\* Mutant of Getattr: the structure is filled in whatever the status.
GetattrAlways ==
  op.kind = "stat" /\ Answer(0, [user EXCEPT ![0] = MapUid(lent[0])])

Getattr ==
  op.kind = "stat" /\ status >= 0 /\ Answer(0, [user EXCEPT ![0] = MapUid(lent[0])])

Statfs ==
  op.kind = "statvfs" /\ status >= 0 /\ Answer(0, [user EXCEPT ![0] = lent[0]])

\* Mutant of Readlink: a target as long as the buffer is left without its end.
ReadlinkNoEnd ==
  LET target == Lossy(CString(lent, op.size + 1))
      n == AtMost(Len(target), op.size)
      copied == Copy(user, target, n)
  IN  /\ op.kind = "readlink" /\ status >= 0
      /\ Answer(0, IF n < op.size THEN [copied EXCEPT ![n] = "0"] ELSE copied)

Readlink ==
  LET target == Lossy(CString(lent, op.size + 1))
      n == AtMost(Len(target), op.size)
      copied == Copy(user, target, n)
  IN  /\ op.kind = "readlink" /\ status >= 0
      /\ Answer(0, CASE n < op.size -> [copied EXCEPT ![n] = "0"]
                     [] n = op.size /\ op.size > 0 -> [copied EXCEPT ![op.size - 1] = "0"]
                     [] OTHER -> copied)

\* Success without a handle is an error.
Open ==
  /\ op.kind = "open" /\ status >= 0
  /\ IF lent[0] = Null THEN Answer(EIO, user)
     ELSE Answer(0, [user EXCEPT ![0] = lent[0]])

\* The callback wrote into libfuse's buffer itself.
Read == op.kind = "read" /\ status >= 0 /\ Answer(status, user)

\* release has no use for the outcome.
Release == op.kind = "close" /\ Answer(0, user)

Rest ==
  /\ pc = "returned" /\ pc' = "idle"
  /\ op' = Resting /\ given' = Nothing
  /\ lent' = Untouched /\ user' = Untouched /\ status' = 0 /\ ret' = 0
  /\ UNCHANGED <<cfg, ids>>

Targets == UNION {[1..n -> Bytes] : n \in 0..MaxTarget}
FileBytes(n) == [i \in 1..n |-> <<"byte", i>>]

Next ==
  \/ \E kind \in {"stat", "statvfs", "open", "close"}, u \in Users : Issue(kind, u, 0)
  \/ \E kind \in {"readlink", "read"}, u \in Users, size \in 0..MaxSize : Issue(kind, u, size)
  \/ \E u \in Users : ReadNothing(u)
  \/ Refused
  \/ \E s \in {EIO, 0} : Fails(s)
  \/ \E st \in Users : copy_struct_cb(st)
  \/ \E target \in Targets : readlink_cb(target)
  \/ \E fh \in {Null, "fh"} : open_cb(fh)
  \/ \E n \in 0..(MaxSize + 1) : read_cb(n, FileBytes(n))
  \/ Failed \/ Getattr \/ Statfs \/ Readlink \/ Open \/ Read \/ Release
  \/ Rest

Spec == Init /\ [][Next]_vars
----------------------------------------------------------------------------------
(* Properties *)

TypeOK ==
  /\ cfg \in [uid : Users \cup {NoId}, own : BOOLEAN] /\ ids \in Users
  /\ op \in [kind : {"none", "stat", "statvfs", "readlink", "open", "read", "close"},
             caller : Users, size : 0..MaxSize]
  /\ pc \in {"idle", "issued", "completed", "returned"}
  /\ status \in {EIO} \cup 0..MaxSize /\ ret \in {EIO} \cup 0..MaxSize
  /\ DOMAIN lent = 0..Top /\ DOMAIN user = 0..Top

Cells == IF op.kind \in {"readlink", "read"} THEN op.size ELSE 1

\* However long the reply of the server is, and however it grows when its text is
\* repaired, no callback or operation writes past libfuse's buffer, nor past the
\* one the worker lent to the callback, which for a link has one cell more.
InBounds ==
  \A i \in 0..Top :
    /\ i >= Cells => user[i] = "?"
    /\ i >= (IF op.kind = "readlink" THEN Cells + 1 ELSE Cells) => lent[i] = "?"

\* The targets that are UTF-8 texts, of at most MaxTarget bytes.
Texts ==
  {FlattenSeq(chars) :
     chars \in UNION {[1..n -> {<<"a">>, <<"l", "c", "c">>}] : n \in 0..MaxTarget}}

\* A link read into a buffer with any room at all is a terminated string.  It is the
\* target, if that is a text that fits with its end; of a longer text it is as much
\* as fits, and only a character that is cut in two may be lost or altered.
LinkFits ==
  pc = "returned" /\ op.kind = "readlink" /\ ret = 0 /\ op.size > 0 =>
    LET link == CString(user, op.size)
        target == given.data
    IN  /\ Len(link) < op.size
        /\ target \in Texts =>
             /\ Len(target) < op.size => link = target
             /\ \A p \in Texts :
                  IsPrefix(p, target) /\ Len(p) < op.size => IsPrefix(p, link)

\* What an operation returns is what the server said: no error is reported as a
\* success (a success without a handle counts as an error), no buffer of an error is
\* filled, no default passes for a reply, and a read reports exactly the bytes of
\* the reply that it put into the buffer.
NothingMadeUp ==
  pc = "returned" /\ op.kind # "close" =>
    /\ ret < 0 =>
         /\ given.status < 0 \/ (op.kind = "open" /\ given.data = <<Null>>)
         /\ \A i \in 0..Top : user[i] \in {"?", Null}
    /\ ret >= 0 =>
         /\ given.status >= 0
         /\ op.kind = "read" =>
              /\ ret = AtMost(given.status, op.size)
              /\ \A i \in 0..Top : user[i] = IF i < ret THEN given.data[i + 1] ELSE "?"
         /\ op.kind \in {"open", "statvfs"} => user[0] = given.data[1] /\ user[0] # Null
         /\ op.kind = "stat" => user[0] \in {given.data[1], op.caller}

\* A request that is about one caller goes out under the id of -U, or under the
\* caller's own (there is no -U, or -o is given and the caller is not the user that
\* mounted), whatever went before it on the context, and never as -1.  And getattr
\* agrees with it: the files of the id the caller acts under are shown as its own.
OneIdentity ==
  /\ pc = "issued" /\ op.kind \in {"stat", "readlink", "open", "read"} =>
       ids = IF cfg.uid # NoId /\ ~(cfg.own /\ Foreign(op.caller)) THEN cfg.uid ELSE op.caller
  /\ pc = "returned" /\ op.kind = "stat" /\ ret = 0 =>
       /\ given.data[1] = ids => user[0] = op.caller
       /\ user[0] = op.caller => given.data[1] \in {op.caller, cfg.uid}
==================================================================================
