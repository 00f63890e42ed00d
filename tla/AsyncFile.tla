------------------------------ MODULE AsyncFile ------------------------------
(***************************************************************************)
(* File of fs/fs.rs over Unblock of runtime/blocking/blocking.rs: the file *)
(* itself is used by a task on the pool, which reads ahead into a pipe or  *)
(* writes what it finds in one.  A poll is several turns, each a step; it  *)
(* may be left Pending where it waits for the task, and then any call may  *)
(* follow.  The pipe does what Pipe says of it.                            *)
(***************************************************************************)
EXTENDS Integers, Sequences

CONSTANTS
    FileLen,   \* how many bytes are in the file at first
    Ahead,     \* the capacity of the pipe
    MaxFile,   \* bound: the length of the file
    MaxCalls   \* bound: how many bytes are written, and errors

VARIABLES
    st,        \* Unblock.state: idle, or what the task is for
    task,      \* run, looked (it found the pipe empty), done, or failed
    alive,     \* whether Unblock has its end of the pipe
    ring,      \* what is in the pipe
    target,    \* the position that a seek of the task is for
    content, pos,        \* the file, and its position
    read_pos, is_dirty,  \* the fields of File
    doing,     \* the poll under way, and its phase
    said,      \* what the last one returned
    want, upos,          \* the file and the position as the user knows them
    writes,    \* bytes written so far
    adrift,    \* what sets the two apart, where the model ends: a read-ahead that starts
               \* elsewhere than read_pos says, the race at the end of a pipe, an error
    shut       \* poll_close has taken the file

fivars == <<st, task, alive, ring, target, content, pos, read_pos, is_dirty,
            doing, said, want, upos, writes, adrift, shut>>

Initial == [i \in 1 .. FileLen |-> i]
Nowhere == -1      \* None
Unknown == -2      \* Some(Err)
Here    == -3      \* SeekFrom::Current(0)
Quiet   == <<"", "", 0>>

FiInit ==
    /\ st = "idle" /\ task = "done" /\ alive = FALSE /\ ring = <<>> /\ target = 0
    /\ content = Initial /\ pos = 0 /\ read_pos = Nowhere /\ is_dirty \in BOOLEAN
    /\ doing = Quiet /\ said = "" /\ want = Initial /\ upos = 0 /\ writes = 0
    /\ adrift = FALSE /\ shut = FALSE

Least(a, b) == IF a < b THEN a ELSE b
\* the bytes s written over the file f from offset p on, and k bytes from there
Byte(f, i) == IF i <= Len(f) THEN f[i] ELSE 0
Cut(f, n) == [i \in 1 .. n |-> Byte(f, i)]
Over(f, p, s) == [i \in 1 .. (IF p + Len(s) > Len(f) THEN p + Len(s) ELSE Len(f)) |->
                     IF i > p /\ i <= p + Len(s) THEN s[i - p] ELSE Byte(f, i)]
From(f, p, k) == [i \in 1 .. k |-> Byte(f, p + i)]

-----------------------------------------------------------------------------
\* the task
Of(s) == st = s /\ UNCHANGED <<st, alive, target, read_pos, is_dirty, doing, said, want, upos, writes, shut>>
Busy == task \in {"run", "looked"}

TaskSeek ==
    /\ Of("seek") /\ task = "run"
    /\ pos' = (IF target = Here THEN pos ELSE target) /\ task' = "done" /\ UNCHANGED <<ring, content, adrift>>
\* fill: at the end of the file, or when the reader is gone, the task is done
TaskRead ==
    /\ Of("read") /\ Busy /\ UNCHANGED content
    /\ \/ \E k \in 1 .. Least(Ahead - Len(ring), Len(content) - pos) :
             /\ pos' = pos + k /\ UNCHANGED <<task, adrift>>
             /\ ring' = IF alive THEN ring \o SubSeq(content, pos + 1, pos + k) ELSE ring
       \/ (pos >= Len(content) \/ ~alive) /\ task' = "done" /\ UNCHANGED <<ring, pos, adrift>>
\* drain: what the pipe holds is written, part by part
TaskWrite ==
    /\ Of("write") /\ Busy /\ ring # <<>> /\ task = "run" /\ UNCHANGED <<task, adrift>>
    /\ \E k \in 1 .. Len(ring) :
          /\ content' = Over(content, pos, SubSeq(ring, 1, k)) /\ pos' = pos + k
          /\ ring' = SubSeq(ring, k + 1, Len(ring))
TaskLook ==
    /\ Of("write") /\ task = "run" /\ ring = <<>> /\ task' = "looked" /\ UNCHANGED <<ring, content, pos, adrift>>
\* the load of closed, which comes after that look
TaskClosed ==
    /\ Of("write") /\ task = "looked" /\ task' = (IF alive THEN "run" ELSE "done")
    /\ adrift' = (adrift \/ (~alive /\ ring # <<>>)) /\ UNCHANGED <<ring, content, pos>>
\* an error of the file, or of io.flush
TaskFails ==
    /\ \/ Of("read") \/ Of("write")
    /\ Busy /\ task' = "failed" /\ UNCHANGED <<ring, content, pos, adrift>>

-----------------------------------------------------------------------------
\* a turn of a poll; Phase and Return end it
On(c, p) == doing[1] = c /\ doing[2] = p
Phase(p) == doing' = [doing EXCEPT ![2] = p] /\ UNCHANGED said
Return(r) == doing' = Quiet /\ said' = r
TheFile  == <<content, pos>>
TheUser  == <<want, upos, writes>>

\* call c begins with phase p
CallWith(c, p, n) ==
    /\ doing = Quiet /\ ~shut /\ doing' = <<c, p, n>> /\ said' = ""
    /\ UNCHANGED <<st, task, alive, ring, target, TheFile, read_pos, is_dirty, TheUser, adrift, shut>>
Call(c, p) == CallWith(c, p, 0)

\* poll_stop in the phases that call it: the end of the pipe is dropped, and the
\* task awaited; its error ends the poll, and read_pos keeps it for poll_read
Stops ==
    CASE doing[2] = "flush" -> {"read", "write", "seek"}
      [] doing[2] \in {"here", "to"} \/ (doing[2] = "reposition" /\ read_pos >= 0) -> {"read", "write"}
      [] doing[2] = "read" -> {"write", "seek"} \cup (IF alive THEN {} ELSE {"read"})
      [] doing[2] = "write" -> {"read", "seek"} \cup (IF alive THEN {} ELSE {"write"})
      [] OTHER -> {}
StopDrop ==
    /\ st \in Stops /\ alive
    /\ alive' = FALSE
    /\ UNCHANGED <<st, task, ring, target, TheFile, read_pos, is_dirty, doing, said, TheUser, adrift, shut>>
StopPending ==
    /\ ~alive /\ Busy /\ (st \in Stops \/ (st = "seek" /\ Stops = {"read", "write"}))
    /\ Return("pending") /\ UNCHANGED <<st, task, alive, ring, target, TheFile, read_pos, is_dirty, TheUser, adrift, shut>>
StopDone ==
    /\ st \in Stops /\ ~alive /\ ~Busy
    /\ st' = "idle" /\ ring' = <<>> /\ task' = "done"
    /\ IF task = "done" THEN UNCHANGED <<doing, said, read_pos>>
       ELSE IF On("read", "here") THEN Phase("read") /\ read_pos' = Unknown
       ELSE Return("err") /\ UNCHANGED read_pos
    /\ adrift' = (adrift \/ task = "failed")
    /\ target' = 0 /\ UNCHANGED <<alive, TheFile, is_dirty, TheUser, shut>>

\* a task is started from idle
Start(s, withPipe) ==
    /\ st = "idle" /\ st' = s /\ task' = "run" /\ alive' = withPipe /\ ring' = <<>>
    /\ adrift' = (adrift \/ (s = "read" /\ read_pos >= 0 /\ read_pos # pos))
    /\ UNCHANGED <<TheFile, read_pos, is_dirty, doing, said, shut>>

\* poll_seek of Unblock: the seek is started, or the task's own has another target
\* or is the one; r is then what the phase comes to
Seeking(to, u) == Start("seek", FALSE) /\ target' = to /\ upos' = u /\ UNCHANGED <<want, writes>>
Sought ==
    /\ st = "seek" /\ task = "done" /\ st' = "idle" /\ target' = 0
    /\ UNCHANGED <<task, alive, ring, TheFile, TheUser, adrift, shut>>
OtherSought(to) == Sought /\ target # to /\ UNCHANGED <<doing, said, read_pos, is_dirty>>

\* mutant: the position is not sought again
RepositionSkipped(next) ==
    /\ doing[2] = "reposition" /\ read_pos' = Nowhere /\ Phase(next)
    /\ UNCHANGED <<st, task, alive, ring, target, TheFile, is_dirty, TheUser, adrift, shut>>
\* poll_reposition, and the phase that comes after it
Reposition(next) ==
    /\ doing[2] = "reposition"
    /\ \/ /\ read_pos < 0 /\ read_pos' = Nowhere /\ Phase(next)
          /\ UNCHANGED <<st, task, alive, ring, target, TheFile, is_dirty, TheUser, adrift, shut>>
       \/ read_pos >= 0 /\ Seeking(read_pos, upos)
       \/ read_pos >= 0 /\ OtherSought(read_pos)
       \/ /\ read_pos >= 0 /\ Sought /\ target = read_pos
          /\ read_pos' = Nowhere /\ Phase(next) /\ UNCHANGED is_dirty

PollSeek ==
    LET to == doing[3] IN
    \/ \E n \in 0 .. Len(want) : CallWith("seek", "reposition", n)
    \/ doing[1] = "seek" /\ Reposition("to")
    \/ On("seek", "to") /\ (Seeking(to, to) \/ OtherSought(to))
    \/ On("seek", "to") /\ Sought /\ target = to /\ Return("sought") /\ UNCHANGED <<read_pos, is_dirty>>

\* poll_read asks for the position, once, then reads from the pipe and counts
PollRead ==
    \/ Call("read", IF read_pos = Nowhere THEN "here" ELSE "read")
    \/ On("read", "here") /\ (Seeking(Here, upos) \/ OtherSought(Here))
    \/ On("read", "here") /\ Sought /\ target = Here /\ read_pos' = pos /\ Phase("read") /\ UNCHANGED is_dirty
    \/ On("read", "read") /\ Start("read", TRUE) /\ UNCHANGED <<target, TheUser>>
Reading == On("read", "read") /\ st = "read" /\ alive
ReadSome ==
    /\ Reading /\ \E k \in 1 .. Len(ring) :
          /\ ring' = SubSeq(ring, k + 1, Len(ring)) /\ upos' = upos + k
          /\ read_pos' = (IF read_pos >= 0 THEN read_pos + k ELSE read_pos)
          /\ Return(IF SubSeq(ring, 1, k) = From(want, upos, k) THEN "read" ELSE "misread")
    /\ UNCHANGED <<st, task, alive, target, TheFile, is_dirty, want, writes, adrift, shut>>
\* an empty pipe, and the load of closed after that look
ReadLook ==
    /\ Reading /\ ring = <<>> /\ Phase("look")
    /\ UNCHANGED <<st, task, alive, ring, target, TheFile, read_pos, is_dirty, TheUser, adrift, shut>>
ReadClosed ==
    /\ On("read", "look")
    /\ IF Busy THEN Return("pending") /\ UNCHANGED <<st, task, alive, ring, adrift>>
       ELSE /\ st' = "idle" /\ alive' = FALSE /\ task' = "done" /\ ring' = <<>>
            /\ adrift' = (ring # <<>> \/ task = "failed") /\ Return(IF task = "failed" THEN "err" ELSE "eof")
    /\ UNCHANGED <<target, TheFile, read_pos, is_dirty, TheUser, shut>>

\* poll_write: a pipe that is closed, by an error, takes no bytes
PollWrite ==
    \/ Call("write", "reposition")
    \/ doing[1] = "write" /\ Reposition("mark")
    \/ /\ On("write", "mark") /\ is_dirty' = TRUE /\ Phase("write")
       /\ UNCHANGED <<st, task, alive, ring, target, TheFile, read_pos, TheUser, adrift, shut>>
    \/ On("write", "write") /\ Start("write", TRUE) /\ UNCHANGED <<target, TheUser>>
Filling == On("write", "write") /\ st = "write" /\ alive
WriteSome ==
    /\ Filling /\ task # "failed"
    /\ \E k \in 1 .. Least(Ahead - Len(ring), MaxCalls - writes) :
          LET s == [i \in 1 .. k |-> 10 + writes + i] IN
          /\ upos + k <= MaxFile
          /\ ring' = ring \o s /\ want' = Over(want, upos, s) /\ upos' = upos + k /\ writes' = writes + k
    /\ Return("written") /\ UNCHANGED <<st, task, alive, target, TheFile, read_pos, is_dirty, adrift, shut>>
WriteNone ==
    /\ Filling /\ Return(IF task = "failed" THEN "none" ELSE "pending")
    /\ task # "failed" => Len(ring) = Ahead \/ writes = MaxCalls
    /\ UNCHANGED <<st, task, alive, ring, target, TheFile, read_pos, is_dirty, TheUser, adrift, shut>>

\* poll_flush, poll_close, and sync_all, sync_data and set_len, which flush whatever is_dirty says
PollFlush ==
    \/ Call("flush", IF is_dirty THEN "flush" ELSE "clean")
    \/ Call("close", "flush") \/ Call("sync", "flush")
    \/ \E n \in upos .. MaxFile : CallWith("set_len", "flush", n)
Flushed ==
    /\ \/ doing[2] = "clean" /\ UNCHANGED <<content, want, is_dirty, shut>>
       \/ /\ doing[2] = "flush" /\ st = "idle"
          /\ is_dirty' = (doing[1] # "flush" /\ is_dirty) /\ shut' = (doing[1] = "close")
          /\ IF doing[1] = "set_len" THEN content' = Cut(content, doing[3]) /\ want' = Cut(want, doing[3])
             ELSE UNCHANGED <<content, want>>
    /\ Return("flushed")
    /\ UNCHANGED <<st, task, alive, ring, target, pos, read_pos, upos, writes, adrift>>

FiStep ==
    \/ TaskSeek \/ TaskRead \/ TaskWrite \/ TaskLook \/ TaskClosed \/ TaskFails
    \/ StopDrop \/ StopPending \/ StopDone
    \/ PollRead \/ ReadSome \/ ReadLook \/ ReadClosed
    \/ PollWrite \/ WriteSome \/ WriteNone \/ PollSeek \/ PollFlush \/ Flushed
FiNext == ~adrift /\ FiStep

-----------------------------------------------------------------------------
\* The user of a File sees one file with one position, though the task reads
\* ahead, writes behind and moves the position under it, and polls are left
\* Pending or given up anywhere: a read returns the bytes at the user's
\* position and ends only at the end, what is still in the pipe is what the
\* file lacks, and nothing is missing once a flush, sync or close has returned.
FileSequential ==
    ~adrift =>
       /\ said # "misread" /\ (said = "eof" => upos >= Len(want))
       /\ IF st = "write" THEN Over(content, pos, ring) = want /\ pos + Len(ring) = upos ELSE content = want
       /\ said = "flushed" => content = want
=============================================================================
