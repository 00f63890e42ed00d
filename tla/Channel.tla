------------------------------- MODULE Channel -------------------------------
(***************************************************************************)
(* platform/channel/channel.rs: the multi-producer multi-consumer channel, *)
(* a ConcurrentQueue and three Events.  The queue is what Fifo promises    *)
(* (only its length matters here) and the events are EventList's.  Every   *)
(* handle is used by one task at a time; a task that awaits is resumed     *)
(* once its listener is notified, or its future is dropped.                *)
(***************************************************************************)
EXTENDS EventList

CONSTANTS
    Senders, Receivers,  \* the handles there may be
    Cap,                 \* the capacity, or 0 when there is none
    MaxSend              \* bound on the messages sent

ASSUME ChannelAssumption ==
    /\ Cap \in Nat /\ MaxSend \in Nat /\ Senders \cap Receivers = {}
    /\ IsFiniteSet(Senders) /\ IsFiniteSet(Receivers)

VARIABLES
    len, closed,                     \* queue
    send_ops, recv_ops, stream_ops,
    count,                           \* sender_count and receiver_count
    task_pc,                         \* where each handle's task is
    op,                              \* the call it is in
    sent

queue  == <<len, closed>>
events == <<send_ops, recv_ops, stream_ops>>
channelVars == <<len, closed, send_ops, recv_ops, stream_ops, count, task_pc, op, sent>>

-----------------------------------------------------------------------------
Handles == Senders \cup Receivers
Side(h) == IF h \in Senders THEN "s" ELSE "r"
Peers(h) == IF h \in Senders THEN Senders ELSE Receivers

All == Cardinality(Handles)   \* as many as usize::MAX notifies here

\* the event the task listens to, or would
Listens(h) ==
    IF h \in Senders THEN Listening(send_ops, h)
    ELSE IF op[h] = "recv" THEN Listening(recv_ops, h) ELSE Listening(stream_ops, h)
IsAwoken(h) ==
    IF h \in Senders THEN IsNotified(send_ops, h)
    ELSE IF op[h] = "recv" THEN IsNotified(recv_ops, h) ELSE IsNotified(stream_ops, h)

\* the listener of the task: A(event, h) is done to the event it is in
OnMyEvent(h, A(_, _)) ==
    IF h \in Senders
    THEN send_ops' = A(send_ops, h) /\ UNCHANGED <<recv_ops, stream_ops>>
    ELSE IF op[h] = "recv"
    THEN recv_ops' = A(recv_ops, h) /\ UNCHANGED <<send_ops, stream_ops>>
    ELSE stream_ops' = A(stream_ops, h) /\ UNCHANGED <<send_ops, recv_ops>>

IsFull == Cap # 0 /\ len = Cap
\* what SingleQueue allows: a push that meets a pop on its way out
SeemsFull == Cap = 1 /\ \E r \in Receivers : task_pc[r] = "unlock"

TaskGoto(h, l) == task_pc' = [task_pc EXCEPT ![h] = l]

ChannelInit ==
    /\ len = 0 /\ closed = FALSE /\ sent = 0
    /\ send_ops = NoListeners /\ recv_ops = NoListeners /\ stream_ops = NoListeners
    /\ count = [s |-> 1, r |-> 1]
    /\ op = [h \in Handles |-> "none"]
    /\ \E s \in Senders, r \in Receivers :
          task_pc = [h \in Handles |-> IF h \in {s, r} THEN "idle" ELSE "unborn"]

\* the task calls o on its handle and goes on at l
Calls(h, o, l) ==
    /\ task_pc[h] = "idle"
    /\ op' = [op EXCEPT ![h] = o] /\ TaskGoto(h, l)

(***************************************************************************)
(* Sender                                                                  *)
(***************************************************************************)
Send(s) ==
    /\ sent < MaxSend /\ sent' = sent + 1
    /\ \E o \in {"send", "try_send"} : Calls(s, o, "push")
    /\ UNCHANGED <<queue, events, count>>

\* a send that finds the queue full listens, tries once more and then waits
Push(s) ==
    /\ task_pc[s] = "push"
    /\ \/ /\ closed
          /\ TaskGoto(s, "end") /\ UNCHANGED len
       \/ /\ ~closed /\ (IsFull \/ SeemsFull)
          /\ TaskGoto(s, IF op[s] = "try_send" THEN "end"
                     ELSE IF Listens(s) THEN "await" ELSE "listen")
          /\ UNCHANGED len
       \/ /\ ~closed /\ ~IsFull /\ ~SeemsFull
          /\ len' = len + 1
          /\ TaskGoto(s, "notifyrecv")
    /\ UNCHANGED <<closed, events, count, op, sent>>

NotifyRecv(s) ==
    /\ task_pc[s] = "notifyrecv"
    /\ recv_ops' = Notify(recv_ops, 1)
    /\ TaskGoto(s, "notifystream")
    /\ UNCHANGED <<queue, send_ops, stream_ops, count, op, sent>>

NotifyStream(s) ==
    /\ task_pc[s] = "notifystream"
    /\ stream_ops' = Notify(stream_ops, All)
    /\ TaskGoto(s, IF op[s] = "send" /\ Cap # 1 THEN "notifynext" ELSE "end")
    /\ UNCHANGED <<queue, send_ops, recv_ops, count, op, sent>>

\* there may be room for another sender
NotifyNextSend(s) ==
    /\ s \in Senders /\ task_pc[s] = "notifynext"
    /\ send_ops' = Notify(send_ops, 1)
    /\ TaskGoto(s, "end")
    /\ UNCHANGED <<queue, recv_ops, stream_ops, count, op, sent>>

(***************************************************************************)
(* Receiver.  poll_next keeps its listener in the handle between polls.    *)
(***************************************************************************)
Recv(r) ==
    /\ \/ Calls(r, "recv", "pop")
       \/ Calls(r, "try_recv", "pop")
       \/ Calls(r, "stream", IF Listening(stream_ops, r) THEN "await" ELSE "pop")
    /\ UNCHANGED <<queue, events, count, sent>>

Pop(r) ==
    /\ task_pc[r] = "pop"
    /\ \/ /\ len > 0
          /\ len' = len - 1
          /\ TaskGoto(r, IF Cap = 1 THEN "unlock" ELSE "popped")
       \/ /\ len = 0 /\ closed
          /\ TaskGoto(r, "end") /\ UNCHANGED len
       \/ /\ len = 0 /\ ~closed
          /\ TaskGoto(r, IF op[r] = "try_recv" THEN "end"
                     ELSE IF Listens(r) THEN "await" ELSE "listen")
          /\ UNCHANGED len
    /\ UNCHANGED <<closed, events, count, op, sent>>

\* the pop of a queue of capacity one lets the next push in
UnlockSlot(r) ==
    /\ task_pc[r] = "unlock"
    /\ TaskGoto(r, "popped")
    /\ UNCHANGED <<queue, events, count, op, sent>>

\* one sender is told of the room
NotifySend(r) ==
    /\ task_pc[r] = "popped"
    /\ send_ops' = Notify(send_ops, 1)
    /\ TaskGoto(r, IF op[r] = "recv" /\ Cap # 1 THEN "notifynext" ELSE "end")
    /\ UNCHANGED <<queue, recv_ops, stream_ops, count, op, sent>>

\* mutant: the receiver that was told does not tell the next one
NotifyNoRecv(r) ==
    /\ r \in Receivers /\ task_pc[r] = "notifynext"
    /\ TaskGoto(r, "end")
    /\ UNCHANGED <<queue, events, count, op, sent>>

\* there may be another message
NotifyNextRecv(r) ==
    /\ r \in Receivers /\ task_pc[r] = "notifynext"
    /\ recv_ops' = Notify(recv_ops, 1)
    /\ TaskGoto(r, "end")
    /\ UNCHANGED <<queue, send_ops, stream_ops, count, op, sent>>

(***************************************************************************)
(* Waiting, on either side                                                 *)
(***************************************************************************)
ListenFor(h) ==
    /\ task_pc[h] = "listen"
    /\ OnMyEvent(h, Listen)
    /\ TaskGoto(h, IF h \in Senders THEN "push" ELSE "pop")
    /\ UNCHANGED <<queue, count, op, sent>>

Await(h) ==
    /\ task_pc[h] = "await" /\ IsAwoken(h)
    /\ OnMyEvent(h, Consume)
    /\ TaskGoto(h, IF h \in Senders THEN "push" ELSE "pop")
    /\ UNCHANGED <<queue, count, op, sent>>

\* the future is dropped while it waits, and its listener unless it is the
\* handle's; the task may go on with the handle
Cancel(h) ==
    /\ task_pc[h] = "await"
    /\ IF op[h] = "stream" THEN UNCHANGED events ELSE OnMyEvent(h, DropListener)
    /\ TaskGoto(h, "idle") /\ op' = [op EXCEPT ![h] = "none"]
    /\ UNCHANGED <<queue, count, sent>>

\* the call returns: a listener it still has is dropped
End(h) ==
    /\ task_pc[h] = "end"
    /\ IF op[h] # "try_recv" /\ Listens(h) THEN OnMyEvent(h, DropListener)
       ELSE UNCHANGED events
    /\ TaskGoto(h, IF op[h] = "drop" THEN "gone" ELSE "idle")
    /\ op' = [op EXCEPT ![h] = "none"]
    /\ UNCHANGED <<queue, count, sent>>

(***************************************************************************)
(* Handles and close                                                       *)
(***************************************************************************)
Clone(h, g) ==
    /\ task_pc[h] = "idle" /\ g \in Peers(h) /\ task_pc[g] = "unborn"
    /\ TaskGoto(g, "idle")
    /\ count' = [count EXCEPT ![Side(h)] = @ + 1]
    /\ UNCHANGED <<queue, events, op, sent>>

CallClose(h) == Calls(h, "close", "close") /\ UNCHANGED <<queue, events, count, sent>>

\* the last handle of a side closes the channel
DropHandle(h) ==
    /\ Calls(h, "drop", IF count[Side(h)] = 1 THEN "close" ELSE "end")
    /\ count' = [count EXCEPT ![Side(h)] = @ - 1]
    /\ UNCHANGED <<queue, events, sent>>

Close(h) ==
    /\ task_pc[h] = "close"
    /\ closed' = TRUE
    /\ TaskGoto(h, IF closed THEN "closed" ELSE "closesend")
    /\ UNCHANGED <<len, events, count, op, sent>>

\* mutant: one sender is told of the end, and tells no other
CloseSendOne(h) ==
    /\ task_pc[h] = "closesend"
    /\ send_ops' = Notify(send_ops, 1)
    /\ TaskGoto(h, "closerecv")
    /\ UNCHANGED <<queue, recv_ops, stream_ops, count, op, sent>>

CloseSend(h) ==
    /\ task_pc[h] = "closesend"
    /\ send_ops' = Notify(send_ops, All)
    /\ TaskGoto(h, "closerecv")
    /\ UNCHANGED <<queue, recv_ops, stream_ops, count, op, sent>>

CloseRecv(h) ==
    /\ task_pc[h] = "closerecv"
    /\ recv_ops' = Notify(recv_ops, All)
    /\ TaskGoto(h, "closestream")
    /\ UNCHANGED <<queue, send_ops, stream_ops, count, op, sent>>

CloseStream(h) ==
    /\ task_pc[h] = "closestream"
    /\ stream_ops' = Notify(stream_ops, All)
    /\ TaskGoto(h, "closed")
    /\ UNCHANGED <<queue, send_ops, recv_ops, count, op, sent>>

\* the handle's own listener goes with it, and stays otherwise
Closed(h) ==
    /\ task_pc[h] = "closed"
    /\ TaskGoto(h, IF op[h] = "drop" THEN "end" ELSE "idle")
    /\ op' = IF op[h] = "drop" THEN op ELSE [op EXCEPT ![h] = "none"]
    /\ UNCHANGED <<queue, events, count, sent>>

-----------------------------------------------------------------------------
\* what a call that has begun, or a task that was woken, does next
Step(h) ==
    \/ ListenFor(h) \/ Await(h) \/ End(h)
    \/ Close(h) \/ CloseSend(h) \/ CloseRecv(h) \/ CloseStream(h) \/ Closed(h)
    \/ Push(h) \/ NotifyRecv(h) \/ NotifyStream(h) \/ NotifyNextSend(h)
    \/ Pop(h) \/ UnlockSlot(h) \/ NotifySend(h) \/ NotifyNextRecv(h)

Starts(h) ==
    \/ h \in Senders /\ Send(h)
    \/ h \in Receivers /\ Recv(h)
    \/ CallClose(h) \/ DropHandle(h) \/ \E g \in Handles : Clone(h, g)

ChannelNext == \E h \in Handles : Starts(h) \/ Cancel(h) \/ Step(h)

ChannelSpec == ChannelInit /\ [][ChannelNext]_channelVars

\* A call is not left in the middle: its thread goes on, and a task whose
\* listener was notified is polled again.
LiveSpec == ChannelSpec /\ \A h \in Handles : WF_channelVars(Step(h))

-----------------------------------------------------------------------------
Ready(h) == closed \/ IF h \in Senders THEN ~IsFull ELSE len > 0

Resting(h) == task_pc[h] \in {"unborn", "idle", "gone"} \/ (task_pc[h] = "await" /\ ~IsAwoken(h))

\* No wake-up is lost: when every task has returned or waits without having
\* been notified, no receiver waits beside a message, no sender beside room
\* and nobody on a closed channel, whatever was cancelled, closed, cloned or
\* dropped, and whether they wait in recv, in the stream or in send.
NobodyStuck ==
    (\A h \in Handles : Resting(h)) => \A h \in Handles : task_pc[h] = "await" => ~Ready(h)

\* Whoever waits for a message, for room or for the end of the channel gets
\* to try again when it is there, even while other tasks never rest.
WaiterServed ==
    \A h \in Handles : (task_pc[h] = "await" /\ Ready(h)) ~> (task_pc[h] # "await" \/ ~Ready(h))
=============================================================================
