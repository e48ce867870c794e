------------------------------ MODULE ChatPush ------------------------------
(***************************************************************************)
(* The push notification of a chat message (realtime/messagePushQueue.ts,  *)
(* sendMessage and markRead of Messages.service.ts, message:delivered of   *)
(* realtime/socket.ts).                                                    *)
(*                                                                         *)
(* A message to a member who is online is pushed only when no device       *)
(* confirms it within a grace period.  The timer lives in the process that *)
(* sent it; the confirmation may come to another one and removes a key in  *)
(* Redis, which the timer looks for.  Without Redis there is one process.  *)
(***************************************************************************)
CONSTANT ChatMessages

VARIABLES note,             \* the push of each message
          row,              \* rows of messages: delivered, read
          ack,              \* message:delivered, by message
          redis,            \* whether REDIS_URL is configured
          pushed,           \* history: messages pushed
          confirmed,        \* history: messages whose push was cancelled
          calledOff,        \* history: ... while the timer ran
          forgotten         \* history: the key was not written, not read, or expired; or the
                            \* process died

chatVars == <<note, row, ack, redis, pushed, confirmed, calledOff, forgotten>>
chatHistory == <<pushed, confirmed, calledOff, forgotten>>

ChatInit ==
    /\ note = [m \in ChatMessages |-> [pc |-> "none", key |-> FALSE, armed |-> FALSE]]
    /\ row = [m \in ChatMessages |-> [delivered |-> FALSE, read |-> FALSE]]
    /\ ack = [m \in ChatMessages |-> "none"]
    /\ redis \in BOOLEAN
    /\ pushed = {} /\ confirmed = {} /\ calledOff = {} /\ forgotten = {}

NoteGoes(m, pc) == note' = [note EXCEPT ![m].pc = pc]
Forget(m, yes) == forgotten' = IF yes THEN forgotten \cup {m} ELSE forgotten

-----------------------------------------------------------------------------
\* sendMessage: the row, the event, then scheduleMessagePush, which nobody awaits.
SendMessage(m) ==
    /\ note[m].pc = "none"
    /\ NoteGoes(m, "clear")
    /\ UNCHANGED <<row, ack, redis, chatHistory>>

ClearKey(m) ==
    /\ note[m].pc = "clear"
    /\ note' = [note EXCEPT ![m].pc = "ask", ![m].key = FALSE]
    /\ UNCHANGED <<row, ack, redis, chatHistory>>

\* Offline, or too many timers already: now.
AskOnline(m) ==
    /\ note[m].pc = "ask"
    /\ NoteGoes(m, "mark") \/ NoteGoes(m, "send")
    /\ UNCHANGED <<row, ack, redis, chatHistory>>

\* markPendingInRedis, whose errors are swallowed, and the timer.
HoldPush(m) ==
    /\ note[m].pc = "mark"
    /\ \E marked \in BOOLEAN :
          /\ marked => redis
          /\ note' = [note EXCEPT ![m] = [pc |-> "held", key |-> marked, armed |-> TRUE]]
          /\ Forget(m, redis /\ ~marked)
    /\ UNCHANGED <<row, ack, redis, pushed, confirmed, calledOff>>

\* The key lives 2 s longer than the grace period: too short for a timer that is late.
KeyExpires(m) ==
    /\ note[m].key /\ note[m].pc \in {"held", "fired"}
    /\ note' = [note EXCEPT ![m].key = FALSE]
    /\ Forget(m, TRUE)
    /\ UNCHANGED <<row, ack, redis, pushed, confirmed, calledOff>>

\* The timer leaves the map of pending pushes before it looks.
TimerFires(m) ==
    /\ note[m].pc = "held" /\ note[m].armed
    /\ note' = [note EXCEPT ![m].pc = "fired", ![m].armed = FALSE]
    /\ UNCHANGED <<row, ack, redis, chatHistory>>

\* Faulty variant: the timer does not look.
StillPendingAssumed(m) == TRUE

\* stillPendingInRedis
StillPending(m) == IF redis THEN note[m].key ELSE note[m].armed

TimerLooks(m) ==
    /\ note[m].pc = "fired"
    /\ \/ /\ StillPending(m)
          /\ note' = [note EXCEPT ![m].pc = "send", ![m].key = FALSE]
          /\ UNCHANGED forgotten
       \/ /\ ~StillPending(m)
          /\ NoteGoes(m, "over")
          /\ UNCHANGED forgotten
       \/ /\ redis              \* the command fails
          /\ NoteGoes(m, "over")
          /\ Forget(m, TRUE)
    /\ UNCHANGED <<row, ack, redis, pushed, confirmed, calledOff>>

Push(m) ==
    /\ note[m].pc = "send"
    /\ NoteGoes(m, "over")
    /\ pushed' = pushed \cup {m}
    /\ UNCHANGED <<row, ack, redis, confirmed, calledOff, forgotten>>

\* The sender's process ends, with its timers.
SenderDies(m) ==
    /\ note[m].pc \notin {"none", "over"}
    /\ note' = [note EXCEPT ![m].pc = "over", ![m].armed = FALSE]
    /\ Forget(m, TRUE)
    /\ UNCHANGED <<row, ack, redis, pushed, confirmed, calledOff>>

-----------------------------------------------------------------------------
(***************************************************************************)
(* The recipient                                                           *)
(***************************************************************************)
\* message:delivered reads the row, ...
AckReads(m) ==
    /\ note[m].pc # "none" /\ ack[m] = "none"
    /\ ack' = [ack EXCEPT ![m] = "cancel"]
    /\ UNCHANGED <<note, row, redis, chatHistory>>

\* ... cancels the push, in the sender's process or in another one, ...
AckCancels(m) ==
    /\ ack[m] = "cancel"
    /\ \E near, removed \in BOOLEAN :      \* this process's timer; Redis may fail
          /\ ~redis => near /\ ~removed
          /\ note' = [note EXCEPT ![m].key = @ /\ ~removed,
                         ![m].armed = @ /\ ~near,
                         ![m].pc = IF @ = "held" /\ near THEN "over" ELSE @]
          /\ calledOff' = IF note[m].pc = "held" /\ (near \/ removed)
                          THEN calledOff \cup {m} ELSE calledOff
    /\ confirmed' = confirmed \cup {m}
    /\ ack' = [ack EXCEPT ![m] = "save"]
    /\ UNCHANGED <<row, redis, pushed, forgotten>>

\* ... and saves.
AckSaves(m) ==
    /\ ack[m] = "save"
    /\ row' = [row EXCEPT ![m].delivered = TRUE]
    /\ ack' = [ack EXCEPT ![m] = "none"]
    /\ UNCHANGED <<note, redis, chatHistory>>

AckDies(m) ==
    /\ ack[m] # "none"
    /\ ack' = [ack EXCEPT ![m] = "none"]
    /\ UNCHANGED <<note, row, redis, chatHistory>>

\* markRead; a push that is held stays.
MarkRead(m) ==
    /\ note[m].pc # "none"
    /\ row' = [row EXCEPT ![m] = [delivered |-> TRUE, read |-> TRUE]]
    /\ UNCHANGED <<note, ack, redis, chatHistory>>

ChatNext ==
    \E m \in ChatMessages :
        \/ SendMessage(m) \/ ClearKey(m) \/ AskOnline(m) \/ HoldPush(m) \/ KeyExpires(m)
        \/ TimerFires(m) \/ TimerLooks(m) \/ Push(m) \/ SenderDies(m)
        \/ AckReads(m) \/ AckCancels(m) \/ AckSaves(m) \/ AckDies(m) \/ MarkRead(m)

ChatSpec == ChatInit /\ [][ChatNext]_chatVars

-----------------------------------------------------------------------------
(***************************************************************************)
(* Properties                                                              *)
(***************************************************************************)
ChatTypeOK ==
    /\ \A m \in ChatMessages :
          /\ note[m].pc \in {"none", "clear", "ask", "mark", "held", "fired", "send", "over"}
          /\ row[m].read => row[m].delivered
          /\ ack[m] \in {"none", "cancel", "save"}
    /\ pushed \cup confirmed \cup calledOff \cup forgotten \subseteq ChatMessages

\* "the push is no longer needed" once a device has confirmed the message, "otherwise hold it until
\* the delivery grace period expires" (messagePushQueue.ts): with Redis, a confirmation to any
\* process stops a held push, and a push that is settled was sent or confirmed, unless Redis
\* failed, the timer was later than the key, or the process died.
PushSettled ==
    \A m \in ChatMessages :
        /\ m \notin calledOff \cap pushed
        /\ redis /\ note[m].pc = "over" => m \in pushed \cup confirmed \cup forgotten
=============================================================================
