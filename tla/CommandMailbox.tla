---------------------------- MODULE CommandMailbox ----------------------------
(***************************************************************************)
(* The hand-over of downlink commands from the esp-mqtt task to            *)
(* process_task: one topic buffer, one message buffer, one length and one  *)
(* event bit, written by mqtt_event_handler and read, wiped and released   *)
(* by process_task, with no lock and no queue.                             *)
(*                                                                         *)
(* The two tasks may run on different cores, so each access to a shared    *)
(* object is a step.  A message is two halves: the head holds the header   *)
(* and the command code, the tail the end of the data of a long command;   *)
(* a short command has no tail.  That is enough to tell an intact frame    *)
(* from one put together from two messages.                                *)
(***************************************************************************)
EXTENDS Integers

CONSTANTS
    Commands,   \* one value for each delivery of a command by the broker
    Long,       \* the commands whose frame has a tail
    NoCommand   \* the content of a wiped buffer

ASSUME LongAssumption      == Long \subseteq Commands
ASSUME NoCommandAssumption == NoCommand \notin Commands

VARIABLES
    topicSet,     \* res_topic holds ".../set"; FALSE once it is wiped
    head, tail,   \* res_message
    msgLen,       \* msg_len, in halves
    eventBit,     \* EVENT_DATA_BIT of mqtt_event_data
    hpc, incoming,         \* handler: control point, the event's message
    ppc, frameHead, frameTail,   \* process_task: control point, frame_hex
    delivered,    \* history: commands handed to mqtt_event_handler
    runs,         \* history: how often each command was carried out
    torn,         \* history: commands carried out with another command's tail
    disturbed     \* history: commands that shared the mailbox, or met a reset

mailVars    == <<topicSet, head, tail, msgLen, eventBit>>
handlerVars == <<hpc, incoming>>
processVars == <<ppc, frameHead, frameTail>>
historyVars == <<delivered, runs, torn, disturbed>>
vars == <<mailVars, handlerVars, processVars, historyVars>>

Init ==
    /\ topicSet = FALSE
    /\ head = NoCommand
    /\ tail = NoCommand
    /\ msgLen = 0
    /\ eventBit = FALSE
    /\ hpc = "idle"
    /\ incoming = NoCommand
    /\ ppc = "poll"
    /\ frameHead = NoCommand
    /\ frameTail = NoCommand
    /\ delivered = {}
    /\ runs = [c \in Commands |-> 0]
    /\ torn = {}
    /\ disturbed = {}

Halves(c) == IF c \in Long THEN 2 ELSE 1

\* The previous command is still in the mailbox or being processed.
Occupied == eventBit \/ ppc # "poll"

\* The commands that are in the buffers or in process_task's frame.
Holding == {head, tail, frameHead, frameTail} \ {NoCommand}

-----------------------------------------------------------------------------
(* mqtt_event_handler, case MQTT_EVENT_DATA, in the esp-mqtt task          *)

\* The client dispatches the event of a received message.
Receive(c) ==
    /\ hpc = "idle"
    /\ c \notin delivered
    /\ hpc' = "topic"
    /\ incoming' = c
    /\ delivered' = delivered \union {c}
    /\ disturbed' = IF Occupied THEN disturbed \union Holding \union {c} ELSE disturbed
    /\ UNCHANGED <<mailVars, processVars, runs, torn>>

\* Mutant of StoreTopic: the event bit is set before the message is copied.
StoreTopicEarlySignal ==
    /\ hpc = "topic"
    /\ topicSet' = TRUE
    /\ eventBit' = TRUE
    /\ hpc' = "head"
    /\ UNCHANGED <<head, tail, msgLen, incoming, processVars, historyVars>>

\* sprintf(res_topic, ...)
StoreTopic ==
    /\ hpc = "topic"
    /\ topicSet' = TRUE
    /\ hpc' = "head"
    /\ UNCHANGED <<head, tail, msgLen, eventBit, incoming, processVars, historyVars>>

\* memcpy(res_message, event->data, event->data_len), first half
StoreHead ==
    /\ hpc = "head"
    /\ head' = incoming
    /\ hpc' = IF incoming \in Long THEN "tail" ELSE "len"
    /\ UNCHANGED <<topicSet, tail, msgLen, eventBit, incoming, processVars, historyVars>>

\* memcpy, second half
StoreTail ==
    /\ hpc = "tail"
    /\ tail' = incoming
    /\ hpc' = "len"
    /\ UNCHANGED <<topicSet, head, msgLen, eventBit, incoming, processVars, historyVars>>

\* event->data_len
StoredLenOne  == 1                      \* mutant: the length of a short frame
StoredLenPlus == Halves(incoming) + 1   \* mutant: counts a terminator
StoredLen == Halves(incoming)

\* msg_len = event->data_len
StoreLen ==
    /\ hpc = "len"
    /\ msgLen' = StoredLen
    /\ hpc' = "signal"
    /\ UNCHANGED <<topicSet, head, tail, eventBit, incoming, processVars, historyVars>>

\* The state of the bit after xEventGroupSetBits
BitKept == eventBit        \* mutant: the bit is not set
BitSet  == TRUE

\* xEventGroupSetBits(mqtt_event_data, ...)
Signal ==
    /\ hpc = "signal"
    /\ eventBit' = BitSet
    /\ hpc' = "idle"
    /\ incoming' = NoCommand
    /\ UNCHANGED <<topicSet, head, tail, msgLen, processVars, historyVars>>

HandlerStep == StoreTopic \/ StoreHead \/ StoreTail \/ StoreLen \/ Signal

-----------------------------------------------------------------------------
(* process_task and mqtt_subscribed_process                                *)

\* if (app_mqtt_event_data())
SeeEvent ==
    /\ ppc = "poll"
    /\ eventBit
    /\ ppc' = "copyHead"
    /\ UNCHANGED <<mailVars, handlerVars, frameHead, frameTail, historyVars>>

\* for (j = 0; j < msg_len; j++) frame_hex[j] = sub_msg[j], first half
CopyHead ==
    /\ ppc = "copyHead"
    /\ frameHead' = IF msgLen >= 1 THEN head ELSE frameHead
    /\ ppc' = "copyTail"
    /\ UNCHANGED <<mailVars, handlerVars, frameTail, historyVars>>

\* second half: the loop looks at msg_len again
CopyTail ==
    /\ ppc = "copyTail"
    /\ frameTail' = IF msgLen = 2 THEN tail ELSE frameTail
    /\ ppc' = "dispatch"
    /\ UNCHANGED <<mailVars, handlerVars, frameHead, historyVars>>

\* strstr(res_topic, "/set"), then mqtt_cmd_sw, mqtt_cmd_ip or
\* mqtt_cmd_frequence; a wiped frame has no command code and does nothing.
Dispatch ==
    /\ ppc = "dispatch"
    /\ IF topicSet /\ frameHead # NoCommand
         THEN /\ runs' = [runs EXCEPT ![frameHead] = @ + 1]
              /\ torn' = IF frameHead \in Long /\ frameTail # frameHead
                           THEN torn \union {frameHead} ELSE torn
         ELSE UNCHANGED <<runs, torn>>
    /\ ppc' = "wipeHead"
    /\ UNCHANGED <<mailVars, handlerVars, frameHead, frameTail, delivered, disturbed>>

\* memset(res_message, 0, 200)
WipedKept == head          \* mutant: the message buffer is not wiped
Wiped == NoCommand

WipeHead ==
    /\ ppc = "wipeHead"
    /\ head' = Wiped
    /\ ppc' = "wipeTail"
    /\ UNCHANGED <<topicSet, tail, msgLen, eventBit, handlerVars, frameHead, frameTail, historyVars>>

WipeTail ==
    /\ ppc = "wipeTail"
    /\ tail' = NoCommand
    /\ ppc' = "wipeTopic"
    /\ UNCHANGED <<topicSet, head, msgLen, eventBit, handlerVars, frameHead, frameTail, historyVars>>

\* memset(res_topic, 0, 76); memset(frame_hex, 0, 60)
WipeTopic ==
    /\ ppc = "wipeTopic"
    /\ topicSet' = FALSE
    /\ frameHead' = NoCommand
    /\ frameTail' = NoCommand
    /\ ppc' = "clear"
    /\ UNCHANGED <<head, tail, msgLen, eventBit, handlerVars, historyVars>>

\* xEventGroupClearBits(mqtt_event_data, EVENT_DATA_BIT)
ClearEvent ==
    /\ ppc = "clear"
    /\ eventBit' = FALSE
    /\ ppc' = "poll"
    /\ UNCHANGED <<topicSet, head, tail, msgLen, handlerVars, frameHead, frameTail, historyVars>>

ProcessStep ==
    \/ SeeEvent \/ CopyHead \/ CopyTail \/ Dispatch
    \/ WipeHead \/ WipeTail \/ WipeTopic \/ ClearEvent

\* Power loss or reset: every buffer is in RAM.
Reboot ==
    /\ topicSet' = FALSE
    /\ head' = NoCommand
    /\ tail' = NoCommand
    /\ msgLen' = 0
    /\ eventBit' = FALSE
    /\ hpc' = "idle"
    /\ incoming' = NoCommand
    /\ ppc' = "poll"
    /\ frameHead' = NoCommand
    /\ frameTail' = NoCommand
    /\ disturbed' = disturbed \union delivered
    /\ UNCHANGED <<delivered, runs, torn>>

Uninterrupted == (\E c \in Commands : Receive(c)) \/ HandlerStep \/ ProcessStep

Next == Uninterrupted \/ Reboot

\* A dispatched event runs to its end, and process_task polls for ever.
Fairness == WF_vars(HandlerStep) /\ WF_vars(ProcessStep)

Spec     == Init /\ [][Next]_vars
FairSpec == Spec /\ Fairness

\* The device that is never reset.
NoResetSpec == Init /\ [][Uninterrupted]_vars /\ Fairness

-----------------------------------------------------------------------------
(* Properties                                                              *)

\* Type invariant of the mailbox and of its two users (mqtt_event_handler,
\* process_task).
TypeOK ==
    /\ topicSet \in BOOLEAN
    /\ {head, tail, incoming, frameHead, frameTail} \subseteq Commands \union {NoCommand}
    /\ tail \in Long \union {NoCommand}
    /\ msgLen \in 0 .. 2
    /\ eventBit \in BOOLEAN
    /\ hpc \in {"idle", "topic", "head", "tail", "len", "signal"}
    /\ ppc \in {"poll", "copyHead", "copyTail", "dispatch", "wipeHead", "wipeTail", "wipeTopic", "clear"}
    /\ delivered \subseteq Commands
    /\ runs \in [Commands -> Nat]
    /\ torn \subseteq Commands
    /\ disturbed \subseteq Commands

\* However the two tasks interleave, no delivery is carried out twice: a
\* command that process_task picks up early, on the event bit of the previous
\* one, is wiped before its own event bit is seen.
AtMostOnce == \A c \in Commands : runs[c] <= 1

\* A command is carried out with another command's data only if the two have
\* been in the mailbox at the same time.
TornOnlyIfDisturbed == torn \subseteq disturbed

\* A command still on its way: in the handler, in the mailbox, or in the frame.
Pending(c) == incoming = c \/ (Occupied /\ c \in Holding)

\* A command that had the mailbox for itself is never dropped: it is on its
\* way or it has been carried out, exactly once.
UndisturbedKept ==
    \A c \in delivered \ disturbed : runs[c] = 1 \/ (runs[c] = 0 /\ Pending(c))

\* A command that has the mailbox for itself is carried out in the end.
UndisturbedRuns ==
    \A c \in Commands : (c \in delivered) ~> (runs[c] = 1 \/ c \in disturbed)

\* QoS 1 taken at its word: a delivered command is carried out at least once.
AtLeastOnce == \A c \in Commands : (c \in delivered) ~> (runs[c] >= 1)
=============================================================================
