------------------------- MODULE CommandMailboxProofs -------------------------
(***************************************************************************)
(* Proofs for every set of commands and every interleaving of the two      *)
(* tasks: no delivery is carried out twice, and a command that has the     *)
(* mailbox for itself is neither torn nor dropped.                         *)
(*                                                                         *)
(* A command is carried out from frame_hex, which is filled from           *)
(* res_message, which is written once per delivery.  So the invariant      *)
(* follows the one copy of its head: not yet written, in res_message, or   *)
(* in the frame; and a command that has run is only left in the buffers    *)
(* while process_task is on its way to wipe them.                          *)
(***************************************************************************)
EXTENDS CommandMailbox, TLAPS

HeadTypes ==
    /\ head \in delivered \union {NoCommand}
    /\ frameHead \in delivered \union {NoCommand}
    /\ incoming \in delivered \union {NoCommand}
    /\ hpc # "idle" => incoming \in delivered
    /\ delivered \subseteq Commands
    /\ runs \in [Commands -> Nat]

\* A command that was never received has not run.
Fresh == \A c \in Commands \ delivered : runs[c] = 0

\* Until the handler has written the head, the command is nowhere else.
Unwritten == hpc \in {"topic", "head"} =>
    runs[incoming] = 0 /\ head # incoming /\ frameHead # incoming

\* process_task's frame is empty outside a run of mqtt_subscribed_process, and
\* what it holds before the dispatch has not run.
FrameEmpty  == ppc \in {"poll", "copyHead", "clear"} => frameHead = NoCommand
FrameUnused == ppc \in {"copyTail", "dispatch"} /\ frameHead # NoCommand => runs[frameHead] = 0

\* A command that has run is in res_message only until the wipe that follows.
WipedAfterRun == head # NoCommand /\ runs[head] # 0 => ppc = "wipeHead" /\ head = frameHead

OnceInv ==
    /\ HeadTypes
    /\ AtMostOnce
    /\ Fresh
    /\ Unwritten
    /\ FrameEmpty
    /\ FrameUnused
    /\ WipedAfterRun

LEMMA InitOnce == Init => OnceInv
  BY NoCommandAssumption
  DEF Init, OnceInv, HeadTypes, AtMostOnce, Fresh, Unwritten, FrameEmpty, FrameUnused, WipedAfterRun

LEMMA StepOnce == OnceInv /\ [Next]_vars => OnceInv'
<1> SUFFICES ASSUME OnceInv, [Next]_vars PROVE OnceInv'
  OBVIOUS
<1> USE NoCommandAssumption
        DEF OnceInv, HeadTypes, AtMostOnce, Fresh, Unwritten, FrameEmpty, FrameUnused, WipedAfterRun
<1>1. ASSUME NEW c \in Commands, Receive(c) PROVE OnceInv'
  BY <1>1 DEF Receive, mailVars, processVars
<1>2. CASE StoreTopic
  BY <1>2 DEF StoreTopic, processVars, historyVars
<1>3. CASE StoreHead
  BY <1>3 DEF StoreHead, processVars, historyVars
<1>4. CASE StoreTail \/ StoreLen
  BY <1>4 DEF StoreTail, StoreLen, processVars, historyVars
<1>5. CASE Signal
  BY <1>5 DEF Signal, processVars, historyVars
<1>6. CASE SeeEvent
  BY <1>6 DEF SeeEvent, mailVars, handlerVars, historyVars
<1>7. CASE CopyHead
  BY <1>7 DEF CopyHead, mailVars, handlerVars, historyVars
<1>8. CASE CopyTail
  BY <1>8 DEF CopyTail, mailVars, handlerVars, historyVars
<1>9. CASE Dispatch
  <2>1. CASE topicSet /\ frameHead # NoCommand
    <3>1. frameHead \in Commands /\ runs[frameHead] = 0
      BY <1>9, <2>1 DEF Dispatch
    <3>2. runs' = [runs EXCEPT ![frameHead] = 1]
      BY <1>9, <2>1, <3>1 DEF Dispatch
    <3>3. QED
      BY <1>9, <2>1, <3>1, <3>2 DEF Dispatch, mailVars, handlerVars
  <2>2. CASE ~(topicSet /\ frameHead # NoCommand)
    BY <1>9, <2>2 DEF Dispatch, mailVars, handlerVars
  <2>3. QED
    BY <2>1, <2>2
<1>10. CASE WipeHead
  BY <1>10 DEF WipeHead, Wiped, handlerVars, historyVars
<1>11. CASE WipeTail \/ WipeTopic \/ ClearEvent
  BY <1>11 DEF WipeTail, WipeTopic, ClearEvent, handlerVars, historyVars
<1>12. CASE Reboot
  BY <1>12 DEF Reboot
<1>13. CASE UNCHANGED vars
  BY <1>13 DEF vars, mailVars, handlerVars, processVars, historyVars
<1>14. QED
  BY <1>1, <1>2, <1>3, <1>4, <1>5, <1>6, <1>7, <1>8, <1>9, <1>10, <1>11, <1>12, <1>13
  DEF Next, Uninterrupted, HandlerStep, ProcessStep

\* No delivery of a command is carried out twice (mqtt_event_handler writing
\* while mqtt_subscribed_process reads, wipes and clears).
THEOREM CarriedOutAtMostOnce == Spec => []AtMostOnce
<1>1. OnceInv => AtMostOnce
  BY DEF OnceInv
<1>2. QED
  BY <1>1, InitOnce, StepOnce, PTL DEF Spec
-----------------------------------------------------------------------------
(* Types.  A tail is only copied from a long command.                      *)

TypeInv == TypeOK /\ (hpc = "tail" => incoming \in Long)

LEMMA TypeInvStep == OnceInv /\ TypeInv /\ [Next]_vars => TypeInv'
<1> SUFFICES ASSUME OnceInv, TypeInv, [Next]_vars PROVE TypeInv'
  OBVIOUS
<1> USE NoCommandAssumption, LongAssumption DEF TypeInv, TypeOK
<1>1. ASSUME NEW c \in Commands, Receive(c) PROVE TypeInv'
  <2>1. Holding \subseteq Commands
    BY DEF Holding
  <2>2. disturbed' \subseteq Commands /\ delivered' \subseteq Commands
    BY <1>1, <2>1 DEF Receive
  <2>3. /\ incoming' = c /\ hpc' = "topic"
        /\ UNCHANGED <<topicSet, head, tail, msgLen, eventBit, ppc, frameHead, frameTail, runs, torn>>
    BY <1>1 DEF Receive, mailVars, processVars
  <2>4. QED
    BY <2>2, <2>3
<1>2. CASE StoreTopic \/ StoreHead \/ StoreTail
  <2>1. CASE StoreTopic
    BY <2>1 DEF StoreTopic, processVars, historyVars
  <2>2. CASE StoreHead
    BY <2>2 DEF StoreHead, processVars, historyVars
  <2>3. CASE StoreTail
    BY <2>3 DEF StoreTail, processVars, historyVars
  <2>4. QED
    BY <1>2, <2>1, <2>2, <2>3
<1>3. CASE StoreLen
  BY <1>3 DEF StoreLen, StoredLen, Halves, processVars, historyVars
<1>4. CASE Signal
  BY <1>4 DEF Signal, BitSet, processVars, historyVars
<1>5. CASE SeeEvent \/ CopyHead \/ CopyTail
  <2>1. CASE SeeEvent
    BY <2>1 DEF SeeEvent, mailVars, handlerVars, historyVars
  <2>2. CASE CopyHead
    BY <2>2 DEF CopyHead, mailVars, handlerVars, historyVars
  <2>3. CASE CopyTail
    BY <2>3 DEF CopyTail, mailVars, handlerVars, historyVars
  <2>4. QED
    BY <1>5, <2>1, <2>2, <2>3
<1>6. CASE Dispatch
  BY <1>6 DEF Dispatch, mailVars, handlerVars
<1>7. CASE WipeHead \/ WipeTail
  BY <1>7 DEF WipeHead, WipeTail, Wiped, handlerVars, historyVars
<1>8. CASE WipeTopic \/ ClearEvent
  BY <1>8 DEF WipeTopic, ClearEvent, handlerVars, historyVars
<1>9. CASE Reboot
  <2>1. disturbed' \subseteq Commands
    BY <1>9 DEF Reboot
  <2>2. /\ topicSet' = FALSE /\ eventBit' = FALSE /\ msgLen' = 0
        /\ head' = NoCommand /\ tail' = NoCommand /\ incoming' = NoCommand
        /\ frameHead' = NoCommand /\ frameTail' = NoCommand
        /\ hpc' = "idle" /\ ppc' = "poll"
        /\ UNCHANGED <<delivered, runs, torn>>
    BY <1>9 DEF Reboot
  <2>3. {head', tail', incoming', frameHead', frameTail'} \subseteq Commands \union {NoCommand}
    BY <2>2
  <2>4. topicSet' \in BOOLEAN /\ eventBit' \in BOOLEAN /\ msgLen' \in 0 .. 2
    <3>1. msgLen' \in 0 .. 2
      BY <2>2
    <3>2. topicSet' \in BOOLEAN /\ eventBit' \in BOOLEAN
      BY <2>2, Zenon
    <3>3. QED
      BY <3>1, <3>2
  <2>5. tail' \in Long \union {NoCommand}
    BY <2>2
  <2>6. /\ delivered' \subseteq Commands /\ torn' \subseteq Commands
        /\ runs' \in [Commands -> Nat]
    BY <2>2
  <2>7. QED
    BY <2>1, <2>2, <2>3, <2>4, <2>5, <2>6
<1>10. CASE UNCHANGED vars
  BY <1>10 DEF vars, mailVars, handlerVars, processVars, historyVars
<1> QED
  BY <1>1, <1>2, <1>3, <1>4, <1>5, <1>6, <1>7, <1>8, <1>9, <1>10
  DEF Next, Uninterrupted, HandlerStep, ProcessStep

LEMMA OnceAlways == Spec => []OnceInv
  BY InitOnce, StepOnce, PTL DEF Spec

LEMMA TypeInvAlways == Spec => []TypeInv
<1>1. ASSUME Init PROVE TypeInv
  <2>1. {head, tail, incoming, frameHead, frameTail} \subseteq Commands \union {NoCommand}
    BY <1>1 DEF Init
  <2>2. runs \in [Commands -> Nat]
    BY <1>1 DEF Init
  <2>3. topicSet \in BOOLEAN /\ eventBit \in BOOLEAN
    BY <1>1, Zenon DEF Init
  <2>4. msgLen \in 0 .. 2 /\ tail \in Long \union {NoCommand}
    BY <1>1 DEF Init
  <2>5. /\ delivered = {} /\ torn = {} /\ disturbed = {}
        /\ hpc = "idle" /\ ppc = "poll"
    BY <1>1 DEF Init
  <2>6. QED
    BY <2>1, <2>2, <2>3, <2>4, <2>5 DEF TypeInv, TypeOK
<1> QED
  BY <1>1, TypeInvStep, OnceAlways, PTL DEF Spec

\* Every variable of the mailbox and its users keeps to its type.
THEOREM TypeCorrect == Spec => []TypeOK
<1>1. TypeInv => TypeOK
  BY DEF TypeInv
<1> QED
  BY <1>1, TypeInvAlways, PTL

-----------------------------------------------------------------------------
(* A command that has the mailbox for itself.  It is in the handler while  *)
(* process_task waits, then it is in the mailbox and in the frame while    *)
(* the handler waits, then it has run.                                     *)

InHandler(c) ==
    /\ incoming = c /\ hpc # "idle" /\ runs[c] = 0
    /\ ~eventBit /\ ppc = "poll"
    /\ hpc # "topic" => topicSet
    /\ hpc \in {"tail", "len", "signal"} => head = c
    /\ hpc \in {"len", "signal"} /\ c \in Long => tail = c
    /\ hpc = "signal" => msgLen = Halves(c)

InMailbox(c) ==
    /\ hpc = "idle" /\ runs[c] = 0
    /\ ppc \in {"poll", "copyHead", "copyTail", "dispatch"}
    /\ ppc = "poll" => eventBit
    /\ topicSet /\ head = c /\ msgLen = Halves(c)
    /\ c \in Long => tail = c
    /\ ppc \in {"copyTail", "dispatch"} => frameHead = c
    /\ ppc = "dispatch" /\ c \in Long => frameTail = c

Follows(c) == InHandler(c) \/ InMailbox(c) \/ runs[c] = 1

AloneInv ==
    /\ \A c \in delivered \ disturbed : Follows(c)
    /\ TornOnlyIfDisturbed

\* Another command's arrival disturbs the one in the mailbox.
LEMMA ReceiveAlone ==
  ASSUME OnceInv, TypeInv, AloneInv, NEW d \in Commands, Receive(d)
  PROVE  AloneInv'
<1> USE NoCommandAssumption
<1>1. torn' = torn /\ disturbed \subseteq disturbed'
  BY DEF Receive
<1>2. ASSUME NEW c \in delivered' \ disturbed' PROVE Follows(c)'
  <2>1. CASE c = d
    <3>1. d \in Commands \ delivered /\ runs[d] = 0
      BY DEF Receive, OnceInv, Fresh
    <3>2. ~Occupied
      BY <1>2, <2>1 DEF Receive
    <3> QED
      BY <2>1, <3>1, <3>2 DEF Receive, Occupied, Follows, InHandler, mailVars, processVars
  <2>2. CASE c # d
    <3>1. c \in delivered \ disturbed /\ hpc = "idle" /\ c # NoCommand
      BY <1>1, <1>2, <2>2 DEF Receive, OnceInv, HeadTypes
    <3>2. ~InMailbox(c)
      <4>1. SUFFICES ASSUME InMailbox(c) PROVE FALSE
        OBVIOUS
      <4>2. Occupied /\ c \in Holding
        BY <3>1, <4>1 DEF InMailbox, Occupied, Holding
      <4> QED
        BY <1>2, <4>2 DEF Receive
    <3>3. runs[c] = 1
      BY <3>1, <3>2 DEF AloneInv, Follows, InHandler
    <3> QED
      BY <3>3 DEF Follows, Receive
  <2> QED
    BY <2>1, <2>2
<1> QED
  BY <1>1, <1>2 DEF AloneInv, TornOnlyIfDisturbed

\* The handler takes the command through the mailbox.
LEMMA HandlerAlone == TypeInv /\ AloneInv /\ HandlerStep => AloneInv'
<1> SUFFICES ASSUME TypeInv, AloneInv, HandlerStep PROVE AloneInv'
  OBVIOUS
<1>1. UNCHANGED <<delivered, runs, torn, disturbed, ppc, frameHead, frameTail>> /\ hpc # "idle"
  BY DEF HandlerStep, StoreTopic, StoreHead, StoreTail, StoreLen, Signal, processVars, historyVars
<1>2. ASSUME NEW c \in delivered \ disturbed PROVE Follows(c)'
  <2>1. CASE InHandler(c)
    <3> USE DEF InHandler, InMailbox
    <3>1. CASE StoreTopic
      BY <1>1, <2>1, <3>1 DEF StoreTopic, Follows
    <3>2. CASE StoreHead
      BY <1>1, <2>1, <3>2 DEF StoreHead, Follows
    <3>3. CASE StoreTail
      BY <1>1, <2>1, <3>3 DEF StoreTail, Follows
    <3>4. CASE StoreLen
      BY <1>1, <2>1, <3>4 DEF StoreLen, StoredLen, Follows
    <3>5. CASE Signal
      BY <1>1, <2>1, <3>5 DEF Signal, BitSet, Follows
    <3> QED
      BY <3>1, <3>2, <3>3, <3>4, <3>5 DEF HandlerStep
  <2>2. CASE runs[c] = 1
    BY <1>1, <2>2 DEF Follows
  <2> QED
    BY <1>1, <2>1, <2>2 DEF AloneInv, Follows, InMailbox
<1> QED
  BY <1>1, <1>2 DEF AloneInv, TornOnlyIfDisturbed

\* process_task copies it and carries it out.
LEMMA ProcessAlone == OnceInv /\ TypeInv /\ AloneInv /\ ProcessStep => AloneInv'
<1> SUFFICES ASSUME OnceInv, TypeInv, AloneInv, ProcessStep PROVE AloneInv'
  OBVIOUS
<1>1. CASE Dispatch
  <2>1. UNCHANGED <<delivered, disturbed>>
    BY <1>1 DEF Dispatch
  <2>2. ASSUME NEW c \in delivered \ disturbed PROVE runs'[c] = 1
    <3>1. c \in Commands /\ c # NoCommand /\ runs \in [Commands -> Nat]
      BY NoCommandAssumption DEF OnceInv, HeadTypes
    <3>2. CASE InMailbox(c)
      BY <1>1, <3>1, <3>2 DEF Dispatch, InMailbox
    <3>3. CASE runs[c] = 1
      BY <1>1, <3>1, <3>3 DEF Dispatch, OnceInv, FrameUnused
    <3> QED
      BY <1>1, <3>2, <3>3 DEF AloneInv, Follows, InHandler, Dispatch
  <2>3. TornOnlyIfDisturbed'
    <3>1. CASE topicSet /\ frameHead # NoCommand /\ frameHead \in Long /\ frameTail # frameHead
      <4>1. frameHead \in delivered /\ runs[frameHead] = 0
        BY <1>1, <3>1 DEF Dispatch, OnceInv, HeadTypes, FrameUnused
      <4>2. ~Follows(frameHead)
        BY <1>1, <3>1, <4>1 DEF Follows, InHandler, InMailbox, Dispatch
      <4>3. frameHead \in disturbed
        BY <4>1, <4>2 DEF AloneInv
      <4> QED
        BY <1>1, <2>1, <3>1, <4>3 DEF Dispatch, AloneInv, TornOnlyIfDisturbed
    <3>2. CASE ~(topicSet /\ frameHead # NoCommand /\ frameHead \in Long /\ frameTail # frameHead)
      BY <1>1, <2>1, <3>2 DEF Dispatch, AloneInv, TornOnlyIfDisturbed
    <3> QED
      BY <3>1, <3>2
  <2> QED
    BY <2>1, <2>2, <2>3 DEF AloneInv, Follows
<1>2. CASE ~Dispatch
  <2>1. UNCHANGED <<delivered, disturbed, torn, runs, hpc, incoming>>
    BY <1>2 DEF ProcessStep, SeeEvent, CopyHead, CopyTail, WipeHead, WipeTail, WipeTopic,
       ClearEvent, handlerVars, historyVars
  <2>2. ASSUME NEW c \in delivered \ disturbed PROVE Follows(c)'
    <3>1. CASE InHandler(c)
      BY <1>2, <3>1 DEF InHandler, ProcessStep, SeeEvent, CopyHead, CopyTail, WipeHead,
         WipeTail, WipeTopic, ClearEvent
    <3>2. CASE InMailbox(c)
      <4>1. SeeEvent \/ CopyHead \/ CopyTail
        BY <1>2, <3>2 DEF InMailbox, ProcessStep, WipeHead, WipeTail, WipeTopic, ClearEvent
      <4>2. UNCHANGED <<topicSet, head, tail, msgLen, eventBit>>
        BY <4>1 DEF SeeEvent, CopyHead, CopyTail, mailVars
      <4>3. msgLen \in {1, 2} /\ (c \in Long => msgLen = 2)
        BY <3>2 DEF InMailbox, Halves
      <4>4. InMailbox(c)'
        BY <2>1, <3>2, <4>1, <4>2, <4>3 DEF InMailbox, Halves, SeeEvent, CopyHead, CopyTail
      <4> QED
        BY <4>4 DEF Follows
    <3>3. CASE runs[c] = 1
      BY <2>1, <3>3 DEF Follows
    <3> QED
      BY <3>1, <3>2, <3>3 DEF AloneInv, Follows
  <2> QED
    BY <2>1, <2>2 DEF AloneInv, TornOnlyIfDisturbed
<1> QED
  BY <1>1, <1>2

LEMMA AloneStep == OnceInv /\ TypeInv /\ AloneInv /\ [Next]_vars => AloneInv'
<1> SUFFICES ASSUME OnceInv, TypeInv, AloneInv, [Next]_vars PROVE AloneInv'
  OBVIOUS
<1>1. CASE Reboot
  BY <1>1 DEF Reboot, AloneInv, TornOnlyIfDisturbed
<1>2. CASE UNCHANGED vars
  BY <1>2 DEF vars, mailVars, handlerVars, processVars, historyVars, AloneInv,
     TornOnlyIfDisturbed, Follows, InHandler, InMailbox
<1> QED
  BY <1>1, <1>2, ReceiveAlone, HandlerAlone, ProcessAlone DEF Next, Uninterrupted

LEMMA AloneAlways == Spec => []AloneInv
<1>1. Init => AloneInv
  BY DEF Init, AloneInv, TornOnlyIfDisturbed
<1> QED
  BY <1>1, AloneStep, OnceAlways, TypeInvAlways, PTL DEF Spec

\* A command is carried out with another command's data only if the two have
\* met in the mailbox, for every interleaving of copies, wipes and signals.
THEOREM OnlyMeetingsTear == Spec => []TornOnlyIfDisturbed
<1>1. AloneInv => TornOnlyIfDisturbed
  BY DEF AloneInv
<1> QED
  BY <1>1, AloneAlways, PTL

\* A command that had the mailbox for itself is on its way or was carried out.
THEOREM LoneCommandKept == Spec => []UndisturbedKept
<1>1. OnceInv /\ AloneInv => UndisturbedKept
  <2> SUFFICES ASSUME OnceInv, AloneInv, NEW c \in delivered \ disturbed
               PROVE  runs[c] = 1 \/ (runs[c] = 0 /\ Pending(c))
    BY DEF UndisturbedKept
  <2>1. c # NoCommand
    BY NoCommandAssumption DEF OnceInv, HeadTypes
  <2>2. InMailbox(c) => Occupied /\ c \in Holding
    BY <2>1 DEF InMailbox, Occupied, Holding
  <2> QED
    BY <2>2 DEF AloneInv, Follows, InHandler, InMailbox, Pending
<1> QED
  BY <1>1, OnceAlways, AloneAlways, PTL
=============================================================================
