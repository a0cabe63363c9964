------------------------- MODULE StoragePollProofs -------------------------
(***************************************************************************)
(* Proofs about StoragePoll, whatever the number of commands, suspensions  *)
(* and late setups: type correctness, that a suspended queue is left       *)
(* alone by the threads of an MSIX vector, and that with MSIX the flag is  *)
(* the state of the vector until the first suspension.                     *)
(***************************************************************************)
EXTENDS StoragePoll, TLAPS

(* The variables of StoragePoll keep their types: a masked vector holds no *)
(* interrupt, only a poll handler that exists is noted as enabled.         *)
LEMMA TypeInit == ASSUME Init PROVE TypeOK
<1> USE VectorsAssumption, InitialPollAssumption, BoundsAssumption DEF TypeOK, Msix, Kinds
<1>1. poll \in {"none", "idle"} /\ isPollHdlrEnabled = (poll # "none")
  BY DEF Init
<1>2. isPollHdlrEnabled \in BOOLEAN /\ (isPollHdlrEnabled => poll # "none")
  BY <1>1
<1>3. isIntrEnabled \in BOOLEAN
  BY Zenon DEF Init
<1>4. irq \in BOOLEAN /\ masked \in BOOLEAN /\ (masked => ~irq)
  BY DEF Init
<1>5. callback \in [pc : {"idle", "check", "enable", "unmask", "again"},
                    need : BOOLEAN]
  BY DEF Init
<1>6. QED
  BY <1>1, <1>2, <1>3, <1>4, <1>5 DEF Init

LEMMA TypeNext == ASSUME TypeOK, [Next]_vars PROVE TypeOK'
<1> USE VectorsAssumption, InitialPollAssumption, BoundsAssumption DEF TypeOK
<1> USE DEF hwVars, pollVars, aside, Msix, Kinds, ProcessCq, Mask
<1>1. CASE Submit
  BY <1>1 DEF Submit
<1>2. CASE Post
  BY <1>2 DEF Post
<1>3. CASE Interrupt
  <2>1. irq' \in BOOLEAN /\ ~irq' /\ masked' = masked
    BY <1>3 DEF Interrupt
  <2>2. handler' = "entered"
    BY <1>3 DEF Interrupt
  <2>3. UNCHANGED <<state, executing, cqes, isIntrEnabled, pollVars,
                    callback, control, aside>>
    BY <1>3 DEF Interrupt
  <2>4. QED
    BY <2>1, <2>2, <2>3
<1>4. CASE HandlerReturns
  BY <1>4 DEF HandlerReturns
<1>5. ASSUME NEW switch \in BOOLEAN, HandlerDecides(switch) PROVE TypeOK'
  BY <1>5 DEF HandlerDecides
<1>6. CASE HandlerProcesses
  BY <1>6 DEF HandlerProcesses
<1>7. CASE HandlerChecksPoll
  BY <1>7 DEF HandlerChecksPoll
<1>8. CASE HandlerDisables
  <2>1. CASE Msix /\ isIntrEnabled
    BY <1>8, <2>1 DEF HandlerDisables
  <2>2. CASE Msix /\ ~isIntrEnabled
    BY <1>8, <2>2 DEF HandlerDisables
  <2>3. CASE ~Msix
    BY <1>8, <2>3 DEF HandlerDisables
  <2>4. QED
    BY <2>1, <2>2, <2>3
<1>9. CASE HandlerMasks
  <2>1. masked' \in BOOLEAN /\ irq' \in BOOLEAN /\ ~irq'
    BY <1>9 DEF HandlerMasks
  <2>2. UNCHANGED <<state, executing, cqes, isIntrEnabled, pollVars, callback,
                    control, aside>> /\ handler' = "activate"
    BY <1>9 DEF HandlerMasks
  <2>3. QED
    BY <2>1, <2>2
<1>10. CASE HandlerActivates
  BY <1>10 DEF HandlerActivates
<1>11. CASE CallbackWithoutBudget
  BY <1>11 DEF CallbackWithoutBudget
<1>12. ASSUME NEW need \in BOOLEAN, CallbackProcesses(need) PROVE TypeOK'
  BY <1>12 DEF CallbackProcesses
<1>13. CASE CallbackContinues
  BY <1>13 DEF CallbackContinues
<1>14. CASE CallbackFindsDisabled
  BY ZenonT(40), <1>14 DEF CallbackFindsDisabled
<1>15. CASE CallbackStops
  BY <1>15 DEF CallbackStops
<1>16. CASE CallbackEnables
  BY <1>16 DEF CallbackEnables
<1>17. CASE CallbackUnmasks
  <2>1. callback' \in [pc : {"idle", "check", "enable", "unmask", "again"},
                       need : BOOLEAN]
    BY <1>17 DEF CallbackUnmasks
  <2>2. masked' \in BOOLEAN /\ ~masked' /\ irq' = irq
    BY <1>17 DEF CallbackUnmasks
  <2>3. UNCHANGED <<state, executing, cqes, isIntrEnabled, pollVars,
                    handler, control, aside>>
    BY <1>17 DEF CallbackUnmasks
  <2>4. QED
    BY <2>1, <2>2, <2>3
<1>18. CASE CallbackProcessesAgain
  BY <1>18 DEF CallbackProcessesAgain
<1>19. CASE Suspend
  BY <1>19 DEF Suspend
<1>20. CASE ClearPollFlag
  <2>1. isPollHdlrEnabled' \in BOOLEAN /\ ~(isPollHdlrEnabled' /\ poll = "none")
    BY <1>20 DEF ClearPollFlag
  <2>2. control' \in {"pollDisable", "intrFlag"}
    BY <1>20 DEF ClearPollFlag
  <2>3. UNCHANGED <<state, hwVars, isIntrEnabled, poll, handler, callback, aside>>
    BY <1>20 DEF ClearPollFlag
  <2>4. QED
    BY <2>1, <2>2, <2>3
<1>21. CASE DisablePoll
  BY <1>21 DEF DisablePoll
<1>22. CASE AwaitCallback
  BY <1>22 DEF AwaitCallback
<1>23. CASE ClearIntrFlag
  <2>1. CASE Msix /\ isIntrEnabled
    BY <1>23, <2>1 DEF ClearIntrFlag
  <2>2. CASE Msix /\ ~isIntrEnabled
    BY <1>23, <2>2 DEF ClearIntrFlag
  <2>3. CASE ~Msix
    BY <1>23, <2>3 DEF ClearIntrFlag
  <2>4. QED
    BY <2>1, <2>2, <2>3
<1>24. CASE SyncIntr
  BY <1>24 DEF SyncIntr
<1>25. CASE MaskIntr
  BY ZenonT(40), <1>25 DEF MaskIntr
<1>26. CASE FlushAndInit
  BY <1>26 DEF FlushAndInit
<1>27. CASE Resume
  BY <1>27 DEF Resume
<1>28. CASE SetPollFlag
  <2>1. CASE control = "setup"
    BY <1>28, <2>1 DEF SetPollFlag
  <2>2. CASE control = "enablePoll" /\ poll # "none" /\ ~isPollHdlrEnabled
    BY <1>28, <2>2 DEF SetPollFlag
  <2>3. CASE control = "enablePoll" /\ ~(poll # "none" /\ ~isPollHdlrEnabled)
    BY <1>28, <2>3 DEF SetPollFlag
  <2>4. QED
    BY <1>28, <2>1, <2>2, <2>3 DEF SetPollFlag
<1>29. ASSUME NEW ok \in BOOLEAN, EnablePoll(ok) PROVE TypeOK'
  <2>1. CASE ok
    BY <1>29, <2>1 DEF EnablePoll
  <2>2. CASE ~ok
    <3>1. control' \in {"setupFailed", "resumeFailed"} /\ poll' = "none"
      BY <1>29, <2>2 DEF EnablePoll
    <3>2. UNCHANGED <<state, hwVars, isIntrEnabled, isPollHdlrEnabled, handler,
                      callback, aside>>
      BY <1>29 DEF EnablePoll
    <3>3. QED
      BY <3>1, <3>2
  <2>3. QED
    BY <2>1, <2>2
<1>30. CASE SetIntrFlag
  BY <1>30 DEF SetIntrFlag
<1>31. CASE UnmaskIntr
  <2>1. masked' \in BOOLEAN /\ ~masked' /\ irq' = irq
    BY <1>31 DEF UnmaskIntr
  <2>2. UNCHANGED <<state, executing, cqes, isIntrEnabled, pollVars, handler,
                    callback, aside>> /\ control = "unmask" /\ control' = "idle"
    BY <1>31 DEF UnmaskIntr
  <2>3. QED
    BY <2>1, <2>2
<1>32. CASE CreatePoll
  BY <1>32 DEF CreatePoll
<1>33. CASE MsiHandlerEntersIoQueue
  BY <1>33 DEF MsiHandlerEntersIoQueue
<1>34. CASE ForgetPoll
  <2>1. isPollHdlrEnabled' \in BOOLEAN /\ ~isPollHdlrEnabled'
    BY <1>34 DEF ForgetPoll
  <2>2. control' \in {"idle", "enableIntr"}
    BY <1>34 DEF ForgetPoll
  <2>3. UNCHANGED <<state, hwVars, isIntrEnabled, poll, handler, callback, aside>>
    BY <1>34 DEF ForgetPoll
  <2>4. QED
    BY <2>1, <2>2, <2>3
<1>35. CASE UNCHANGED vars
  BY <1>35 DEF vars
<1>36. QED
  BY <1>1, <1>2, <1>3, <1>4, <1>5, <1>6, <1>7, <1>8, <1>9, <1>10, <1>11,
     <1>12, <1>13, <1>14, <1>15, <1>16, <1>17, <1>18, <1>19, <1>20,
     <1>21, <1>22, <1>23, <1>24, <1>25, <1>26, <1>27, <1>28, <1>29,
     <1>30, <1>31, <1>32, <1>33, <1>34, <1>35
  DEF Next, Handler, CallbackStart, Callback, Control

(* The type invariant of the switching between interrupts and polling.     *)
THEOREM TypeCorrect == Spec => []TypeOK
  BY TypeInit, TypeNext, PTL DEF Spec

-----------------------------------------------------------------------------
(* The poll callback runs, or may be called without another SetPollFlag.   *)
Polling == callback.pc # "idle" \/ poll \in {"idle", "active"}

(* What the threads know of each other.  A poll handler is disabled (its   *)
(* flag first, then the handler, then the callback is waited for) before   *)
(* the interrupt is; and with MSIX an interrupt handler is in              *)
(* NVMEPCIEProcessCq only with isIntrEnabled set or with a thread that     *)
(* still has to synchronise with it.                                       *)
PollGuarded == Polling => isPollHdlrEnabled \/ control \in {"pollDisable", "pollWait"}
PollDisabling ==
  /\ control = "pollDisable" => poll # "none" /\ ~isPollHdlrEnabled
  /\ control = "pollWait" => poll = "disabled" /\ ~isPollHdlrEnabled
PollStaysDisabled ==
  /\ control \in {"intrFlag", "sync", "mask", "flush", "resume", "enablePoll", "setup"}
       => ~isPollHdlrEnabled
  /\ control \in {"setupPoll", "resumePoll"}
       => poll = "disabled" /\ callback.pc = "idle" /\ isPollHdlrEnabled
  /\ control \in {"setupFailed", "resumeFailed"}
       => poll = "none" /\ callback.pc = "idle"
IntrGuarded ==
  /\ Msix \/ ~isIntrEnabled
  /\ Msix /\ handler = "process" => isIntrEnabled \/ control = "sync"
  /\ control \in {"sync", "mask", "flush", "resume", "enablePoll", "resumePoll",
                  "resumeFailed"}
       => ~isIntrEnabled
Guards == PollGuarded /\ PollDisabling /\ PollStaysDisabled /\ IntrGuarded

(* The guards are kept by every step of every thread.                      *)
LEMMA GuardsInit == ASSUME Init, TypeOK PROVE Guards
  BY VectorsAssumption, InitialPollAssumption
  DEF Init, TypeOK, Guards, Polling, PollGuarded, PollDisabling, PollStaysDisabled,
      IntrGuarded, Msix, Kinds

LEMMA GuardsNext == ASSUME TypeOK, Guards, [Next]_vars PROVE Guards'
<1> USE VectorsAssumption
    DEF TypeOK, Guards, Polling, PollGuarded, PollDisabling, PollStaysDisabled,
        IntrGuarded, hwVars, pollVars, aside, Msix, Kinds, ProcessCq, Mask
<1>1. CASE Submit
  BY <1>1 DEF Submit
<1>2. CASE Post
  BY <1>2 DEF Post
<1>3. CASE Interrupt
  BY <1>3 DEF Interrupt
<1>4. CASE HandlerReturns
  BY <1>4 DEF HandlerReturns
<1>5. ASSUME NEW switch \in BOOLEAN, HandlerDecides(switch) PROVE Guards'
  BY <1>5 DEF HandlerDecides
<1>6. CASE HandlerProcesses
  BY <1>6 DEF HandlerProcesses
<1>7. CASE HandlerChecksPoll
  BY <1>7 DEF HandlerChecksPoll
<1>8. CASE HandlerDisables
  BY <1>8 DEF HandlerDisables
<1>9. CASE HandlerMasks
  BY <1>9 DEF HandlerMasks
<1>10. CASE HandlerActivates
  BY <1>10 DEF HandlerActivates
<1>11. CASE CallbackWithoutBudget
  BY <1>11 DEF CallbackWithoutBudget
<1>12. ASSUME NEW need \in BOOLEAN, CallbackProcesses(need) PROVE Guards'
  BY <1>12 DEF CallbackProcesses
<1>13. CASE CallbackContinues
  BY <1>13 DEF CallbackContinues
<1>14. CASE CallbackFindsDisabled
  BY <1>14 DEF CallbackFindsDisabled
<1>15. CASE CallbackStops
  BY <1>15 DEF CallbackStops
<1>16. CASE CallbackEnables
  BY <1>16 DEF CallbackEnables
<1>17. CASE CallbackUnmasks
  BY <1>17 DEF CallbackUnmasks
<1>18. CASE CallbackProcessesAgain
  BY <1>18 DEF CallbackProcessesAgain
<1>19. CASE Suspend
  BY <1>19 DEF Suspend
<1>20. CASE ClearPollFlag
  BY <1>20 DEF ClearPollFlag
<1>21. CASE DisablePoll
  BY <1>21 DEF DisablePoll
<1>22. CASE AwaitCallback
  BY <1>22 DEF AwaitCallback
<1>23. CASE ClearIntrFlag
  BY <1>23 DEF ClearIntrFlag
<1>24. CASE SyncIntr
  BY <1>24 DEF SyncIntr
<1>25. CASE MaskIntr
  BY <1>25 DEF MaskIntr
<1>26. CASE FlushAndInit
  BY <1>26 DEF FlushAndInit
<1>27. CASE Resume
  BY <1>27 DEF Resume
<1>28. CASE SetPollFlag
  <2>1. CASE control = "setup"
    BY <1>28, <2>1 DEF SetPollFlag
  <2>2. CASE control = "enablePoll" /\ poll # "none" /\ ~isPollHdlrEnabled
    BY <1>28, <2>2 DEF SetPollFlag
  <2>3. CASE control = "enablePoll" /\ ~(poll # "none" /\ ~isPollHdlrEnabled)
    BY <1>28, <2>3 DEF SetPollFlag
  <2>4. QED
    BY <1>28, <2>1, <2>2, <2>3 DEF SetPollFlag
<1>29. ASSUME NEW ok \in BOOLEAN, EnablePoll(ok) PROVE Guards'
  <2>1. CASE ok
    BY <1>29, <2>1 DEF EnablePoll
  <2>2. CASE ~ok
    BY <1>29, <2>2 DEF EnablePoll
  <2>3. QED
    BY <2>1, <2>2
<1>30. CASE SetIntrFlag
  BY <1>30 DEF SetIntrFlag
<1>31. CASE UnmaskIntr
  BY <1>31 DEF UnmaskIntr
<1>32. CASE CreatePoll
  BY <1>32 DEF CreatePoll
<1>33. CASE MsiHandlerEntersIoQueue
  BY <1>33 DEF MsiHandlerEntersIoQueue
<1>34. CASE ForgetPoll
  BY <1>34 DEF ForgetPoll
<1>35. CASE UNCHANGED vars
  BY <1>35 DEF vars
<1>36. QED
  BY <1>1, <1>2, <1>3, <1>4, <1>5, <1>6, <1>7, <1>8, <1>9, <1>10, <1>11,
     <1>12, <1>13, <1>14, <1>15, <1>16, <1>17, <1>18, <1>19, <1>20,
     <1>21, <1>22, <1>23, <1>24, <1>25, <1>26, <1>27, <1>28, <1>29,
     <1>30, <1>31, <1>32, <1>33, <1>34, <1>35
  DEF Next, Handler, CallbackStart, Callback, Control

(* The inductive invariant around the suspension of the queue.             *)
THEOREM GuardsHold == Spec => [](TypeOK /\ Guards)
  BY TypeInit, TypeNext, GuardsInit, GuardsNext, PTL DEF Spec

(* With MSIX, NVMEPCIESuspendQueue returns with the queue left alone by    *)
(* the interrupt handler and the poll callback, whoever switched what off. *)
THEOREM SuspendedAloneHolds == Spec => []SuspendedAlone
<1>1. TypeOK /\ Guards => SuspendedAlone
  BY DEF TypeOK, Guards, Polling, PollGuarded, PollStaysDisabled, IntrGuarded,
         SuspendedAlone
<1>2. QED
  BY <1>1, GuardsHold, PTL

-----------------------------------------------------------------------------
(* Until the first suspension the flag, the vector and the poll handler    *)
(* pass the queue on in a circle: interrupts are served; the interrupt     *)
(* handler has cleared the flag; it has masked the vector; polling; the    *)
(* callback has set the flag and is about to unmask the vector.            *)
Calm == poll # "active" /\ callback.pc \in {"idle", "again"}
Serving ==
  /\ isIntrEnabled /\ ~masked /\ Calm
  /\ handler \in {"idle", "entered", "process", "switch", "disable"}
Masking == ~isIntrEnabled /\ ~masked /\ Calm /\ handler = "mask"
Handing == ~isIntrEnabled /\ masked /\ Calm /\ handler = "activate"
PollServes ==
  /\ ~isIntrEnabled /\ masked /\ handler = "idle" /\ callback.pc # "unmask"
  /\ callback.pc \in {"check", "enable"} => poll # "active"
Unmasking ==
  /\ isIntrEnabled /\ masked /\ handler = "idle" /\ callback.pc = "unmask"
  /\ poll # "active"
Circle ==
  Msix /\ suspends = 0 =>
    /\ control \in {"idle", "setup", "setupPoll", "setupFailed"}
    /\ Serving \/ Masking \/ Handing \/ PollServes \/ Unmasking

(* The circle is closed under every step of a queue with an MSIX vector.   *)
LEMMA CircleInit == ASSUME Init PROVE Circle
  BY VectorsAssumption, InitialPollAssumption
  DEF Init, Circle, Serving, Calm, Msix

LEMMA CircleNext ==
  ASSUME TypeOK, Guards, Circle, [Next]_vars PROVE Circle'
<1> USE DEF TypeOK, Guards, PollStaysDisabled, Circle, Calm, Serving, Masking, Handing,
            PollServes, Unmasking, hwVars, pollVars, aside, Msix, ProcessCq, Mask
<1>1. CASE Submit
  BY <1>1 DEF Submit
<1>2. CASE Post
  BY <1>2 DEF Post
<1>3. CASE Interrupt
  BY <1>3 DEF Interrupt
<1>4. CASE HandlerReturns
  BY <1>4 DEF HandlerReturns
<1>5. ASSUME NEW switch \in BOOLEAN, HandlerDecides(switch) PROVE Circle'
  BY <1>5 DEF HandlerDecides
<1>6. CASE HandlerProcesses
  BY <1>6 DEF HandlerProcesses
<1>7. CASE HandlerChecksPoll
  BY <1>7 DEF HandlerChecksPoll
<1>8. CASE HandlerDisables
  BY <1>8 DEF HandlerDisables
<1>9. CASE HandlerMasks
  BY <1>9 DEF HandlerMasks
<1>10. CASE HandlerActivates
  BY <1>10 DEF HandlerActivates
<1>11. CASE CallbackWithoutBudget
  BY <1>11 DEF CallbackWithoutBudget
<1>12. ASSUME NEW need \in BOOLEAN, CallbackProcesses(need) PROVE Circle'
  BY <1>12 DEF CallbackProcesses
<1>13. CASE CallbackContinues
  BY <1>13 DEF CallbackContinues
<1>14. CASE CallbackFindsDisabled
  BY <1>14 DEF CallbackFindsDisabled
<1>15. CASE CallbackStops
  BY <1>15 DEF CallbackStops
<1>16. CASE CallbackEnables
  BY <1>16 DEF CallbackEnables
<1>17. CASE CallbackUnmasks
  BY <1>17 DEF CallbackUnmasks
<1>18. CASE CallbackProcessesAgain
  BY <1>18 DEF CallbackProcessesAgain
<1>19. CASE Suspend
  BY <1>19 DEF Suspend
<1>20. CASE ClearPollFlag
  BY <1>20 DEF ClearPollFlag
<1>21. CASE DisablePoll
  BY <1>21 DEF DisablePoll
<1>22. CASE AwaitCallback
  BY <1>22 DEF AwaitCallback
<1>23. CASE ClearIntrFlag
  BY <1>23 DEF ClearIntrFlag
<1>24. CASE SyncIntr
  BY <1>24 DEF SyncIntr
<1>25. CASE MaskIntr
  BY <1>25 DEF MaskIntr
<1>26. CASE FlushAndInit
  BY <1>26 DEF FlushAndInit
<1>27. CASE Resume
  BY <1>27 DEF Resume
<1>28. CASE SetPollFlag
  <2>1. CASE control = "setup"
    BY <1>28, <2>1 DEF SetPollFlag
  <2>2. CASE control = "enablePoll" /\ poll # "none" /\ ~isPollHdlrEnabled
    BY <1>28, <2>2 DEF SetPollFlag
  <2>3. CASE control = "enablePoll" /\ ~(poll # "none" /\ ~isPollHdlrEnabled)
    BY <1>28, <2>3 DEF SetPollFlag
  <2>4. QED
    BY <1>28, <2>1, <2>2, <2>3 DEF SetPollFlag
<1>29. ASSUME NEW ok \in BOOLEAN, EnablePoll(ok) PROVE Circle'
  BY <1>29 DEF EnablePoll
<1>30. CASE SetIntrFlag
  BY <1>30 DEF SetIntrFlag
<1>31. CASE UnmaskIntr
  BY <1>31 DEF UnmaskIntr
<1>32. CASE CreatePoll
  BY <1>32 DEF CreatePoll
<1>33. CASE MsiHandlerEntersIoQueue
  BY <1>33 DEF MsiHandlerEntersIoQueue
<1>34. CASE ForgetPoll
  BY <1>34 DEF ForgetPoll
<1>35. CASE UNCHANGED vars
  BY <1>35 DEF vars
<1>36. QED
  BY <1>1, <1>2, <1>3, <1>4, <1>5, <1>6, <1>7, <1>8, <1>9, <1>10, <1>11,
     <1>12, <1>13, <1>14, <1>15, <1>16, <1>17, <1>18, <1>19, <1>20,
     <1>21, <1>22, <1>23, <1>24, <1>25, <1>26, <1>27, <1>28, <1>29,
     <1>30, <1>31, <1>32, <1>33, <1>34, <1>35
  DEF Next, Handler, CallbackStart, Callback, Control

(* With an MSIX vector isIntrEnabled is the state of the vector, but for a *)
(* thread between the two, until the first suspension.                     *)
THEOREM FlagIsVectorHolds == Spec => []FlagIsVector
<1>1. Circle /\ TypeOK => FlagIsVector
  BY DEF TypeOK, Circle, Calm, Serving, Masking, Handing, PollServes, Unmasking,
         FlagIsVector
<1>2. Init => Circle
  BY CircleInit
<1>3. TypeOK /\ Guards /\ Circle /\ [Next]_vars => Circle'
  BY CircleNext
<1>4. QED
  BY <1>1, <1>2, <1>3, GuardsHold, PTL DEF Spec
=============================================================================
