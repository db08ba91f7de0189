---------------------------- MODULE TdxPoolProofs ----------------------------
(***************************************************************************)
(* Proofs about TdxPool for any number of threads, slots and generations:  *)
(* no slot is lost or shared, and the pool implements SlotLease.           *)
(*                                                                         *)
(* The argument looks only at the slots that are idle and at the threads   *)
(* that hold one.  Every step of the pool has one of five forms with       *)
(* respect to these (StepHasForm), and the inductive invariant is          *)
(* preserved by each form.  The admission queue is treated apart.          *)
(***************************************************************************)
EXTENDS TdxPool, SequenceTheorems, TLAPS

HoldsSlot(c, s, g) == pc[c] \in Holding /\ at[c] = <<s, g>>

(***************************************************************************)
(* What makes SlotAccounting inductive: the idle slots are distinct, an    *)
(* idle slot is held by nobody of the current generation and every other   *)
(* slot by somebody, leases are of no later generation, and once the pool  *)
(* is closed of an earlier one.                                            *)
(***************************************************************************)
IdleDistinct == \A i, j \in DOMAIN idle : idle[i] = idle[j] => i = j

ClosedIsEmpty == closed => idle = <<>>

IdleIsFree == \A i \in DOMAIN idle, c \in Caller : ~HoldsSlot(c, idle[i], generation)

BusyIsHeld ==
    ~closed => \A s \in Slot : IsIdle(s) \/ \E c \in Caller : HoldsSlot(c, s, generation)

LeasesAreOfThePast ==
    \A c \in Caller : pc[c] \in Holding =>
        at[c][2] <= generation /\ (closed => at[c][2] # generation)

IInv ==
    /\ TypeOK
    /\ IdleDistinct
    /\ ClosedIsEmpty
    /\ IdleIsFree
    /\ BusyIsHeld
    /\ LeasesAreOfThePast
    /\ ExclusiveTransport

-----------------------------------------------------------------------------
(***************************************************************************)
(* The forms of a step.                                                    *)
(***************************************************************************)
Keeps(c) ==
    /\ pc'[c] \in Holding <=> pc[c] \in Holding
    /\ pc[c] \in Holding => at'[c] = at[c]

OthersKeep(c) == \A d \in Caller \ {c} : Keeps(d)

\* Neither the slots nor their holders change.
Quiet ==
    /\ UNCHANGED <<closed, generation, idle>>
    /\ \A d \in Caller : Keeps(d)

Takes(c) ==
    /\ ~closed /\ idle # <<>>
    /\ UNCHANGED <<closed, generation>>
    /\ idle' = Tail(idle)
    /\ pc[c] \notin Holding
    /\ at'[c] = <<Head(idle), generation>>
    /\ pc'[c] \in Holding
    /\ OthersKeep(c)

Releases(c) ==
    /\ UNCHANGED <<closed, generation>>
    /\ pc[c] \in Holding
    /\ pc'[c] \notin Holding
    /\ idle' = IF at[c][2] = generation /\ ~IsIdle(at[c][1]) /\ ~closed
               THEN Append(idle, at[c][1])
               ELSE idle
    /\ OthersKeep(c)

Closes ==
    /\ ~closed /\ closed'
    /\ generation' = generation + 1
    /\ idle' = <<>>
    /\ \A d \in Caller : Keeps(d)

Reopens ==
    /\ closed /\ ~closed'
    /\ generation' = generation + 1
    /\ idle' = FreshSlots
    /\ \A d \in Caller : Keeps(d)

StepForm ==
    \/ Quiet
    \/ \E c \in Caller : Takes(c) \/ Releases(c)
    \/ Closes
    \/ Reopens

-----------------------------------------------------------------------------
\* The first slots are slots, each once.
LEMMA FreshSlotsType ==
    /\ FreshSlots \in Seq(Slot)
    /\ \A i, j \in DOMAIN FreshSlots : FreshSlots[i] = FreshSlots[j] => i = j
    /\ \A s \in Slot : \E i \in DOMAIN FreshSlots : FreshSlots[i] = s
<1>1. PoolSize \in Nat \ {0}
  BY PoolAssumption
<1>2. FreshSlots \in [1 .. PoolSize -> Slot]
  BY <1>1 DEF FreshSlots, Slot
<1>3. FreshSlots \in Seq(Slot)
  BY <1>1, <1>2, IsASeq
<1>4. DOMAIN FreshSlots = 1 .. PoolSize
  BY DEF FreshSlots
<1>5. \A i, j \in DOMAIN FreshSlots : FreshSlots[i] = FreshSlots[j] => i = j
  BY <1>1, <1>4 DEF FreshSlots
<1>6. ASSUME NEW s \in Slot PROVE \E i \in DOMAIN FreshSlots : FreshSlots[i] = s
  <2>1. s + 1 \in 1 .. PoolSize /\ (s + 1) - 1 = s
    BY <1>1, <1>6 DEF Slot
  <2>2. FreshSlots[s + 1] = s
    BY <2>1 DEF FreshSlots
  <2> QED BY <1>4, <2>1, <2>2
<1> QED BY <1>3, <1>5, <1>6

\* A thread at no transport still has a pair of numbers in at.
LEMMA NowhereType == Nowhere \in Transport
<1>1. 0 \in Slot
  BY PoolAssumption DEF Slot
<1> QED BY <1>1 DEF Nowhere, Transport

\* Removing a waiter leaves a queue of threads.
LEMMA WithoutType ==
    ASSUME NEW ws \in Seq(Caller), NEW c
    PROVE  Without(ws, c) \in Seq(Caller)
<1>1. ASSUME NEW i \in 1 .. Len(ws)
      PROVE  SubSeq(ws, 1, i - 1) \o SubSeq(ws, i + 1, Len(ws)) \in Seq(Caller)
  <2>1. Len(ws) \in Nat /\ \A k \in 1 .. Len(ws) : ws[k] \in Caller
    BY ElementOfSeq, LenProperties
  <2>2. 1 \in Int /\ i - 1 \in Int /\ \A k \in 1 .. i - 1 : ws[k] \in Caller
    BY <2>1
  <2>3. i + 1 \in Int /\ Len(ws) \in Int /\ \A k \in i + 1 .. Len(ws) : ws[k] \in Caller
    BY <2>1
  <2>4. SubSeq(ws, 1, i - 1) \in Seq(Caller)
    BY <2>2, SubSeqProperties
  <2>5. SubSeq(ws, i + 1, Len(ws)) \in Seq(Caller)
    BY <2>3, SubSeqProperties
  <2> QED BY <2>4, <2>5, ConcatProperties
<1>2. DOMAIN ws = 1 .. Len(ws)
  BY LenProperties
<1>3. CASE \E i \in DOMAIN ws : ws[i] = c
  <2>1. (CHOOSE i \in DOMAIN ws : ws[i] = c) \in 1 .. Len(ws)
    BY <1>2, <1>3, Zenon
  <2> QED BY <1>1, <1>3, <2>1, Zenon DEF Without
<1>4. CASE ~\E i \in DOMAIN ws : ws[i] = c
  BY <1>4 DEF Without
<1> QED BY <1>3, <1>4

\* notify_all moves threads between waiting states only.
LEMMA NotifyAllType ==
    ASSUME TypeOK, NEW c \in Caller, NEW s \in ThreadState, NotifyAll(c, s)
    PROVE  /\ pc' \in [Caller -> ThreadState]
           /\ pc'[c] = s
           /\ \A d \in Caller \ {c} : pc'[d] \in Holding <=> pc[d] \in Holding
<1>1. pc' = [d \in Caller |-> IF d = c THEN s ELSE IF pc[d] = "asleep" THEN "awake" ELSE pc[d]]
  BY DEF NotifyAll
<1>2. "awake" \in ThreadState /\ "awake" \notin Holding /\ "asleep" \notin Holding
  BY DEF ThreadState, Holding
<1>3. \A d \in Caller : pc[d] \in ThreadState
  BY DEF TypeOK
<1>4. pc' \in [Caller -> ThreadState]
  BY <1>1, <1>2, <1>3
<1>5. pc'[c] = s
  BY <1>1
<1>6. \A d \in Caller \ {c} : pc'[d] \in Holding <=> pc[d] \in Holding
  BY <1>1, <1>2
<1> QED BY <1>4, <1>5, <1>6

\* One round of the admission loop keeps the types.
LEMMA LoopType ==
    ASSUME TypeOK, NEW c \in Caller, NEW ws \in Seq(Caller),
           TakeSlot(c, ws) \/ Wait(c, ws) \/ GiveUp(c, ws)
    PROVE  TypeOK'
<1>1. CASE TakeSlot(c, ws)
  <2>1. ws # <<>> /\ idle # <<>> /\ idle \in Seq(Slot)
    BY <1>1 DEF TakeSlot, MayTake, TypeOK
  <2>2. Tail(ws) \in Seq(Caller) /\ Tail(idle) \in Seq(Slot) /\ Head(idle) \in Slot
    BY <2>1, HeadTailProperties
  <2>3. <<Head(idle), generation>> \in Transport
    BY <2>2 DEF Transport, TypeOK
  <2>4. at' \in [Caller -> Transport]
    BY <1>1, <2>3 DEF TakeSlot, TypeOK
  <2>5. pc' \in [Caller -> ThreadState]
    BY <1>1 DEF TakeSlot, Move, TypeOK, ThreadState
  <2> QED BY <1>1, <2>2, <2>4, <2>5 DEF TakeSlot, TypeOK
<1>2. CASE Wait(c, ws)
  <2>1. pc' \in [Caller -> ThreadState]
    BY <1>2 DEF Wait, Move, TypeOK, ThreadState
  <2> QED BY <1>2, <2>1 DEF Wait, TypeOK
<1>3. CASE GiveUp(c, ws)
  <2>1. pc' \in [Caller -> ThreadState]
    BY <1>3, NotifyAllType DEF GiveUp, ThreadState
  <2>2. waiters' \in Seq(Caller)
    BY <1>3, WithoutType DEF GiveUp
  <2>3. at' \in [Caller -> Transport] /\ late' \subseteq Caller
    BY <1>3, NowhereType DEF GiveUp, Forget, TypeOK
  <2> QED BY <1>3, <2>1, <2>2, <2>3 DEF GiveUp, TypeOK
<1> QED BY <1>1, <1>2, <1>3

\* Every variable keeps its type.
LEMMA TypeStep == TypeOK /\ [Next]_vars => TypeOK'
<1> SUFFICES ASSUME TypeOK, [Next]_vars PROVE TypeOK'
  OBVIOUS
<1>1. CASE UNCHANGED vars
  BY <1>1 DEF TypeOK, vars, poolVars
<1>2. ASSUME NEW c \in Caller, Admit(c) \/ LookAgain(c)
      PROVE  TypeOK'
  <2>1. waiters \in Seq(Caller) /\ Append(waiters, c) \in Seq(Caller)
    BY AppendProperties DEF TypeOK
  <2>2. \E ws \in Seq(Caller) : TakeSlot(c, ws) \/ Wait(c, ws) \/ GiveUp(c, ws)
    BY <1>2, <2>1, Zenon DEF Admit, LookAgain
  <2> QED BY <2>2, LoopType
<1>3. ASSUME NEW c \in Caller, ReleaseSlot(c)
      PROVE  TypeOK'
  <2>1. at[c][1] \in Slot /\ idle \in Seq(Slot)
    BY DEF TypeOK, Transport
  <2>2. idle' \in Seq(Slot)
    BY <1>3, <2>1, AppendProperties DEF ReleaseSlot
  <2>3. pc' \in [Caller -> ThreadState]
    BY <1>3, NotifyAllType DEF ReleaseSlot, ThreadState
  <2>4. at' \in [Caller -> Transport] /\ late' \subseteq Caller
    BY <1>3, NowhereType DEF ReleaseSlot, Forget, TypeOK
  <2> QED BY <1>3, <2>2, <2>3, <2>4 DEF ReleaseSlot, TypeOK
<1>4. ASSUME NEW c \in Caller, NEW s \in ThreadState, ReopenIfClosed(c, s)
      PROVE  TypeOK'
  <2>1. pc' \in [Caller -> ThreadState]
    BY <1>4, NotifyAllType DEF ReopenIfClosed, Move, TypeOK
  <2>2. CASE ~closed
    BY <1>4, <2>1, <2>2 DEF ReopenIfClosed, TypeOK, poolVars
  <2>3. CASE closed
    <3>1. /\ closed' = FALSE /\ generation' = generation + 1 /\ made' = {}
          /\ idle' = FreshSlots /\ waiters' = <<>> /\ UNCHANGED <<alive, at, late, shutting>>
      BY <1>4, <2>3 DEF ReopenIfClosed
    <3>2. waiters' \in Seq(Caller)
      BY <3>1, EmptySeq
    <3>3. idle' \in Seq(Slot)
      BY <3>1, FreshSlotsType
    <3>4. closed' \in BOOLEAN /\ made' \subseteq Slot
      BY <3>1
    <3>5. generation' \in Nat
      BY <3>1 DEF TypeOK
    <3> QED BY <2>1, <3>1, <3>2, <3>3, <3>4, <3>5 DEF TypeOK
  <2> QED BY <2>2, <2>3
<1>5. ASSUME NEW c \in Caller, Close(c)
      PROVE  TypeOK'
  <2>1. pc' \in [Caller -> ThreadState]
    BY <1>5, NotifyAllType DEF Close, ThreadState
  <2>2. made \X {generation} \subseteq Transport
    BY DEF TypeOK, Transport
  <2>3. shutting' \in [Caller -> SUBSET Transport]
    BY <1>5, <2>2 DEF Close, TypeOK
  <2> QED BY <1>5, <2>1, <2>3 DEF Close, TypeOK
<1>6. ASSUME NEW c \in Caller, CloseTransport(c)
      PROVE  TypeOK'
  BY <1>6 DEF CloseTransport, TypeOK, poolVars
<1>7. ASSUME NEW c \in Caller, Refuse(c)
      PROVE  TypeOK'
  <2>1. pc' \in [Caller -> ThreadState]
    BY <1>7 DEF Refuse, Move, TypeOK, ThreadState
  <2> QED BY <1>7, <2>1, NowhereType DEF Refuse, Forget, TypeOK, poolVars
<1>8. ASSUME NEW c \in Caller, FailToObtain(c)
      PROVE  TypeOK'
  <2>1. pc' \in [Caller -> ThreadState]
    BY <1>8 DEF FailToObtain, Move, TypeOK, ThreadState
  <2> QED BY <1>8, <2>1 DEF FailToObtain, TypeOK, poolVars
<1>9. ASSUME NEW c \in Caller, StartRequest(c)
      PROVE  TypeOK'
  <2>1. pc' \in [Caller -> ThreadState]
    BY <1>9 DEF StartRequest, Move, TypeOK, ThreadState
  <2> QED BY <1>9, <2>1 DEF StartRequest, TypeOK, poolVars
<1>10. ASSUME NEW c \in Caller, EndRequest(c)
      PROVE  TypeOK'
  <2>1. pc' \in [Caller -> ThreadState]
    BY <1>10 DEF EndRequest, Move, TypeOK, ThreadState
  <2> QED BY <1>10, <2>1 DEF EndRequest, TypeOK, poolVars
<1>11. ASSUME NEW c \in Caller, ConnectFails(c)
      PROVE  TypeOK'
  <2>1. pc' \in [Caller -> ThreadState]
    BY <1>11 DEF ConnectFails, Move, TypeOK, ThreadState
  <2> QED BY <1>11, <2>1, NowhereType DEF ConnectFails, Forget, TypeOK, poolVars
<1>12. ASSUME NEW c \in Caller, CloseReturns(c)
      PROVE  TypeOK'
  <2>1. pc' \in [Caller -> ThreadState]
    BY <1>12 DEF CloseReturns, Move, TypeOK, ThreadState
  <2> QED BY <1>12, <2>1 DEF CloseReturns, TypeOK, poolVars
<1>13. ASSUME NEW c \in Caller, Deadline(c)
      PROVE  TypeOK'
  <2>1. pc' \in [Caller -> ThreadState]
    BY <1>13 DEF Deadline, Move, TypeOK, ThreadState
  <2> QED BY <1>13, <2>1 DEF Deadline, TypeOK, poolVars
<1>14. ASSUME NEW c \in Caller, ObtainTransport(c)
      PROVE  TypeOK'
  <2>1. pc' \in [Caller -> ThreadState]
    BY <1>14 DEF ObtainTransport, Move, TypeOK, ThreadState
  <2>2. at[c][1] \in Slot /\ <<at[c][1], generation>> \in Transport
    BY DEF TypeOK, Transport
  <2> QED BY <1>14, <2>1, <2>2 DEF ObtainTransport, TransportAt, TypeOK
<1>15. ASSUME NEW c \in Caller, ConnectSlot(c)
      PROVE  TypeOK'
  <2>1. pc' \in [Caller -> ThreadState]
    BY <1>15 DEF ConnectSlot, Move, TypeOK, ThreadState
  <2>2. at[c][1] \in Slot /\ <<at[c][1], generation>> \in Transport
    BY DEF TypeOK, Transport
  <2> QED BY <1>15, <2>1, <2>2 DEF ConnectSlot, TransportAt, TypeOK
<1>16. ASSUME NEW c \in Caller, Dial(c)
      PROVE  TypeOK'
  <2>1. pc' \in [Caller -> ThreadState]
    BY <1>16 DEF Dial, Move, TypeOK, ThreadState
  <2>2. at[c][1] + 1 \in Slot => <<at[c][1] + 1, 0>> \in Transport
    BY DEF Transport
  <2>3. at' \in [Caller -> Transport] /\ late' \subseteq Caller
    BY <1>16, <2>2, NowhereType DEF Dial, Forget, TypeOK
  <2> QED BY <1>16, <2>1, <2>3 DEF Dial, TypeOK, poolVars
<1>17. ASSUME NEW c \in Caller, Execute(c) \/ Connect(c)
      PROVE  TypeOK'
  BY <1>4, <1>17 DEF Execute, Connect, ThreadState
<1> QED
  BY <1>1, <1>2, <1>3, <1>5, <1>6, <1>7, <1>8, <1>9, <1>10, <1>11, <1>12, <1>13, <1>14, <1>15, <1>16, <1>17, Zenon DEF Next, CallerStep

-----------------------------------------------------------------------------
\* A thread that moves between states that hold no slot, or that all hold one, changes nothing.
LEMMA MoveIsQuiet ==
    ASSUME TypeOK, NEW c \in Caller, NEW s, Move(c, s), s \in Holding <=> pc[c] \in Holding,
           UNCHANGED <<closed, generation, idle>>,
           pc[c] \notin Holding => \A d \in Caller \ {c} : at'[d] = at[d],
           pc[c] \in Holding => at' = at
    PROVE  Quiet
<1>1. \A d \in Caller : pc'[d] = IF d = c THEN s ELSE pc[d]
  BY DEF Move, TypeOK
<1>2. ASSUME NEW d \in Caller PROVE Keeps(d)
  <2>1. CASE d = c
    BY <1>1, <2>1 DEF Keeps
  <2>2. CASE d # c
    BY <1>1, <2>2 DEF Keeps
  <2> QED BY <2>1, <2>2
<1> QED BY <1>2 DEF Quiet

\* One round of the admission loop takes a slot or changes no slot.
LEMMA LoopForm ==
    ASSUME TypeOK, NEW c \in Caller, NEW ws, pc[c] \notin Holding,
           TakeSlot(c, ws) \/ Wait(c, ws) \/ GiveUp(c, ws)
    PROVE  StepForm
<1>1. CASE TakeSlot(c, ws)
  <2>1. \A d \in Caller : pc'[d] = IF d = c THEN "leased" ELSE pc[d]
    BY <1>1 DEF TakeSlot, Move, TypeOK
  <2>2. \A d \in Caller : at'[d] = IF d = c THEN <<Head(idle), generation>> ELSE at[d]
    BY <1>1 DEF TakeSlot, TypeOK
  <2>3. OthersKeep(c)
    BY <2>1, <2>2 DEF OthersKeep, Keeps
  <2>4. pc'[c] \in Holding
    BY <2>1 DEF Holding
  <2>5. Takes(c)
    BY <1>1, <2>2, <2>3, <2>4 DEF Takes, TakeSlot, MayTake
  <2> QED BY <2>5 DEF StepForm
<1>2. CASE Wait(c, ws)
  <2>1. Quiet
    BY <1>2, MoveIsQuiet DEF Wait, Holding
  <2> QED BY <2>1 DEF StepForm
<1>3. CASE GiveUp(c, ws)
  <2>1. \A d \in Caller \ {c} : pc'[d] \in Holding <=> pc[d] \in Holding
    BY <1>3, NotifyAllType DEF GiveUp, ThreadState
  <2>2. pc'[c] \notin Holding
    BY <1>3, NotifyAllType DEF GiveUp, ThreadState, Holding
  <2>3. \A d \in Caller \ {c} : at'[d] = at[d]
    BY <1>3 DEF GiveUp, Forget, TypeOK
  <2>4. \A d \in Caller : Keeps(d)
    BY <2>1, <2>2, <2>3 DEF Keeps
  <2>5. Quiet
    BY <1>3, <2>4 DEF Quiet, GiveUp
  <2> QED BY <2>5 DEF StepForm
<1> QED BY <1>1, <1>2, <1>3

\* Every step has one of the forms.
LEMMA StepHasForm == TypeOK /\ [Next]_vars => StepForm
<1> SUFFICES ASSUME TypeOK, [Next]_vars PROVE StepForm
  OBVIOUS
<1>1. CASE UNCHANGED vars
  BY <1>1 DEF vars, poolVars, StepForm, Quiet, Keeps
<1>2. ASSUME NEW c \in Caller, Admit(c) \/ LookAgain(c)
      PROVE  StepForm
  <2>1. pc[c] \notin Holding
    BY <1>2 DEF Admit, LookAgain, Holding
  <2>2. \E ws : TakeSlot(c, ws) \/ Wait(c, ws) \/ GiveUp(c, ws)
    BY <1>2, Zenon DEF Admit, LookAgain
  <2> QED BY <2>1, <2>2, LoopForm
<1>3. ASSUME NEW c \in Caller, ReleaseSlot(c)
      PROVE  StepForm
  <2>1. \A d \in Caller \ {c} : pc'[d] \in Holding <=> pc[d] \in Holding
    BY <1>3, NotifyAllType DEF ReleaseSlot, ThreadState
  <2>2. pc'[c] \notin Holding /\ pc[c] \in Holding
    BY <1>3, NotifyAllType DEF ReleaseSlot, ThreadState, Holding
  <2>3. \A d \in Caller \ {c} : at'[d] = at[d]
    BY <1>3 DEF ReleaseSlot, Forget, TypeOK
  <2>4. OthersKeep(c)
    BY <2>1, <2>3 DEF OthersKeep, Keeps
  <2>5. Releases(c)
    BY <1>3, <2>2, <2>4 DEF Releases, ReleaseSlot
  <2> QED BY <2>5 DEF StepForm
<1>4. ASSUME NEW c \in Caller, NEW s \in ThreadState \ Holding, ReopenIfClosed(c, s)
      PROVE  StepForm
  <2>1. pc[c] \notin Holding /\ s \notin Holding /\ at' = at
    BY <1>4 DEF ReopenIfClosed, Holding
  <2>2. CASE ~closed
    <3>1. Quiet
      BY <1>4, <2>1, <2>2, MoveIsQuiet DEF ReopenIfClosed, poolVars
    <3> QED BY <3>1 DEF StepForm
  <2>3. CASE closed
    <3>1. NotifyAll(c, s)
      BY <1>4, <2>3 DEF ReopenIfClosed
    <3>2. \A d \in Caller : Keeps(d)
      BY <2>1, <3>1, NotifyAllType DEF Keeps
    <3>3. Reopens
      BY <1>4, <2>3, <3>2 DEF Reopens, ReopenIfClosed
    <3> QED BY <3>3 DEF StepForm
  <2> QED BY <2>2, <2>3
<1>5. ASSUME NEW c \in Caller, Close(c)
      PROVE  StepForm
  <2>1. pc[c] \notin Holding /\ "closing" \notin Holding /\ at' = at
    BY <1>5 DEF Close, Holding
  <2>2. \A d \in Caller : Keeps(d)
    BY <1>5, <2>1, NotifyAllType DEF Keeps, Close, ThreadState
  <2>3. Closes
    BY <1>5, <2>2 DEF Closes, Close
  <2> QED BY <2>3 DEF StepForm
<1>6. ASSUME NEW c \in Caller, CloseTransport(c)
      PROVE  StepForm
  BY <1>6 DEF CloseTransport, poolVars, StepForm, Quiet, Keeps
<1>7. ASSUME NEW c \in Caller, Refuse(c)
      PROVE  StepForm
  <2>1. Move(c, "idle") /\ UNCHANGED <<closed, generation, idle>>
    BY <1>7 DEF Refuse, poolVars
  <2>2. "idle" \in Holding <=> pc[c] \in Holding
    BY <1>7 DEF Refuse, Holding
  <2>3. /\ pc[c] \notin Holding => \A d \in Caller \ {c} : at'[d] = at[d]
        /\ pc[c] \in Holding => at' = at
    BY <1>7 DEF Refuse, Forget, TypeOK, Holding
  <2>4. Quiet
    BY <2>1, <2>2, <2>3, MoveIsQuiet
  <2> QED BY <2>4 DEF StepForm
<1>8. ASSUME NEW c \in Caller, FailToObtain(c)
      PROVE  StepForm
  <2>1. Move(c, "releasing") /\ UNCHANGED <<closed, generation, idle>>
    BY <1>8 DEF FailToObtain, poolVars
  <2>2. "releasing" \in Holding <=> pc[c] \in Holding
    BY <1>8 DEF FailToObtain, Holding
  <2>3. /\ pc[c] \notin Holding => \A d \in Caller \ {c} : at'[d] = at[d]
        /\ pc[c] \in Holding => at' = at
    BY <1>8 DEF FailToObtain, Holding
  <2>4. Quiet
    BY <2>1, <2>2, <2>3, MoveIsQuiet
  <2> QED BY <2>4 DEF StepForm
<1>9. ASSUME NEW c \in Caller, StartRequest(c)
      PROVE  StepForm
  <2>1. Move(c, "executing") /\ UNCHANGED <<closed, generation, idle>>
    BY <1>9 DEF StartRequest, poolVars
  <2>2. "executing" \in Holding <=> pc[c] \in Holding
    BY <1>9 DEF StartRequest, Holding
  <2>3. /\ pc[c] \notin Holding => \A d \in Caller \ {c} : at'[d] = at[d]
        /\ pc[c] \in Holding => at' = at
    BY <1>9 DEF StartRequest, Holding
  <2>4. Quiet
    BY <2>1, <2>2, <2>3, MoveIsQuiet
  <2> QED BY <2>4 DEF StepForm
<1>10. ASSUME NEW c \in Caller, EndRequest(c)
      PROVE  StepForm
  <2>1. Move(c, "releasing") /\ UNCHANGED <<closed, generation, idle>>
    BY <1>10 DEF EndRequest, poolVars
  <2>2. "releasing" \in Holding <=> pc[c] \in Holding
    BY <1>10 DEF EndRequest, Holding
  <2>3. /\ pc[c] \notin Holding => \A d \in Caller \ {c} : at'[d] = at[d]
        /\ pc[c] \in Holding => at' = at
    BY <1>10 DEF EndRequest, Holding
  <2>4. Quiet
    BY <2>1, <2>2, <2>3, MoveIsQuiet
  <2> QED BY <2>4 DEF StepForm
<1>11. ASSUME NEW c \in Caller, ConnectFails(c)
      PROVE  StepForm
  <2>1. Move(c, "idle") /\ UNCHANGED <<closed, generation, idle>>
    BY <1>11 DEF ConnectFails, poolVars
  <2>2. "idle" \in Holding <=> pc[c] \in Holding
    BY <1>11 DEF ConnectFails, Holding
  <2>3. /\ pc[c] \notin Holding => \A d \in Caller \ {c} : at'[d] = at[d]
        /\ pc[c] \in Holding => at' = at
    BY <1>11 DEF ConnectFails, Forget, TypeOK, Holding
  <2>4. Quiet
    BY <2>1, <2>2, <2>3, MoveIsQuiet
  <2> QED BY <2>4 DEF StepForm
<1>12. ASSUME NEW c \in Caller, CloseReturns(c)
      PROVE  StepForm
  <2>1. Move(c, "idle") /\ UNCHANGED <<closed, generation, idle>>
    BY <1>12 DEF CloseReturns, poolVars
  <2>2. "idle" \in Holding <=> pc[c] \in Holding
    BY <1>12 DEF CloseReturns, Holding
  <2>3. /\ pc[c] \notin Holding => \A d \in Caller \ {c} : at'[d] = at[d]
        /\ pc[c] \in Holding => at' = at
    BY <1>12 DEF CloseReturns, Holding
  <2>4. Quiet
    BY <2>1, <2>2, <2>3, MoveIsQuiet
  <2> QED BY <2>4 DEF StepForm
<1>13. ASSUME NEW c \in Caller, ObtainTransport(c)
      PROVE  StepForm
  <2>1. Move(c, "obtained") /\ UNCHANGED <<closed, generation, idle>>
    BY <1>13 DEF ObtainTransport, poolVars
  <2>2. "obtained" \in Holding <=> pc[c] \in Holding
    BY <1>13 DEF ObtainTransport, Holding
  <2>3. /\ pc[c] \notin Holding => \A d \in Caller \ {c} : at'[d] = at[d]
        /\ pc[c] \in Holding => at' = at
    BY <1>13 DEF ObtainTransport, Holding
  <2>4. Quiet
    BY <2>1, <2>2, <2>3, MoveIsQuiet
  <2> QED BY <2>4 DEF StepForm
<1>14. ASSUME NEW c \in Caller, ConnectSlot(c)
      PROVE  StepForm
  <2>1. Move(c, "dialling") /\ UNCHANGED <<closed, generation, idle>>
    BY <1>14 DEF ConnectSlot, poolVars
  <2>2. "dialling" \in Holding <=> pc[c] \in Holding
    BY <1>14 DEF ConnectSlot, Holding
  <2>3. /\ pc[c] \notin Holding => \A d \in Caller \ {c} : at'[d] = at[d]
        /\ pc[c] \in Holding => at' = at
    BY <1>14 DEF ConnectSlot, TypeOK, Holding
  <2>4. Quiet
    BY <2>1, <2>2, <2>3, MoveIsQuiet
  <2> QED BY <2>4 DEF StepForm
<1>15. ASSUME NEW c \in Caller, Deadline(c)
      PROVE  StepForm
  <2>1. \A d \in Caller : pc'[d] = IF d = c THEN (IF pc[c] = "asleep" THEN "awake" ELSE pc[c]) ELSE pc[d]
    BY <1>15 DEF Deadline, Move, TypeOK
  <2>2. \A d \in Caller : Keeps(d)
    BY <1>15, <2>1 DEF Keeps, Deadline, Holding
  <2> QED BY <1>15, <2>2 DEF StepForm, Quiet, Deadline, poolVars
<1>16. ASSUME NEW c \in Caller, Dial(c)
      PROVE  StepForm
  <2>1. \E s \in {"connecting", "idle"} : Move(c, s)
    BY <1>16 DEF Dial
  <2>2. pc[c] \notin Holding /\ "connecting" \notin Holding /\ "idle" \notin Holding
    BY <1>16 DEF Dial, Holding
  <2>3. \A d \in Caller \ {c} : at'[d] = at[d]
    BY <1>16 DEF Dial, Forget, TypeOK
  <2>4. UNCHANGED <<closed, generation, idle>>
    BY <1>16 DEF Dial, poolVars
  <2>5. Quiet
    BY <2>1, <2>2, <2>3, <2>4, MoveIsQuiet
  <2> QED BY <2>5 DEF StepForm
<1>17. ASSUME NEW c \in Caller, Execute(c) \/ Connect(c)
      PROVE  StepForm
  <2>1. {"arrived", "connecting"} \subseteq ThreadState \ Holding
    BY DEF ThreadState, Holding
  <2> QED BY <1>4, <1>17, <2>1 DEF Execute, Connect
<1> QED
  BY <1>1, <1>2, <1>3, <1>5, <1>6, <1>7, <1>8, <1>9, <1>10, <1>11, <1>12, <1>13, <1>14, <1>15, <1>16, <1>17, Zenon DEF Next, CallerStep

-----------------------------------------------------------------------------
\* A step that keeps a thread keeps the lease it holds.
LEMMA KeepsLease ==
    ASSUME NEW c \in Caller, Keeps(c), NEW s, NEW g
    PROVE  HoldsSlot(c, s, g)' <=> HoldsSlot(c, s, g)
BY DEF Keeps, HoldsSlot

\* At first every slot is idle.
LEMMA InitIInv == Init => IInv
<1> SUFFICES ASSUME Init PROVE IInv
  OBVIOUS
<1>1. TypeOK
  <2>1. waiters \in Seq(Caller)
    BY EmptySeq DEF Init
  <2>2. pc \in [Caller -> ThreadState]
    BY DEF Init, ThreadState
  <2>3. at \in [Caller -> Transport]
    BY NowhereType DEF Init
  <2> QED BY <2>1, <2>2, <2>3, FreshSlotsType DEF Init, TypeOK
<1>2. \A c \in Caller : pc[c] \notin Holding
  BY DEF Init, Holding
<1>3. IdleDistinct
  BY FreshSlotsType DEF Init, IdleDistinct
<1>4. BusyIsHeld
  BY FreshSlotsType DEF Init, BusyIsHeld, IsIdle
<1>5. IdleIsFree /\ LeasesAreOfThePast /\ ExclusiveTransport
  BY <1>2 DEF IdleIsFree, HoldsSlot, LeasesAreOfThePast, ExclusiveTransport
<1>6. ClosedIsEmpty
  BY DEF Init, ClosedIsEmpty
<1> QED BY <1>1, <1>3, <1>4, <1>5, <1>6 DEF IInv

\* A step that touches no slot.
LEMMA QuietStep ==
    ASSUME IInv, TypeOK', Quiet
    PROVE  IInv'
<1>1. closed' = closed /\ generation' = generation /\ idle' = idle
  BY DEF Quiet
<1>2. \A c \in Caller : Keeps(c)
  BY DEF Quiet
<1>3. \A c \in Caller : \A s, g : HoldsSlot(c, s, g)' <=> HoldsSlot(c, s, g)
  BY <1>2, KeepsLease
<1>4. IdleDistinct' /\ ClosedIsEmpty'
  BY <1>1 DEF IInv, IdleDistinct, ClosedIsEmpty
<1>5. IdleIsFree'
  BY <1>1, <1>3 DEF IInv, IdleIsFree
<1>6. BusyIsHeld'
  BY <1>1, <1>3 DEF IInv, BusyIsHeld, IsIdle
<1>7. LeasesAreOfThePast' /\ ExclusiveTransport'
  BY <1>1, <1>2 DEF IInv, LeasesAreOfThePast, ExclusiveTransport, Keeps
<1> QED BY <1>4, <1>5, <1>6, <1>7 DEF IInv

\* The head of the queue takes the first idle slot.
LEMMA TakesStep ==
    ASSUME IInv, TypeOK', NEW c \in Caller, Takes(c)
    PROVE  IInv'
<1>1. /\ ~closed /\ closed' = closed /\ generation' = generation
      /\ pc[c] \notin Holding /\ pc'[c] \in Holding
      /\ at'[c] = <<Head(idle), generation>>
  BY DEF Takes
<1>2. /\ idle \in Seq(Slot) /\ idle # <<>> /\ generation \in Nat
  BY DEF Takes, IInv, TypeOK
<1>3. /\ Len(idle) \in Nat \ {0}
      /\ DOMAIN idle = 1 .. Len(idle)
      /\ Head(idle) = idle[1]
      /\ DOMAIN idle' = 1 .. Len(idle) - 1
      /\ \A i \in 1 .. Len(idle) - 1 : idle'[i] = idle[i + 1]
  BY <1>2, HeadTailProperties, LenProperties, EmptySeq DEF Takes
<1>4. \A d \in Caller \ {c} : \A s, g : HoldsSlot(d, s, g)' <=> HoldsSlot(d, s, g)
  BY KeepsLease DEF Takes, OthersKeep
<1>5. \A s, g : ~HoldsSlot(c, s, g)
  BY <1>1 DEF HoldsSlot
<1>6. \A s, g : HoldsSlot(c, s, g)' <=> s = idle[1] /\ g = generation
  BY <1>1, <1>3 DEF HoldsSlot
<1>7. IdleDistinct'
  BY <1>3 DEF IInv, IdleDistinct
<1>8. ClosedIsEmpty'
  BY <1>1 DEF ClosedIsEmpty
<1>9. IdleIsFree'
  <2> SUFFICES ASSUME NEW i \in 1 .. Len(idle) - 1, NEW d \in Caller,
                      pc'[d] \in Holding, at'[d] = <<idle[i + 1], generation>>
               PROVE  FALSE
    BY <1>1, <1>3 DEF IdleIsFree, HoldsSlot
  <2>1. i + 1 \in DOMAIN idle /\ i + 1 # 1 /\ 1 \in DOMAIN idle
    BY <1>3
  <2>2. HoldsSlot(d, idle[i + 1], generation) \/ idle[i + 1] = idle[1]
    <3>1. CASE d = c
      BY <1>1, <1>3, <3>1
    <3>2. CASE d # c
      BY <3>2 DEF HoldsSlot, Takes, OthersKeep, Keeps
    <3> QED BY <3>1, <3>2
  <2> QED BY <2>1, <2>2 DEF IInv, IdleIsFree, IdleDistinct
<1>10. BusyIsHeld'
  <2> SUFFICES ASSUME NEW s \in Slot
               PROVE  IsIdle(s)' \/ \E d \in Caller : HoldsSlot(d, s, generation)'
    BY DEF BusyIsHeld
  <2>1. CASE \E d \in Caller : HoldsSlot(d, s, generation)
    <3>1. PICK d \in Caller : HoldsSlot(d, s, generation)
      BY <2>1
    <3>2. d # c
      BY <1>5, <3>1
    <3>3. HoldsSlot(d, s, generation)'
      BY <1>1, <3>1, <3>2 DEF HoldsSlot, Takes, OthersKeep, Keeps
    <3> QED BY <3>3
  <2>2. CASE IsIdle(s)
    <3>1. PICK i \in 1 .. Len(idle) : idle[i] = s
      BY <1>3, <2>2 DEF IsIdle
    <3>2. CASE i = 1
      <4>1. HoldsSlot(c, s, generation)'
        BY <1>1, <1>3, <3>1, <3>2 DEF HoldsSlot
      <4> QED BY <4>1
    <3>3. CASE i # 1
      <4>1. i - 1 \in 1 .. Len(idle) - 1 /\ (i - 1) + 1 = i
        BY <1>3, <3>3
      <4>2. i - 1 \in DOMAIN idle' /\ idle'[i - 1] = s
        BY <1>3, <3>1, <4>1
      <4> QED BY <4>2 DEF IsIdle
    <3> QED BY <3>2, <3>3
  <2> QED BY <1>1, <2>1, <2>2 DEF IInv, BusyIsHeld
<1>11. LeasesAreOfThePast'
  <2> SUFFICES ASSUME NEW d \in Caller, pc'[d] \in Holding
               PROVE  at'[d][2] <= generation
    BY <1>1 DEF LeasesAreOfThePast
  <2>1. CASE d = c
    BY <1>1, <1>2, <2>1
  <2>2. CASE d # c
    BY <2>2 DEF IInv, LeasesAreOfThePast, Takes, OthersKeep, Keeps
  <2> QED BY <2>1, <2>2
<1>12. ExclusiveTransport'
  <2>1. ASSUME NEW d \in Caller \ {c}, pc'[d] \in Holding PROVE at'[d] # at'[c]
    <3>1. pc[d] \in Holding /\ at'[d] = at[d]
      BY <2>1 DEF Takes, OthersKeep, Keeps
    <3>2. ~HoldsSlot(d, idle[1], generation)
      BY <1>3 DEF IInv, IdleIsFree
    <3> QED BY <1>1, <1>3, <3>1, <3>2 DEF HoldsSlot
  <2>2. \A d, e \in Caller \ {c} :
          pc'[d] \in Holding /\ pc'[e] \in Holding /\ at'[d] = at'[e] => d = e
    BY DEF IInv, ExclusiveTransport, Takes, OthersKeep, Keeps
  <2> QED BY <2>1, <2>2 DEF ExclusiveTransport
<1> QED BY <1>7, <1>8, <1>9, <1>10, <1>11, <1>12 DEF IInv

\* A slot that does not go back is of an earlier generation.
LEMMA KeptSlotIsOld ==
    ASSUME IInv, NEW c \in Caller, pc[c] \in Holding
    PROVE  /\ at[c] = <<at[c][1], at[c][2]>> /\ at[c][1] \in Slot
           /\ closed \/ IsIdle(at[c][1]) => at[c][2] # generation
<1>1. at[c] = <<at[c][1], at[c][2]>> /\ at[c][1] \in Slot
  BY DEF IInv, TypeOK, Transport
<1>2. closed => at[c][2] # generation
  BY DEF IInv, LeasesAreOfThePast
<1>3. IsIdle(at[c][1]) => at[c][2] # generation
  BY <1>1 DEF IInv, IdleIsFree, IsIdle, HoldsSlot
<1> QED BY <1>1, <1>2, <1>3

\* A thread releases its slot; only a slot of this generation goes back.
LEMMA ReleasesStep ==
    ASSUME IInv, TypeOK', NEW c \in Caller, Releases(c)
    PROVE  IInv'
<1> DEFINE s0 == at[c][1]
<1>1. /\ closed' = closed /\ generation' = generation
      /\ pc[c] \in Holding /\ pc'[c] \notin Holding
  BY DEF Releases
<1>2. at[c] = <<s0, at[c][2]>> /\ s0 \in Slot
  BY <1>1, KeptSlotIsOld
<1>3. \A d \in Caller : \A s, g : HoldsSlot(d, s, g)' <=> d # c /\ HoldsSlot(d, s, g)
  BY <1>1 DEF HoldsSlot, Releases, OthersKeep, Keeps
<1>4. LeasesAreOfThePast' /\ ExclusiveTransport'
  BY <1>1 DEF IInv, LeasesAreOfThePast, ExclusiveTransport, Releases, OthersKeep, Keeps
<1>5. CASE at[c][2] = generation
  <2>1. ~IsIdle(s0) /\ ~closed
    BY <1>1, <1>5, KeptSlotIsOld
  <2>2. idle' = Append(idle, s0) /\ idle \in Seq(Slot)
    BY <1>5, <2>1 DEF Releases, IInv, TypeOK
  <2>3. /\ Len(idle) \in Nat
        /\ DOMAIN idle = 1 .. Len(idle)
        /\ DOMAIN idle' = 1 .. Len(idle) + 1
        /\ \A i \in 1 .. Len(idle) : idle'[i] = idle[i]
        /\ idle'[Len(idle) + 1] = s0
    BY <1>2, <2>2, AppendProperties, LenProperties
  <2>4. IdleDistinct'
    BY <2>1, <2>3 DEF IInv, IdleDistinct, IsIdle
  <2>5. ClosedIsEmpty'
    BY <1>1, <2>1 DEF ClosedIsEmpty
  <2>6. IdleIsFree'
    <3> SUFFICES ASSUME NEW i \in 1 .. Len(idle) + 1, NEW d \in Caller \ {c},
                        pc[d] \in Holding, at[d] = <<idle'[i], generation>>
                 PROVE  FALSE
      BY <1>1, <2>3 DEF IdleIsFree, HoldsSlot, Releases, OthersKeep, Keeps
    <3>1. CASE i = Len(idle) + 1
      <4>1. pc[d] \in Holding /\ at[d] = at[c]
        BY <1>2, <1>5, <2>3, <3>1
      <4> QED BY <1>1, <4>1 DEF IInv, ExclusiveTransport
    <3>2. CASE i \in 1 .. Len(idle)
      BY <2>3, <3>2 DEF IInv, IdleIsFree, HoldsSlot
    <3> QED BY <2>3, <3>1, <3>2
  <2>7. BusyIsHeld'
    <3> SUFFICES ASSUME NEW s \in Slot
                 PROVE  IsIdle(s)' \/ \E d \in Caller : HoldsSlot(d, s, generation)'
      BY DEF BusyIsHeld
    <3>1. CASE s = s0
      BY <2>3, <3>1 DEF IsIdle
    <3>2. CASE IsIdle(s)
      BY <2>3, <3>2 DEF IsIdle
    <3>3. CASE s # s0 /\ \E d \in Caller : HoldsSlot(d, s, generation)
      <4>1. PICK d \in Caller : HoldsSlot(d, s, generation)
        BY <3>3
      <4>2. d # c
        BY <1>2, <3>3, <4>1 DEF HoldsSlot
      <4>3. HoldsSlot(d, s, generation)'
        BY <1>1, <4>1, <4>2 DEF HoldsSlot, Releases, OthersKeep, Keeps
      <4> QED BY <4>3
    <3> QED BY <2>1, <3>1, <3>2, <3>3 DEF IInv, BusyIsHeld
  <2> QED BY <1>4, <2>4, <2>5, <2>6, <2>7 DEF IInv
<1>6. CASE at[c][2] # generation
  <2>1. idle' = idle
    BY <1>6 DEF Releases
  <2>2. IdleDistinct' /\ ClosedIsEmpty'
    BY <1>1, <2>1 DEF IInv, IdleDistinct, ClosedIsEmpty
  <2>3. IdleIsFree'
    BY <1>1, <1>3, <2>1 DEF IInv, IdleIsFree
  <2>4. BusyIsHeld'
    <3> SUFFICES ASSUME ~closed, NEW s \in Slot
                 PROVE  IsIdle(s)' \/ \E d \in Caller : HoldsSlot(d, s, generation)'
      BY <1>1 DEF BusyIsHeld
    <3>1. CASE IsIdle(s)
      BY <2>1, <3>1 DEF IsIdle
    <3>2. CASE \E d \in Caller : HoldsSlot(d, s, generation)
      <4>1. PICK d \in Caller : HoldsSlot(d, s, generation)
        BY <3>2
      <4>2. d # c
        BY <1>6, <4>1 DEF HoldsSlot
      <4>3. HoldsSlot(d, s, generation)'
        BY <1>1, <4>1, <4>2 DEF HoldsSlot, Releases, OthersKeep, Keeps
      <4> QED BY <4>3
    <3> QED BY <3>1, <3>2 DEF IInv, BusyIsHeld
  <2> QED BY <1>4, <2>2, <2>3, <2>4 DEF IInv
<1> QED BY <1>5, <1>6

\* Closing makes every lease one of the past.
LEMMA ClosesStep ==
    ASSUME IInv, TypeOK', Closes
    PROVE  IInv'
<1>1. closed' /\ generation' = generation + 1 /\ idle' = <<>> /\ generation \in Nat
  BY DEF Closes, IInv, TypeOK
<1>2. \A c \in Caller : Keeps(c)
  BY DEF Closes
<1>3. IdleDistinct' /\ ClosedIsEmpty' /\ IdleIsFree'
  BY <1>1 DEF IdleDistinct, ClosedIsEmpty, IdleIsFree
<1>4. BusyIsHeld'
  BY <1>1 DEF BusyIsHeld
<1>5. LeasesAreOfThePast'
  <2> SUFFICES ASSUME NEW c \in Caller, pc'[c] \in Holding
               PROVE  at'[c][2] <= generation + 1 /\ at'[c][2] # generation + 1
    BY <1>1 DEF LeasesAreOfThePast
  <2>1. at'[c] = at[c] /\ at[c][2] <= generation
    BY <1>2 DEF Keeps, IInv, LeasesAreOfThePast
  <2>2. at[c][2] \in Nat
    BY DEF IInv, TypeOK, Transport
  <2> QED BY <1>1, <2>1, <2>2
<1>6. ExclusiveTransport'
  BY <1>2 DEF IInv, ExclusiveTransport, Keeps
<1> QED BY <1>3, <1>4, <1>5, <1>6 DEF IInv

\* Reopening makes every slot idle, and no lease is of the new generation.
LEMMA ReopensStep ==
    ASSUME IInv, TypeOK', Reopens
    PROVE  IInv'
<1>1. ~closed' /\ generation' = generation + 1 /\ idle' = FreshSlots /\ generation \in Nat
  BY DEF Reopens, IInv, TypeOK
<1>2. \A c \in Caller : Keeps(c)
  BY DEF Reopens
<1>3. IdleDistinct' /\ ClosedIsEmpty'
  BY <1>1, FreshSlotsType DEF IdleDistinct, ClosedIsEmpty
<1>4. BusyIsHeld'
  BY <1>1, FreshSlotsType DEF BusyIsHeld, IsIdle
<1>5. \A c \in Caller : pc'[c] \in Holding =>
          at'[c][2] <= generation' /\ at'[c][2] # generation'
  <2> SUFFICES ASSUME NEW c \in Caller, pc'[c] \in Holding
               PROVE  at'[c][2] <= generation + 1 /\ at'[c][2] # generation + 1
    BY <1>1
  <2>1. at'[c] = at[c] /\ at[c][2] <= generation
    BY <1>2 DEF Keeps, IInv, LeasesAreOfThePast
  <2>2. at[c][2] \in Nat
    BY DEF IInv, TypeOK, Transport
  <2> QED BY <1>1, <2>1, <2>2
<1>6. LeasesAreOfThePast'
  BY <1>5 DEF LeasesAreOfThePast
<1>7. IdleIsFree'
  BY <1>5 DEF IdleIsFree, HoldsSlot
<1>8. ExclusiveTransport'
  BY <1>2 DEF IInv, ExclusiveTransport, Keeps
<1> QED BY <1>3, <1>4, <1>6, <1>7, <1>8 DEF IInv

\* The invariant is inductive.
LEMMA IInvStep == IInv /\ [Next]_vars => IInv'
<1> SUFFICES ASSUME IInv, [Next]_vars PROVE IInv'
  OBVIOUS
<1>1. TypeOK' /\ StepForm
  BY TypeStep, StepHasForm DEF IInv
<1> QED
  BY <1>1, QuietStep, TakesStep, ReleasesStep, ClosesStep, ReopensStep, Zenon DEF StepForm

\* The invariant accounts for every slot.
LEMMA AccountsForSlots == IInv => SlotAccounting
<1> SUFFICES ASSUME IInv PROVE SlotAccounting
  OBVIOUS
<1>1. \A s, c : c \in Holders(s) <=> c \in Caller /\ HoldsSlot(c, s, generation)
  BY DEF Holders, HoldsSlot
<1>2. ASSUME closed, NEW s \in Slot PROVE ~IsIdle(s) /\ Holders(s) = {}
  <2>1. ~IsIdle(s)
    BY <1>2 DEF IInv, ClosedIsEmpty, IsIdle
  <2>2. \A c \in Caller : pc[c] \in Holding => at[c][2] # generation
    BY <1>2 DEF IInv, LeasesAreOfThePast
  <2>3. Holders(s) = {}
    BY <2>2 DEF Holders
  <2> QED BY <2>1, <2>3
<1>3. ASSUME NEW s \in Slot, IsIdle(s) PROVE Holders(s) = {}
  <2>1. \A c \in Caller : ~HoldsSlot(c, s, generation)
    BY <1>3 DEF IInv, IdleIsFree, IsIdle
  <2> QED BY <1>1, <2>1
<1>4. ASSUME ~closed, NEW s \in Slot, ~IsIdle(s) PROVE \E c \in Caller : Holders(s) = {c}
  <2>1. PICK c \in Caller : HoldsSlot(c, s, generation)
    BY <1>4 DEF IInv, BusyIsHeld
  <2>2. \A d \in Caller : HoldsSlot(d, s, generation) => d = c
    BY <2>1 DEF IInv, ExclusiveTransport, HoldsSlot
  <2>3. Holders(s) = {c}
    BY <1>1, <2>1, <2>2
  <2> QED BY <2>3
<1> QED BY <1>2, <1>3, <1>4 DEF IInv, IdleDistinct, SlotAccounting

\* The invariant holds of every behaviour.
LEMMA Invariance == Spec => []IInv
<1>1. Init => IInv
  BY InitIInv
<1>2. IInv /\ [Next]_vars => IInv'
  BY IInvStep
<1> QED BY <1>1, <1>2, PTL DEF Spec

(***************************************************************************)
(* The pool's variables have their types, and every transport in alive or  *)
(* to be closed is of a slot of the pool.                                  *)
(***************************************************************************)
THEOREM TypeCorrect == Spec => []TypeOK
<1>1. IInv => TypeOK
  BY DEF IInv
<1> QED BY <1>1, Invariance, PTL

(***************************************************************************)
(* While the pool is open each slot is idle once or held by exactly one    *)
(* thread of the current generation; while it is closed neither.           *)
(***************************************************************************)
THEOREM SlotsAreAccounted == Spec => []SlotAccounting
BY Invariance, AccountsForSlots, PTL

(***************************************************************************)
(* Two threads between _acquire_slot and _release_slot are never at the    *)
(* same transport, whatever was closed and reopened meanwhile.             *)
(***************************************************************************)
THEOREM TransportsAreExclusive == Spec => []ExclusiveTransport
<1>1. IInv => ExclusiveTransport
  BY DEF IInv
<1> QED BY <1>1, Invariance, PTL

-----------------------------------------------------------------------------
(***************************************************************************)
(* The admission queue.                                                    *)
(***************************************************************************)
Distinct(ws) == \A i, j \in DOMAIN ws : ws[i] = ws[j] => i = j

\* A queue made from another by taking threads out.
IsPartOf(vs, ws) ==
    /\ Distinct(vs)
    /\ Len(vs) <= Len(ws)
    /\ \A i \in DOMAIN vs : \E j \in DOMAIN ws : vs[i] = ws[j]

\* The head of a queue is not in its tail.
LEMMA TailOfQueue ==
    ASSUME NEW ws \in Seq(Caller), ws # <<>>, Distinct(ws)
    PROVE  /\ IsPartOf(Tail(ws), ws)
           /\ \A i \in DOMAIN Tail(ws) : Tail(ws)[i] # Head(ws)
<1>1. /\ Tail(ws) \in Seq(Caller) /\ Len(Tail(ws)) = Len(ws) - 1 /\ Len(ws) \in Nat \ {0}
      /\ \A i \in 1 .. Len(Tail(ws)) : Tail(ws)[i] = ws[i + 1]
  BY HeadTailProperties, EmptySeq
<1>2. DOMAIN ws = 1 .. Len(ws) /\ DOMAIN Tail(ws) = 1 .. Len(ws) - 1
  BY <1>1, LenProperties
<1>3. Head(ws) = ws[1]
  BY <1>1
<1>4. \A i \in DOMAIN Tail(ws) : i + 1 \in DOMAIN ws /\ Tail(ws)[i] = ws[i + 1]
  BY <1>1, <1>2
<1>5. ASSUME NEW i \in DOMAIN Tail(ws), NEW j \in DOMAIN Tail(ws), Tail(ws)[i] = Tail(ws)[j] PROVE i = j
  <2>1. i + 1 = j + 1
    BY <1>4, <1>5 DEF Distinct
  <2> QED BY <1>2, <2>1
<1>6. ASSUME NEW i \in DOMAIN Tail(ws) PROVE Tail(ws)[i] # Head(ws)
  <2>1. 1 \in DOMAIN ws /\ i + 1 # 1
    BY <1>1, <1>2
  <2> QED BY <1>3, <1>4, <2>1 DEF Distinct
<1>7. Distinct(Tail(ws))
  BY <1>5 DEF Distinct
<1>8. \A i \in DOMAIN Tail(ws) : \E j \in DOMAIN ws : Tail(ws)[i] = ws[j]
  BY <1>4
<1> QED BY <1>1, <1>6, <1>7, <1>8 DEF IsPartOf

\* A thread that joins is in the queue once.
LEMMA AppendedQueue ==
    ASSUME NEW ws \in Seq(Caller), NEW c \in Caller, Distinct(ws), \A i \in DOMAIN ws : ws[i] # c
    PROVE  /\ Append(ws, c) \in Seq(Caller) /\ Distinct(Append(ws, c))
           /\ Len(Append(ws, c)) = Len(ws) + 1
           /\ \A i \in DOMAIN Append(ws, c) : Append(ws, c)[i] = c \/ \E j \in DOMAIN ws : Append(ws, c)[i] = ws[j]
<1>1. /\ Append(ws, c) \in Seq(Caller) /\ Len(Append(ws, c)) = Len(ws) + 1 /\ Len(ws) \in Nat
      /\ \A i \in 1 .. Len(ws) : Append(ws, c)[i] = ws[i]
      /\ Append(ws, c)[Len(ws) + 1] = c
  BY AppendProperties, LenProperties
<1>2. DOMAIN ws = 1 .. Len(ws) /\ DOMAIN Append(ws, c) = 1 .. Len(ws) + 1
  BY <1>1, LenProperties
<1>3. \A i \in DOMAIN Append(ws, c) :
         \/ i \in DOMAIN ws /\ Append(ws, c)[i] = ws[i]
         \/ i = Len(ws) + 1 /\ Append(ws, c)[i] = c
  BY <1>1, <1>2
<1>4. Distinct(Append(ws, c))
  BY <1>3 DEF Distinct
<1> QED BY <1>1, <1>3, <1>4

\* The elements of a sequence from one place to another, which may be just before it.
LEMMA PartOfSeq ==
    ASSUME NEW S, NEW s, NEW k \in Int, NEW l \in Int, k <= l + 1, \A i \in k .. l : s[i] \in S
    PROVE  /\ SubSeq(s, k, l) \in Seq(S) /\ Len(SubSeq(s, k, l)) = l - k + 1
           /\ \A i \in 1 .. l - k + 1 : SubSeq(s, k, l)[i] = s[k + i - 1]
<1>1. /\ SubSeq(s, k, l) \in Seq(S)
      /\ Len(SubSeq(s, k, l)) = IF k <= l THEN l - k + 1 ELSE 0
      /\ \A i \in 1 .. l - k + 1 : SubSeq(s, k, l)[i] = s[k + i - 1]
  BY SubSeqProperties
<1> DEFINE t == SubSeq(s, k, l)
<1> HIDE DEF t
<1>2. Len(t) = IF k <= l THEN l - k + 1 ELSE 0
  BY <1>1 DEF t
<1>3. Len(t) = l - k + 1
  <2>1. CASE k <= l
    BY <1>2, <2>1
  <2>2. CASE k = l + 1
    BY <1>2, <2>2
  <2> QED BY <2>1, <2>2
<1> QED BY <1>1, <1>3 DEF t

\* A thread that leaves is no longer in the queue.
LEMMA QueueWithout ==
    ASSUME NEW ws \in Seq(Caller), NEW c, Distinct(ws)
    PROVE  /\ IsPartOf(Without(ws, c), ws)
           /\ \A i \in DOMAIN Without(ws, c) : Without(ws, c)[i] # c
<1>1. Len(ws) \in Nat /\ DOMAIN ws = 1 .. Len(ws) /\ \A k \in 1 .. Len(ws) : ws[k] \in Caller
  BY LenProperties, ElementOfSeq
<1>2. CASE ~\E i \in DOMAIN ws : ws[i] = c
  BY <1>1, <1>2 DEF Without, IsPartOf
<1>3. CASE \E i \in DOMAIN ws : ws[i] = c
  <2> DEFINE n == CHOOSE i \in DOMAIN ws : ws[i] = c
  <2>1. n \in DOMAIN ws /\ ws[n] = c
    BY <1>3, Zenon
  <2>2. Without(ws, c) = SubSeq(ws, 1, n - 1) \o SubSeq(ws, n + 1, Len(ws))
    BY <1>3, Zenon DEF Without
  <2> HIDE DEF n
  <2>3. n \in Nat /\ 1 <= n /\ n <= Len(ws)
    BY <1>1, <2>1
  <2> DEFINE a == SubSeq(ws, 1, n - 1)
             b == SubSeq(ws, n + 1, Len(ws))
  <2>4. a \in Seq(Caller) /\ Len(a) = n - 1 /\ \A i \in 1 .. n - 1 : a[i] = ws[i]
    <3>1. 1 \in Int /\ n - 1 \in Int /\ 1 <= n - 1 + 1 /\ \A i \in 1 .. n - 1 : ws[i] \in Caller
      BY <1>1, <2>3
    <3>2. n - 1 - 1 + 1 = n - 1 /\ \A i \in 1 .. n - 1 : 1 + i - 1 = i
      BY <2>3
    <3> HIDE DEF a
    <3>3. /\ a \in Seq(Caller) /\ Len(a) = n - 1 - 1 + 1
          /\ \A i \in 1 .. n - 1 - 1 + 1 : a[i] = ws[1 + i - 1]
      BY <3>1, PartOfSeq DEF a
    <3> QED BY <3>2, <3>3
  <2>5. b \in Seq(Caller) /\ Len(b) = Len(ws) - n /\ \A i \in 1 .. Len(ws) - n : b[i] = ws[n + i]
    <3>1. n + 1 \in Int /\ Len(ws) \in Int /\ n + 1 <= Len(ws) + 1 /\ \A i \in n + 1 .. Len(ws) : ws[i] \in Caller
      BY <1>1, <2>3
    <3>2. Len(ws) - (n + 1) + 1 = Len(ws) - n /\ \A i \in 1 .. Len(ws) - n : n + 1 + i - 1 = n + i
      BY <1>1, <2>3
    <3> HIDE DEF b
    <3>3. /\ b \in Seq(Caller) /\ Len(b) = Len(ws) - (n + 1) + 1
          /\ \A i \in 1 .. Len(ws) - (n + 1) + 1 : b[i] = ws[n + 1 + i - 1]
      BY <3>1, PartOfSeq DEF b
    <3> QED BY <3>2, <3>3
  <2> HIDE DEF a, b
  <2>6. /\ a \o b \in Seq(Caller) /\ Len(a \o b) = Len(ws) - 1
        /\ \A i \in 1 .. Len(ws) - 1 : (a \o b)[i] = IF i < n THEN ws[i] ELSE ws[i + 1]
    <3>1. /\ a \o b \in Seq(Caller) /\ Len(a \o b) = Len(a) + Len(b)
          /\ \A i \in 1 .. Len(a) + Len(b) : (a \o b)[i] = IF i <= Len(a) THEN a[i] ELSE b[i - Len(a)]
      BY <2>4, <2>5, ConcatProperties
    <3>2. Len(a) + Len(b) = Len(ws) - 1
      BY <1>1, <2>3, <2>4, <2>5
    <3>3. ASSUME NEW i \in 1 .. Len(ws) - 1 PROVE (a \o b)[i] = IF i < n THEN ws[i] ELSE ws[i + 1]
      <4>1. (a \o b)[i] = IF i <= n - 1 THEN a[i] ELSE b[i - (n - 1)]
        BY <2>4, <3>1, <3>2
      <4>2. CASE i < n
        BY <1>1, <2>3, <2>4, <4>1, <4>2
      <4>3. CASE ~(i < n)
        <5>1. i - (n - 1) \in 1 .. Len(ws) - n /\ n + (i - (n - 1)) = i + 1
          BY <1>1, <2>3, <4>3
        <5>2. b[i - (n - 1)] = ws[i + 1]
          BY <2>5, <5>1
        <5> QED BY <1>1, <2>3, <4>1, <4>3, <5>2
      <4> QED BY <4>2, <4>3
    <3> QED BY <3>1, <3>2, <3>3
  <2>7. DOMAIN (a \o b) = 1 .. Len(ws) - 1
    BY <2>6, LenProperties
  <2>8. \A i \in DOMAIN (a \o b) : \E j \in DOMAIN ws : (a \o b)[i] = ws[j] /\ j # n /\ j = IF i < n THEN i ELSE i + 1
    <3>1. SUFFICES ASSUME NEW i \in 1 .. Len(ws) - 1
                   PROVE \E j \in 1 .. Len(ws) : (a \o b)[i] = ws[j] /\ j # n /\ j = IF i < n THEN i ELSE i + 1
      BY <1>1, <2>7
    <3>2. CASE i < n
      <4>1. i \in 1 .. Len(ws) /\ i # n /\ (a \o b)[i] = ws[i]
        BY <1>1, <2>3, <2>6, <3>2
      <4> QED BY <3>2, <4>1
    <3>3. CASE ~(i < n)
      <4>1. i + 1 \in 1 .. Len(ws) /\ i + 1 # n /\ (a \o b)[i] = ws[i + 1]
        BY <1>1, <2>3, <2>6, <3>3
      <4> QED BY <3>3, <4>1
    <3> QED BY <3>2, <3>3
  <2>9. ASSUME NEW i \in DOMAIN (a \o b), NEW j \in DOMAIN (a \o b), (a \o b)[i] = (a \o b)[j] PROVE i = j
    <3>1. (IF i < n THEN i ELSE i + 1) = (IF j < n THEN j ELSE j + 1)
      BY <2>8, <2>9 DEF Distinct
    <3>2. i \in 1 .. Len(ws) - 1 /\ j \in 1 .. Len(ws) - 1
      BY <2>7
    <3>3. CASE i < n
      BY <1>1, <2>3, <3>1, <3>2, <3>3
    <3>4. CASE ~(i < n)
      BY <1>1, <2>3, <3>1, <3>2, <3>4
    <3> QED BY <3>3, <3>4
  <2>10. \A i \in DOMAIN (a \o b) : (a \o b)[i] # c
    BY <2>1, <2>8 DEF Distinct
  <2>11. Without(ws, c) = a \o b
    BY <2>2 DEF a, b
  <2> QED BY <1>1, <2>6, <2>8, <2>9, <2>10, <2>11 DEF IsPartOf, Distinct
<1> QED BY <1>2, <1>3

\* Neither the queue changes, nor does a thread in it stop waiting.
Queues ==
    /\ waiters' = waiters
    /\ \A d \in Caller : pc[d] \in Waiting => pc'[d] \in Waiting

LEMMA MoveKeepsQueue ==
    ASSUME TypeOK, NEW c \in Caller, NEW s, Move(c, s), pc[c] \in Waiting => s \in Waiting, waiters' = waiters
    PROVE  Queues
BY DEF Move, TypeOK, Queues

LEMMA NotifyKeepsQueue ==
    ASSUME TypeOK, NEW c \in Caller, NEW s, NotifyAll(c, s)
    PROVE  \A d \in Caller : d # c /\ pc[d] \in Waiting => pc'[d] \in Waiting
BY DEF NotifyAll, Waiting

\* One round of the admission loop, with the thread in the queue or left out by a reopening.
LEMMA LoopQueue ==
    ASSUME TypeOK, NEW c \in Caller, NEW ws \in Seq(Caller), Distinct(ws), Len(ws) <= MaxPending,
           \A i \in DOMAIN ws : ws[i] # c => pc[ws[i]] \in Waiting,
           TakeSlot(c, ws) \/ Wait(c, ws) \/ GiveUp(c, ws)
    PROVE  NoGhostWaiter'
<1>1. \A i \in DOMAIN ws : ws[i] \in Caller
  BY LenProperties, ElementOfSeq
<1>2. Len(ws) \in Nat /\ MaxPending \in Nat
  BY LenProperties, PoolAssumption
<1>3. ASSUME NEW vs \in Seq(Caller), IsPartOf(vs, ws), waiters' = vs,
             \A i \in DOMAIN vs : vs[i] # c,
             \A d \in Caller : d # c /\ pc[d] \in Waiting => pc'[d] \in Waiting
      PROVE  NoGhostWaiter'
  <2>1. \A i \in DOMAIN vs : pc'[vs[i]] \in Waiting
    BY <1>1, <1>3 DEF IsPartOf
  <2>2. Len(vs) <= MaxPending
    BY <1>2, <1>3, LenProperties DEF IsPartOf
  <2> QED BY <1>3, <2>1, <2>2 DEF NoGhostWaiter, IsPartOf, Distinct
<1>4. CASE TakeSlot(c, ws)
  <2>1. ws # <<>> /\ Head(ws) = c /\ waiters' = Tail(ws)
    BY <1>4 DEF TakeSlot, MayTake
  <2>2. Tail(ws) \in Seq(Caller)
    BY <2>1, HeadTailProperties
  <2>3. \A d \in Caller : d # c /\ pc[d] \in Waiting => pc'[d] \in Waiting
    BY <1>4 DEF TakeSlot, Move, TypeOK
  <2> QED BY <1>3, <2>1, <2>2, <2>3, TailOfQueue
<1>5. CASE Wait(c, ws)
  <2>1. waiters' = ws /\ \A d \in Caller : pc'[d] = IF d = c THEN "asleep" ELSE pc[d]
    BY <1>5 DEF Wait, Move, TypeOK
  <2>2. \A i \in DOMAIN ws : pc'[ws[i]] \in Waiting
    BY <1>1, <2>1 DEF Waiting
  <2> QED BY <2>1, <2>2 DEF NoGhostWaiter, Distinct
<1>6. CASE GiveUp(c, ws)
  <2>1. waiters' = Without(ws, c) /\ NotifyAll(c, "idle")
    BY <1>6 DEF GiveUp
  <2> QED BY <1>3, <2>1, NotifyKeepsQueue, QueueWithout, WithoutType
<1> QED BY <1>4, <1>5, <1>6

LEMMA QueueStep == TypeOK /\ NoGhostWaiter /\ [Next]_vars => NoGhostWaiter'
<1> SUFFICES ASSUME TypeOK, NoGhostWaiter, [Next]_vars PROVE NoGhostWaiter'
  OBVIOUS
<1>0. /\ waiters \in Seq(Caller) /\ Distinct(waiters) /\ Len(waiters) \in Nat
      /\ \A i \in DOMAIN waiters : waiters[i] \in Caller /\ pc[waiters[i]] \in Waiting
  BY LenProperties, ElementOfSeq DEF TypeOK, NoGhostWaiter, Distinct
<1>1. ASSUME Queues PROVE NoGhostWaiter'
  BY <1>0, <1>1 DEF Queues, NoGhostWaiter
<1>2. ASSUME NEW c \in Caller, Admit(c) PROVE NoGhostWaiter'
  <2>1. \A i \in DOMAIN waiters : waiters[i] # c
    BY <1>0, <1>2 DEF Admit, Waiting
  <2>2. /\ Append(waiters, c) \in Seq(Caller) /\ Distinct(Append(waiters, c))
        /\ Len(Append(waiters, c)) = Len(waiters) + 1
        /\ \A i \in DOMAIN Append(waiters, c) : Append(waiters, c)[i] # c => pc[Append(waiters, c)[i]] \in Waiting
    BY <1>0, <2>1, AppendedQueue
  <2>3. Len(Append(waiters, c)) <= MaxPending
    BY <1>0, <1>2, <2>2, PoolAssumption DEF Admit
  <2>4. LET ws == Append(waiters, c) IN TakeSlot(c, ws) \/ Wait(c, ws) \/ GiveUp(c, ws)
    BY <1>2 DEF Admit
  <2> QED BY <2>2, <2>3, <2>4, LoopQueue
<1>3. ASSUME NEW c \in Caller, LookAgain(c) PROVE NoGhostWaiter'
  BY <1>0, <1>3, LoopQueue DEF LookAgain, NoGhostWaiter
<1>4. ASSUME NEW c \in Caller, NEW s, ReopenIfClosed(c, s) PROVE NoGhostWaiter'
  <2>1. CASE ~closed
    BY <1>1, <1>4, <2>1, MoveKeepsQueue DEF ReopenIfClosed, Waiting, poolVars
  <2>2. CASE closed
    <3>1. waiters' = <<>>
      BY <1>4, <2>2 DEF ReopenIfClosed
    <3> QED BY <3>1, PoolAssumption DEF NoGhostWaiter
  <2> QED BY <2>1, <2>2
<1>5. ASSUME NEW c \in Caller, Execute(c) \/ Connect(c) PROVE NoGhostWaiter'
  BY <1>4, <1>5 DEF Execute, Connect
<1>6. ASSUME NEW c \in Caller, Close(c) \/ ReleaseSlot(c) PROVE NoGhostWaiter'
  <2>1. \E s : NotifyAll(c, s)
    BY <1>6 DEF Close, ReleaseSlot
  <2>2. waiters' = waiters /\ pc[c] \notin Waiting
    BY <1>6 DEF Close, ReleaseSlot, Waiting
  <2> QED BY <1>1, <2>1, <2>2, NotifyKeepsQueue DEF Queues
<1>7. ASSUME NEW c \in Caller, Deadline(c) PROVE NoGhostWaiter'
  BY <1>1, <1>7, MoveKeepsQueue DEF Deadline, Waiting, poolVars
<1>8. ASSUME NEW c \in Caller, CloseTransport(c) PROVE NoGhostWaiter'
  BY <1>1, <1>8 DEF CloseTransport, Queues, poolVars
<1>9. ASSUME NEW c \in Caller,
             \/ Refuse(c) \/ ObtainTransport(c) \/ FailToObtain(c) \/ StartRequest(c) \/ EndRequest(c)
             \/ ConnectSlot(c) \/ ConnectFails(c) \/ Dial(c) \/ CloseReturns(c)
      PROVE  NoGhostWaiter'
  <2>1. waiters' = waiters /\ pc[c] \notin Waiting /\ \E s : Move(c, s)
    BY <1>9 DEF Refuse, ObtainTransport, FailToObtain, StartRequest, EndRequest, ConnectSlot, ConnectFails, Dial,
                CloseReturns, Waiting, poolVars
  <2> QED BY <1>1, <2>1, MoveKeepsQueue
<1>10. CASE UNCHANGED vars
  BY <1>1, <1>10 DEF vars, poolVars, Queues
<1> QED BY <1>2, <1>3, <1>5, <1>6, <1>7, <1>8, <1>9, <1>10 DEF Next, CallerStep

(***************************************************************************)
(* The queue holds threads that are really waiting, each once, and never   *)
(* more than allowed, whatever timed out, gave up or was reopened.         *)
(***************************************************************************)
THEOREM QueueHasNoGhosts == Spec => []NoGhostWaiter
<1>1. Init => NoGhostWaiter
  BY PoolAssumption DEF Init, NoGhostWaiter
<1> QED BY <1>1, QueueStep, TypeCorrect, PTL DEF Spec

-----------------------------------------------------------------------------
(***************************************************************************)
(* Waking up.  Taking a slot wakes nobody, so a thread can sleep at the    *)
(* head of the queue beside an idle slot; it must not be forgotten there.  *)
(***************************************************************************)
SomebodyHolds == \E d \in Caller : pc[d] \in Holding

HeadIsAwake == waiters # <<>> /\ pc[Head(waiters)] = "awake"

\* Whoever sleeps is woken by a release to come, or the head of the queue looks again first.
SleepersAreWoken == \A c \in Caller : pc[c] = "asleep" => ~closed /\ (SomebodyHolds \/ HeadIsAwake)

\* In an open pool without an idle slot somebody holds one.
LEMMA NoneIdleOneHolds ==
    ASSUME IInv, ~closed, idle = <<>>
    PROVE  SomebodyHolds
<1>1. 0 \in Slot
  BY PoolAssumption DEF Slot
<1>2. ~IsIdle(0)
  BY DEF IsIdle
<1> QED BY <1>1, <1>2 DEF IInv, BusyIsHeld, HoldsSlot, SomebodyHolds

\* After notify_all nobody sleeps.
LEMMA NotifiedAreWoken ==
    ASSUME NEW c \in Caller, NEW s, s # "asleep", NotifyAll(c, s)
    PROVE  SleepersAreWoken'
<1>1. \A d \in Caller : pc'[d] # "asleep"
  BY DEF NotifyAll
<1> QED BY <1>1 DEF SleepersAreWoken

\* A thread that goes on without giving back a slot, and does not fall asleep, changes nothing.
LEMMA MoveKeepsWakers ==
    ASSUME TypeOK, SleepersAreWoken, NEW c \in Caller, NEW s, Move(c, s), s # "asleep",
           closed' = closed, waiters' = waiters,
           pc[c] \in Holding => s \in Holding,
           pc[c] = "awake" => s = "awake"
    PROVE  SleepersAreWoken'
<1>1. \A d \in Caller : pc'[d] = IF d = c THEN s ELSE pc[d]
  BY DEF Move, TypeOK
<1>2. SomebodyHolds => SomebodyHolds'
  BY <1>1 DEF SomebodyHolds
<1>3. HeadIsAwake => HeadIsAwake'
  <2>1. waiters # <<>> => Head(waiters) \in Caller
    BY HeadTailProperties DEF TypeOK
  <2> QED BY <1>1, <2>1 DEF HeadIsAwake
<1> QED BY <1>1, <1>2, <1>3 DEF SleepersAreWoken

\* Whoever falls asleep is behind a head that is awake, or somebody holds a slot.
LEMMA WaitLeavesWaker ==
    ASSUME IInv, SleepersAreWoken, NEW c \in Caller, pc[c] \in {"arrived", "awake"},
           NEW ws \in Seq(Caller), Wait(c, ws),
           Head(ws) = c \/ (waiters # <<>> /\ Head(ws) = Head(waiters) /\ pc[Head(ws)] \in Waiting)
    PROVE  SleepersAreWoken'
<1>1. /\ ~closed /\ closed' = closed /\ ws # <<>> /\ waiters' = ws
      /\ ~MayTake(c, ws)
  BY DEF Wait
<1>2. \A d \in Caller : pc'[d] = IF d = c THEN "asleep" ELSE pc[d]
  BY DEF Wait, Move, IInv, TypeOK
<1>3. SomebodyHolds => SomebodyHolds'
  BY <1>2 DEF SomebodyHolds, Holding
<1>4. Head(ws) \in Caller
  BY <1>1, HeadTailProperties
<1>5. CASE Head(ws) = c
  BY <1>1, <1>3, <1>5, NoneIdleOneHolds DEF MayTake, SleepersAreWoken
<1>6. CASE Head(ws) # c /\ pc[Head(ws)] = "awake"
  <2>1. HeadIsAwake'
    BY <1>1, <1>2, <1>4, <1>6 DEF HeadIsAwake
  <2> QED BY <1>1, <2>1 DEF SleepersAreWoken
<1>7. CASE Head(ws) = Head(waiters) /\ pc[Head(ws)] = "asleep"
  <2>1. SomebodyHolds
    BY <1>4, <1>7 DEF SleepersAreWoken, HeadIsAwake
  <2> QED BY <1>1, <1>3, <2>1 DEF SleepersAreWoken
<1> QED BY <1>5, <1>6, <1>7 DEF Waiting

\* So every round of the admission loop leaves somebody who will wake the sleepers.
LEMMA LoopLeavesWaker ==
    ASSUME IInv, SleepersAreWoken, NEW c \in Caller, pc[c] \in {"arrived", "awake"},
           NEW ws \in Seq(Caller), TakeSlot(c, ws) \/ Wait(c, ws) \/ GiveUp(c, ws),
           \/ ws = <<>> \/ Head(ws) = c
           \/ waiters # <<>> /\ Head(ws) = Head(waiters) /\ pc[Head(ws)] \in Waiting
    PROVE  SleepersAreWoken'
<1>1. CASE TakeSlot(c, ws)
  <2>1. ~closed' /\ pc'[c] = "leased"
    BY <1>1 DEF TakeSlot, Move, IInv, TypeOK
  <2> QED BY <2>1 DEF SleepersAreWoken, SomebodyHolds, Holding
<1>2. CASE Wait(c, ws)
  BY <1>2, WaitLeavesWaker DEF Wait
<1>3. CASE GiveUp(c, ws)
  BY <1>3, NotifiedAreWoken DEF GiveUp
<1> QED BY <1>1, <1>2, <1>3

\* Every step does.
LEMMA WakerStep == IInv /\ NoGhostWaiter /\ SleepersAreWoken /\ [Next]_vars => SleepersAreWoken'
<1> SUFFICES ASSUME IInv, NoGhostWaiter, SleepersAreWoken, [Next]_vars PROVE SleepersAreWoken'
  OBVIOUS
<1>0. TypeOK /\ waiters \in Seq(Caller)
  BY DEF IInv, TypeOK
<1>1. waiters # <<>> => Head(waiters) \in Caller /\ pc[Head(waiters)] \in Waiting
  <2> SUFFICES ASSUME waiters # <<>> PROVE Head(waiters) \in Caller /\ pc[Head(waiters)] \in Waiting
    OBVIOUS
  <2>1. Head(waiters) = waiters[1] /\ 1 \in DOMAIN waiters /\ Head(waiters) \in Caller
    BY <1>0, HeadTailProperties, EmptySeq, LenProperties
  <2> QED BY <2>1 DEF NoGhostWaiter
<1>2. ASSUME NEW c \in Caller, Admit(c) PROVE SleepersAreWoken'
  <2>1. Append(waiters, c) \in Seq(Caller)
    BY <1>0, AppendProperties
  <2>2. Head(Append(waiters, c)) = IF waiters = <<>> THEN c ELSE Head(waiters)
    BY <1>0
  <2>3. LET ws == Append(waiters, c) IN TakeSlot(c, ws) \/ Wait(c, ws) \/ GiveUp(c, ws)
    BY <1>2 DEF Admit
  <2>4. pc[c] \in {"arrived", "awake"}
    BY <1>2 DEF Admit
  <2> QED BY <1>1, <2>1, <2>2, <2>3, <2>4, LoopLeavesWaker
<1>3. ASSUME NEW c \in Caller, LookAgain(c) PROVE SleepersAreWoken'
  BY <1>0, <1>1, <1>3, LoopLeavesWaker DEF LookAgain
<1>4. ASSUME NEW c \in Caller, Execute(c) \/ Connect(c) PROVE SleepersAreWoken'
  <2>1. PICK s \in {"arrived", "connecting"} : ReopenIfClosed(c, s)
    BY <1>4 DEF Execute, Connect
  <2>2. CASE ~closed
    <3>1. Move(c, s) /\ closed' = closed /\ waiters' = waiters /\ pc[c] = "idle"
      BY <2>1, <2>2 DEF ReopenIfClosed, poolVars
    <3> QED BY <1>0, <3>1, MoveKeepsWakers DEF Holding
  <2>3. CASE closed
    BY <2>1, <2>3, NotifiedAreWoken DEF ReopenIfClosed
  <2> QED BY <2>2, <2>3
<1>5. ASSUME NEW c \in Caller, Close(c) \/ ReleaseSlot(c) PROVE SleepersAreWoken'
  <2>1. \E s \in {"idle", "closing"} : NotifyAll(c, s)
    BY <1>5 DEF Close, ReleaseSlot
  <2> QED BY <2>1, NotifiedAreWoken
<1>6. ASSUME NEW c \in Caller, Deadline(c) PROVE SleepersAreWoken'
  <2> DEFINE s == IF pc[c] = "asleep" THEN "awake" ELSE pc[c]
  <2>1. Move(c, s) /\ closed' = closed /\ waiters' = waiters
    BY <1>6 DEF Deadline, poolVars
  <2>2. s # "asleep" /\ (pc[c] \in Holding => s \in Holding) /\ (pc[c] = "awake" => s = "awake")
    BY DEF Holding
  <2> HIDE DEF s
  <2> QED BY <1>0, <2>1, <2>2, MoveKeepsWakers
<1>7. ASSUME NEW c \in Caller,
             \/ Refuse(c) \/ ObtainTransport(c) \/ FailToObtain(c) \/ StartRequest(c) \/ EndRequest(c)
             \/ ConnectSlot(c) \/ ConnectFails(c) \/ CloseReturns(c) \/ Dial(c)
      PROVE  SleepersAreWoken'
  <2>1. /\ waiters' = waiters /\ closed' = closed /\ pc[c] # "awake"
        /\ \E s \in ThreadState \ {"asleep"} : Move(c, s) /\ (pc[c] \in Holding => s \in Holding)
    BY <1>7 DEF Refuse, ObtainTransport, FailToObtain, StartRequest, EndRequest, ConnectSlot, ConnectFails, Dial,
                CloseReturns, poolVars, ThreadState, Holding
  <2> QED BY <1>0, <2>1, MoveKeepsWakers
<1>8. CASE UNCHANGED vars \/ \E c \in Caller : CloseTransport(c)
  <2>1. UNCHANGED <<pc, waiters, closed>>
    BY <1>8 DEF CloseTransport, vars, poolVars
  <2> QED BY <2>1 DEF SleepersAreWoken, SomebodyHolds, HeadIsAwake
<1> QED BY <1>2, <1>3, <1>4, <1>5, <1>6, <1>7, <1>8 DEF Next, CallerStep

(***************************************************************************)
(* No wakeup is lost for good: nobody sleeps in a closed pool, and while a *)
(* thread sleeps, even beside an idle slot or outside a queue that a       *)
(* reopening has emptied, there is a thread whose release will wake it, or *)
(* the head of the queue is awake and will take a slot, give up or find    *)
(* such a thread.  No deadline is needed for that.                         *)
(***************************************************************************)
THEOREM NoWakeupIsLost == Spec => []SleepersAreWoken
<1>1. Init => SleepersAreWoken
  BY DEF Init, SleepersAreWoken
<1> QED BY <1>1, WakerStep, Invariance, QueueHasNoGhosts, PTL DEF Spec

-----------------------------------------------------------------------------
(***************************************************************************)
(* The refinement.                                                         *)
(***************************************************************************)
\* Every step of the pool is a step of SlotLease, or changes no lease.
LEMMA LeaseStep == IInv /\ IInv' /\ [Next]_vars => [Leases!Next]_<<~closed, [s \in Slot |-> HolderOf(s)]>>
<1> SUFFICES ASSUME IInv, IInv', [Next]_vars
             PROVE  [Leases!Next]_<<~closed, [s \in Slot |-> HolderOf(s)]>>
  OBVIOUS
<1> DEFINE h == [s \in Slot |-> HolderOf(s)]
           same(s) == Holders(s)' = Holders(s)
<1>1. \A s : Holders(s) = {} => HolderOf(s) = Nobody
  BY DEF HolderOf
<1>2. \A s : Holders(s)' = {} => HolderOf(s)' = Nobody
  BY DEF HolderOf
<1>3. \A s, c : c \in Caller /\ Holders(s) = {c} => HolderOf(s) = c
  BY DEF HolderOf
<1>4. \A s, c : c \in Caller /\ Holders(s)' = {c} => HolderOf(s)' = c
  BY DEF HolderOf
<1>5. \A s : same(s) => HolderOf(s)' = HolderOf(s)
  BY DEF HolderOf
<1>6. ASSUME Quiet PROVE UNCHANGED <<~closed, h>>
  <2>1. \A s : same(s)
    BY <1>6 DEF Quiet, Keeps, Holders
  <2> QED BY <1>5, <1>6, <2>1 DEF Quiet
<1>7. ASSUME NEW c \in Caller, Takes(c) PROVE Leases!Next
  <2>0. Head(idle) \in Slot /\ Head(idle) = idle[1] /\ 1 \in DOMAIN idle
    BY <1>7, HeadTailProperties, LenProperties, EmptySeq DEF Takes, IInv, TypeOK
  <2> PICK s0 \in Slot : s0 = Head(idle)
    BY <2>0
  <2>1. s0 \in Slot /\ s0 = idle[1] /\ 1 \in DOMAIN idle /\ s0 = Head(idle)
    BY <2>0
  <2>2. Holders(s0) = {}
    BY <2>1, AccountsForSlots DEF SlotAccounting, IsIdle, IInv, IdleIsFree, HoldsSlot, Holders
  <2>3. c \in Holders(s0)'
    BY <1>7, <2>1 DEF Takes, Holders
  <2>4. Holders(s0)' = {c}
    BY <1>7, <2>2, <2>3 DEF Takes, OthersKeep, Keeps, Holders
  <2>5. \A s \in Slot \ {s0} : same(s)
    BY <1>7 DEF Takes, OthersKeep, Keeps, Holders
  <2>6. h[s0] = Nobody
    BY <1>1, <2>1, <2>2
  <2>7. h' = [h EXCEPT ![s0] = c]
    BY <1>4, <1>5, <2>1, <2>4, <2>5
  <2>8. Leases!Lease(c, s0)
    BY <1>7, <2>1, <2>6, <2>7 DEF Takes, Leases!Lease
  <2> QED BY <2>1, <2>8 DEF Leases!Next
<1>8. ASSUME NEW c \in Caller, Releases(c) PROVE Leases!Next \/ UNCHANGED <<~closed, h>>
  <2>0. pc[c] \in Holding /\ at[c] = <<at[c][1], at[c][2]>> /\ at[c][1] \in Slot
    BY <1>8, KeptSlotIsOld DEF Releases
  <2> PICK s0 \in Slot : s0 = at[c][1]
    BY <2>0
  <2>1. pc[c] \in Holding /\ at[c] = <<s0, at[c][2]>> /\ s0 \in Slot
    BY <2>0
  <2>2. CASE at[c][2] = generation
    <3>1. Holders(s0) = {c}
      BY <2>1, <2>2 DEF Holders, IInv, ExclusiveTransport
    <3>2. Holders(s0)' = {}
      BY <1>8, <3>1 DEF Releases, OthersKeep, Keeps, Holders
    <3>3. \A s \in Slot \ {s0} : same(s)
      BY <1>8, <2>1 DEF Releases, OthersKeep, Keeps, Holders
    <3>4. h[s0] = c
      BY <1>3, <2>1, <3>1
    <3>5. h' = [h EXCEPT ![s0] = Nobody]
      BY <1>2, <1>5, <2>1, <3>2, <3>3
    <3>6. Leases!GiveBack(c, s0)
      BY <1>8, <3>4, <3>5 DEF Releases, Leases!GiveBack
    <3> QED BY <2>1, <3>6 DEF Leases!Next
  <2>3. CASE at[c][2] # generation
    <3>1. \A s : same(s)
      BY <1>8, <2>1, <2>3 DEF Releases, OthersKeep, Keeps, Holders
    <3> QED BY <1>5, <1>8, <3>1 DEF Releases
  <2> QED BY <2>2, <2>3
<1>9. ASSUME Closes PROVE Leases!Next
  <2>1. SlotAccounting'
    BY AccountsForSlots, PTL
  <2>2. \A s \in Slot : Holders(s)' = {}
    BY <1>9, <2>1 DEF Closes, SlotAccounting
  <2>3. h' = [s \in Slot |-> Nobody]
    BY <1>2, <2>2
  <2>4. Leases!Revoke
    BY <1>9, <2>3 DEF Closes, Leases!Revoke, Leases!AllFree
  <2> QED BY <2>4 DEF Leases!Next
<1>10. ASSUME Reopens PROVE Leases!Next
  <2>1. \A s \in Slot : Holders(s) = {}
    BY <1>10, AccountsForSlots DEF Reopens, SlotAccounting
  <2>2. \A s \in Slot : Holders(s)' = {}
    <3>1. SlotAccounting'
      BY AccountsForSlots, PTL
    <3>2. \A s \in Slot : IsIdle(s)'
      BY <1>10, FreshSlotsType DEF Reopens, IsIdle
    <3> QED BY <1>10, <3>1, <3>2 DEF Reopens, SlotAccounting
  <2>3. h' = h
    BY <1>1, <1>2, <2>1, <2>2
  <2>4. Leases!Reopen
    BY <1>10, <2>3 DEF Reopens, Leases!Reopen
  <2> QED BY <2>4 DEF Leases!Next
<1> QED
  BY <1>6, <1>7, <1>8, <1>9, <1>10, StepHasForm, Zenon DEF StepForm, IInv

(***************************************************************************)
(* The pool implements SlotLease: whatever its threads do, what they see   *)
(* of the leases is what the abstract pool allows.                         *)
(***************************************************************************)
THEOREM PoolImplementsLeases == Spec => LeaseSpec
<1>1. Init => Leases!Init
  <2> SUFFICES ASSUME Init PROVE Leases!Init
    OBVIOUS
  <2>1. \A s : Holders(s) = {}
    BY DEF Init, Holders, Holding
  <2>2. \A s : HolderOf(s) = Nobody
    BY <2>1 DEF HolderOf
  <2> QED BY <2>2 DEF Init, Leases!Init, Leases!AllFree
<1>2. IInv /\ IInv' /\ [Next]_vars => [Leases!Next]_<<~closed, [s \in Slot |-> HolderOf(s)]>>
  BY LeaseStep
<1> QED BY <1>1, <1>2, Invariance, PTL DEF Spec, LeaseSpec, Leases!Spec
=============================================================================
