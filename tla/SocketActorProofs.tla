-------------------------- MODULE SocketActorProofs --------------------------
(***************************************************************************)
(* Theorems about SocketActor for any sets of callers, actors, tickets and *)
(* connections.  Types and frames are proved together: that an answer is   *)
(* typed as a ticket's needs to know whose frame has been matched.         *)
(***************************************************************************)
EXTENDS SocketActor, TLAPS

-----------------------------------------------------------------------------
(***************************************************************************)
(* The inductive invariant.                                                *)
(***************************************************************************)
Running == {"ensuring", "connecting", "ready", "reading"}

\* TypeOK by the groups of variables that change together.
LifeTypes ==
    /\ thread \in Actor \cup {None}
    /\ latest \in Actor
    /\ mailbox \in [Actor -> Seq(Ticket \cup {StopActor})]
    /\ \A a \in Actor : Len(mailbox[a]) <= MailboxSize
    /\ stopped \subseteq Actor

ActorTypes ==
    /\ apc \in [Actor -> ActorState]
    /\ task \in [Actor -> AnyTicket \cup {None}]
    /\ again \subseteq Actor
    /\ awaited \in [Actor -> Request \cup {None}]

WireTypes ==
    /\ socket \in Connection \cup {NoConnection}
    /\ handshaken \in BOOLEAN
    /\ open \subseteq Connection
    /\ gone \subseteq open
    /\ greeted \subseteq open
    /\ pending \in [Connection -> SUBSET Request]
    /\ inbox \in [Connection -> Seq(Request)]

CallerTypes ==
    /\ cpc \in [Caller -> CallerState]
    /\ mine \in [Caller -> Ticket \cup {None}]
    /\ ref \in [Caller -> Actor \cup {None}]

WishTypes ==
    /\ late \subseteq AnyTicket
    /\ connects \subseteq Ticket
    /\ cancelled \subseteq Ticket

ResultTypes ==
    /\ outcome \in [Ticket -> Outcome]
    /\ answer \in [Ticket -> Ticket \cup {None}]

\* A caller that waits has a ticket and an actor; one that joins has an actor.
Callers ==
    \A c \in Caller :
        /\ cpc[c] \in {"admitting", "waiting"} => mine[c] \in Ticket
        /\ cpc[c] # "idle" => ref[c] \in Actor

\* An actor in the middle of a ticket has one.
Tasks == \A a \in Actor : apc[a] \in Running => task[a] \in AnyTicket

\* The frames on their way on connection k.
Traffic(k) == pending[k] \cup {inbox[k][i] : i \in DOMAIN inbox[k]}

(***************************************************************************)
(* Every frame carries a message id that was given out, an actor reads for *)
(* a frame of its own ticket, and a frame with the id it reads for is that *)
(* very frame.                                                             *)
(***************************************************************************)
Frames ==
    /\ \A a \in Actor : apc[a] = "reading" =>
          /\ awaited[a] \in Request
          /\ awaited[a].id < msgId
          /\ awaited[a].for = task[a]
    /\ \A k \in Connection : \A f \in Traffic(k) : f.id < msgId
    /\ \A k \in Connection : \A f \in Traffic(k) : \A a \in Actor :
          apc[a] = "reading" /\ f.id = awaited[a].id => f = awaited[a]

Base == TypeOK /\ Callers /\ Tasks /\ Frames

LEMMA TypesByGroup ==
    TypeOK <=> /\ LifeTypes /\ ActorTypes /\ WireTypes /\ CallerTypes /\ WishTypes /\ ResultTypes
               /\ broken \in BOOLEAN /\ msgId \in Nat
BY Zenon DEF TypeOK, LifeTypes, ActorTypes, WireTypes, CallerTypes, WishTypes, ResultTypes

LEMMA TypesByGroupNext ==
    TypeOK' <=> /\ LifeTypes' /\ ActorTypes' /\ WireTypes' /\ CallerTypes' /\ WishTypes'
                /\ ResultTypes' /\ broken' \in BOOLEAN /\ msgId' \in Nat
BY Zenon DEF TypeOK, LifeTypes, ActorTypes, WireTypes, CallerTypes, WishTypes, ResultTypes

LEMMA Stay ==
    /\ UNCHANGED lifeVars /\ LifeTypes => LifeTypes'
    /\ UNCHANGED actorVars /\ ActorTypes => ActorTypes'
    /\ UNCHANGED <<socket, handshaken, wireVars>> /\ WireTypes => WireTypes'
    /\ UNCHANGED callerVars /\ CallerTypes => CallerTypes'
    /\ UNCHANGED wishVars /\ WishTypes => WishTypes'
    /\ UNCHANGED resultVars /\ ResultTypes => ResultTypes'
BY DEF LifeTypes, ActorTypes, WireTypes, CallerTypes, WishTypes, ResultTypes, lifeVars,
       actorVars, wireVars, callerVars, wishVars, resultVars

-----------------------------------------------------------------------------
(***************************************************************************)
(* What the operators shared by the actions do to each group.              *)
(***************************************************************************)
\* What the actor leaves unread: everything, or all but the first frame of its connection.
Unread(box) ==
    \/ box = inbox
    \/ /\ socket \in Connection
       /\ inbox[socket] # <<>>
       /\ box = [inbox EXCEPT ![socket] = Tail(@)]

LEMMA UnreadType ==
    ASSUME WireTypes, NEW box, Unread(box)
    PROVE  /\ box \in [Connection -> Seq(Request)]
           /\ \A k \in Connection : \A i \in DOMAIN box[k] :
                 \E j \in DOMAIN inbox[k] : box[k][i] = inbox[k][j]
<1>1. CASE box = inbox
  BY <1>1 DEF WireTypes
<1>2. CASE socket \in Connection /\ inbox[socket] # <<>>
           /\ box = [inbox EXCEPT ![socket] = Tail(@)]
  <2>1. inbox[socket] \in Seq(Request) /\ inbox[socket] # <<>>
    BY <1>2 DEF WireTypes
  <2>2. Tail(inbox[socket]) \in Seq(Request)
    BY <2>1
  <2>3. \A i \in DOMAIN Tail(inbox[socket]) :
           i + 1 \in DOMAIN inbox[socket] /\ Tail(inbox[socket])[i] = inbox[socket][i + 1]
    BY <2>1
  <2>. QED BY <1>2, <2>2, <2>3 DEF WireTypes
<1>. QED BY <1>1, <1>2 DEF Unread

\* What a step may do to the socket and the wire, without sending, connecting or receiving.
Settled(box) == KeepSocket(box) \/ CloseSocketActor(box)

LEMMA SettledWire ==
    ASSUME WireTypes, NEW box, Unread(box), Settled(box)
    PROVE  /\ WireTypes'
           /\ \A k \in Connection : Traffic(k)' \subseteq Traffic(k)
<1>1. /\ box \in [Connection -> Seq(Request)]
      /\ \A k \in Connection : \A i \in DOMAIN box[k] :
            \E j \in DOMAIN inbox[k] : box[k][i] = inbox[k][j]
  BY UnreadType
<1>2. CASE KeepSocket(box)
  BY <1>1, <1>2 DEF KeepSocket, WireTypes, Traffic
<1>3. CASE CloseSocketActor(box)
  <2>1. CASE socket = NoConnection
    BY <1>1, <1>3, <2>1 DEF CloseSocketActor, WireTypes, Traffic
  <2>2. CASE socket # NoConnection
    <3>1. /\ socket' = NoConnection /\ handshaken' = FALSE
          /\ open' = open \ {socket} /\ gone' = gone \ {socket} /\ greeted' = greeted \ {socket}
          /\ pending' = [pending EXCEPT ![socket] = {}]
          /\ inbox' = [box EXCEPT ![socket] = <<>>]
      BY <1>3, <2>2 DEF CloseSocketActor
    <3>2. WireTypes'
      <4>1. inbox' \in [Connection -> Seq(Request)]
        <5>1. <<>> \in Seq(Request)
          OBVIOUS
        <5>. QED BY <1>1, <3>1, <5>1
      <4>2. pending' \in [Connection -> SUBSET Request]
        BY <3>1 DEF WireTypes
      <4>. QED BY <3>1, <4>1, <4>2 DEF WireTypes
    <3>3. ASSUME NEW k \in Connection PROVE Traffic(k)' \subseteq Traffic(k)
      <4>1. CASE k = socket
        BY <1>1, <3>1, <4>1 DEF WireTypes, Traffic
      <4>2. CASE k # socket
        BY <1>1, <3>1, <4>2 DEF WireTypes, Traffic
      <4>. QED BY <4>1, <4>2
    <3>. QED BY <3>2, <3>3
  <2>. QED BY <2>1, <2>2
<1>. QED BY <1>2, <1>3 DEF Settled

LEMMA FinishTypes ==
    ASSUME ResultTypes, NEW t, NEW o \in {"ok", "error"}, NEW whose, FinishTicket(t, o, whose),
           t \in Ticket => whose \in Ticket \cup {None}
    PROVE  ResultTypes'
BY DEF FinishTicket, ResultTypes, Outcome

\* A step that makes no actor start to read keeps the actors in order.
Moved ==
    /\ ActorTypes'
    /\ Tasks'
    /\ \A a \in Actor : apc'[a] = "reading" =>
          apc[a] = "reading" /\ awaited'[a] = awaited[a] /\ task'[a] = task[a]

LEMMA MoveTypes ==
    ASSUME ActorTypes, Tasks, NEW a \in Actor, NEW s \in ActorState \ {"reading"}, MoveActor(a, s),
           task' = task, again' \subseteq Actor,
           awaited' = awaited \/ awaited' = [awaited EXCEPT ![a] = None],
           s \in Running => apc[a] \in Running
    PROVE  Moved
BY DEF ActorTypes, Tasks, MoveActor, Moved

LEMMA RunTypes ==
    ASSUME ActorTypes, Tasks, NEW a \in Actor, NEW t \in AnyTicket, Run(a, t), awaited' = awaited
    PROVE  Moved
BY DEF ActorTypes, Tasks, MoveActor, Run, ActorState, Moved

LEMMA EndTaskTypes ==
    ASSUME ActorTypes, Tasks, NEW a \in Actor, EndTask(a)
    PROVE  Moved
BY DEF ActorTypes, Tasks, EndTask, MoveActor, ActorState, Running, Moved

LEMMA StillTypes ==
    ASSUME ActorTypes, Tasks, UNCHANGED actorVars
    PROVE  Moved
BY DEF ActorTypes, Tasks, actorVars, Moved

\* An attempt that raises leaves the types alone.
LEMMA RaiseTypes ==
    ASSUME SocketAssumption, TypeOK, Tasks, NEW a \in Actor, apc[a] \in Running,
           NEW exc, NEW box, Unread(box), Raise(a, exc, box)
    PROVE  Moved /\ ResultTypes' /\ broken' \in BOOLEAN /\ Settled(box)
<1>. USE DEF SocketAssumption
<1>1. Settled(box)
  BY DEF Raise, Settled
<1>2. CASE Retried(a, exc)
  <2>1. /\ again' = again \cup {a} /\ MoveActor(a, "ensuring")
        /\ awaited' = [awaited EXCEPT ![a] = None] /\ UNCHANGED <<broken, task, resultVars>>
    BY <1>2 DEF Raise
  <2>2. again' \subseteq Actor
    BY <2>1, TypesByGroup DEF ActorTypes
  <2>3. Moved
    BY <2>1, <2>2, MoveTypes, TypesByGroup DEF ActorState
  <2>. QED BY <1>1, <2>1, <2>3, Stay, TypesByGroup DEF resultVars
<1>3. CASE ~Retried(a, exc)
  <2>1. /\ broken' = (broken \/ task[a] = Heartbeat \/ (exc = "other" /\ a \notin again))
        /\ FinishTicket(task[a], "error", None) /\ EndTask(a)
    BY <1>3 DEF Raise
  <2>. QED BY <1>1, <2>1, EndTaskTypes, FinishTypes, TypesByGroup
<1>. QED BY <1>2, <1>3

LEMMA SucceedTypes ==
    ASSUME TypeOK, Tasks, NEW a \in Actor, NEW whose, Succeed(a, whose),
           task[a] \in Ticket => whose \in Ticket \cup {None}
    PROVE  Moved /\ ResultTypes'
BY FinishTypes, EndTaskTypes, TypesByGroup DEF Succeed

-----------------------------------------------------------------------------
(***************************************************************************)
(* Frames.                                                                 *)
(***************************************************************************)
LEMMA TrafficTypes ==
    ASSUME WireTypes
    PROVE  \A k \in Connection : \A f \in Traffic(k) : f \in Request /\ f.id \in Nat
<1>1. \A f \in Request : f.id \in Nat
  BY DEF Request
<1>2. ASSUME NEW k \in Connection, NEW f \in Traffic(k) PROVE f \in Request
  <2>1. pending[k] \subseteq Request /\ inbox[k] \in Seq(Request)
    BY DEF WireTypes
  <2>2. \A i \in DOMAIN inbox[k] : inbox[k][i] \in Request
    BY <2>1
  <2>. QED BY <2>1, <2>2 DEF Traffic
<1>. QED BY <1>1, <1>2

\* Nothing new is on the wire, and nobody starts to read.
Quiet ==
    /\ Moved
    /\ \A k \in Connection : Traffic(k)' \subseteq Traffic(k)

LEMMA QuietFrames ==
    ASSUME TypeOK, Frames, Quiet, msgId' \in Nat, msgId <= msgId'
    PROVE  Frames'
<1>1. \A k \in Connection : \A f \in Traffic(k) : f.id \in Nat
  BY TrafficTypes, TypesByGroup
<1>2. msgId \in Nat
  BY TypesByGroup
<1>3. \A r \in Request : r.id \in Nat
  BY DEF Request
<1>4. ASSUME NEW a \in Actor, apc'[a] = "reading"
      PROVE  awaited'[a] \in Request /\ awaited'[a].id < msgId' /\ awaited'[a].for = task'[a]
  BY <1>2, <1>3, <1>4 DEF Frames, Quiet, Moved
<1>5. ASSUME NEW k \in Connection, NEW f \in Traffic(k)'
      PROVE  f.id < msgId'
  BY <1>1, <1>2 DEF Frames, Quiet
<1>6. ASSUME NEW k \in Connection, NEW f \in Traffic(k)', NEW a \in Actor,
             apc'[a] = "reading", f.id = awaited'[a].id
      PROVE  f = awaited'[a]
  BY <1>6 DEF Frames, Quiet, Moved
<1>. QED BY <1>4, <1>5, <1>6 DEF Frames

\* The client side of Base, when the step sends nothing.
LEMMA QuietBase ==
    ASSUME Base, Quiet, msgId' \in Nat, msgId <= msgId', LifeTypes', WireTypes', CallerTypes',
           WishTypes', ResultTypes', broken' \in BOOLEAN, Callers'
    PROVE  Base'
BY QuietFrames, TypesByGroupNext DEF Base, Quiet, Moved

LEMMA WireStays ==
    UNCHANGED <<pending, inbox>> => \A k \in Connection : Traffic(k)' \subseteq Traffic(k)
BY DEF Traffic

LEMMA CallersStay ==
    UNCHANGED callerVars /\ Callers => Callers'
BY DEF Callers, callerVars

-----------------------------------------------------------------------------
(***************************************************************************)
(* Base is inductive.                                                      *)
(***************************************************************************)
LEMMA InitBase == ASSUME SocketAssumption, Init PROVE Base
<1>1. TypeOK
  <2>1. LifeTypes
    BY DEF Init, LifeTypes, SocketAssumption, MailboxSize
  <2>2. ActorTypes
    BY DEF Init, ActorTypes, ActorState
  <2>3. WireTypes
    <3>1. <<>> \in Seq(Request)
      OBVIOUS
    <3>. QED BY <3>1 DEF Init, WireTypes
  <2>. QED BY <2>1, <2>2, <2>3, TypesByGroup
       DEF Init, CallerTypes, CallerState, WishTypes, ResultTypes, Outcome
<1>2. Callers /\ Tasks /\ Frames
  BY DEF Init, Callers, Tasks, Frames, Traffic, Running
<1>. QED BY <1>1, <1>2 DEF Base

\* The caller goes back to idle.
LEMMA ReturnTypes ==
    ASSUME CallerTypes, Callers, NEW c \in Caller, Return(c)
    PROVE  CallerTypes' /\ Callers'
BY DEF CallerTypes, Callers, CallerState, Return

LEMMA GiveUpBase ==
    ASSUME Base, NEW c \in Caller, mine[c] \in Ticket, GiveUp(c)
    PROVE  Base'
<1>1. Quiet
  BY StillTypes, WireStays, TypesByGroup DEF Base, GiveUp, Quiet, wireVars
<1>2. WishTypes'
  BY TypesByGroup DEF Base, GiveUp, WishTypes
<1>3. CallerTypes' /\ Callers'
  BY ReturnTypes, TypesByGroup DEF Base, GiveUp
<1>. QED BY <1>1, <1>2, <1>3, QuietBase, Stay, TypesByGroup
     DEF Base, GiveUp, socketVars, resultVars

LEMMA CallerStepBase ==
    ASSUME SocketAssumption, Base, NEW c \in Caller, CallerStep(c)
    PROVE  Base'
<1>. USE DEF Base
<1>1. CASE PutTicket(c)
  <2>. USE <1>1 DEF PutTicket
  <2>1. Quiet
    BY StillTypes, WireStays, TypesByGroup DEF Quiet, wireVars
  <2>2. mine[c] \in Ticket /\ ref[c] \in Actor
    BY DEF Callers
  <2>3. LifeTypes'
    <3>1. mailbox[ref[c]] \in Seq(Ticket \cup {StopActor})
      BY <2>2, TypesByGroup DEF LifeTypes
    <3>2. /\ Append(mailbox[ref[c]], mine[c]) \in Seq(Ticket \cup {StopActor})
          /\ Len(Append(mailbox[ref[c]], mine[c])) <= MailboxSize
      BY <2>2, <3>1 DEF MailboxSize
    <3>. QED BY <2>2, <3>2, TypesByGroup DEF LifeTypes
  <2>4. CallerTypes' /\ Callers'
    BY <2>2, TypesByGroup DEF CallerTypes, CallerState, Callers
  <2>. QED BY <2>1, <2>3, <2>4, QuietBase, Stay, TypesByGroup
       DEF socketVars, wishVars, resultVars, ticketVars
<1>2. CASE PutTimesOut(c)
  BY <1>2, GiveUpBase DEF PutTimesOut, Callers
<1>3. CASE WaitReturns(c)
  <2>1. Quiet
    BY <1>3, StillTypes, WireStays, TypesByGroup DEF WaitReturns, Quiet, wireVars
  <2>2. CallerTypes' /\ Callers'
    BY <1>3, ReturnTypes, TypesByGroup DEF WaitReturns
  <2>. QED BY <1>3, <2>1, <2>2, QuietBase, Stay, TypesByGroup
       DEF WaitReturns, socketVars, wishVars, resultVars, ticketVars
<1>4. CASE WaitTimesOut(c)
  BY <1>4, GiveUpBase DEF WaitTimesOut, Callers
<1>5. CASE Join(c)
  <2>. USE <1>5 DEF Join
  <2>1. Quiet
    BY StillTypes, WireStays, TypesByGroup DEF Quiet, wireVars
  <2>2. CallerTypes' /\ Callers'
    BY TypesByGroup DEF CallerTypes, CallerState, Callers
  <2>. QED BY <2>1, <2>2, QuietBase, Stay, TypesByGroup
       DEF socketVars, wishVars, resultVars, ticketVars
<1>6. CASE CloseReturns(c)
  <2>. USE <1>6 DEF CloseReturns
  <2>1. Quiet
    BY StillTypes, WireStays, TypesByGroup DEF Quiet, wireVars
  <2>2. CallerTypes' /\ Callers'
    BY ReturnTypes, TypesByGroup
  <2>3. LifeTypes'
    BY TypesByGroup DEF LifeTypes
  <2>. QED BY <2>1, <2>2, <2>3, QuietBase, Stay, TypesByGroup
       DEF socketVars, wishVars, resultVars, ticketVars
<1>. QED BY <1>1, <1>2, <1>3, <1>4, <1>5, <1>6 DEF CallerStep

LEMMA CloseBase ==
    ASSUME SocketAssumption, Base, NEW c \in Caller, Close(c)
    PROVE  Base'
<1>. USE DEF Base, Close
<1>1. Quiet
  BY StillTypes, WireStays, TypesByGroup DEF Quiet, wireVars
<1>2. LifeTypes'
  <2>1. latest \in Actor /\ mailbox[latest] \in Seq(Ticket \cup {StopActor})
        /\ Len(mailbox[latest]) <= MailboxSize
    BY TypesByGroup DEF LifeTypes
  <2>2. /\ WithStop(mailbox[latest]) \in Seq(Ticket \cup {StopActor})
        /\ Len(WithStop(mailbox[latest])) <= MailboxSize
    BY <2>1 DEF WithStop, MailboxSize
  <2>. QED BY <2>1, <2>2, TypesByGroup DEF LifeTypes
<1>3. thread \in Actor
  BY TypesByGroup DEF LifeTypes
<1>4. CallerTypes' /\ Callers'
  BY <1>3, TypesByGroup DEF CallerTypes, CallerState, Callers
<1>. QED BY <1>1, <1>2, <1>4, QuietBase, Stay, TypesByGroup
     DEF socketVars, wishVars, resultVars, ticketVars

LEMMA SubmitBase ==
    ASSUME SocketAssumption, Base, NEW c \in Caller, NEW t \in Ticket, SubmitTicket(c, t)
    PROVE  Base'
<1>. USE DEF Base, SubmitTicket
<1>1. LifeTypes' /\ latest' \in Actor
  BY TypesByGroup DEF LifeTypes, StartActor
<1>2. Moved
  <2>1. CASE \E a \in Actor : StartActor(a)
    <3>1. PICK a \in Actor : StartActor(a)
      BY <2>1
    <3>2. again' \subseteq Actor
      BY TypesByGroup DEF ActorTypes
    <3>. QED BY <3>1, <3>2, MoveTypes, TypesByGroup
         DEF StartActor, MoveActor, ActorState, Running
  <2>2. CASE UNCHANGED <<thread, latest, apc>>
    BY <2>2, StillTypes, TypesByGroup DEF actorVars
  <2>. QED BY <2>1, <2>2
<1>3. Quiet
  BY <1>2, WireStays DEF Quiet, wireVars
<1>4. CallerTypes' /\ Callers'
  BY <1>1, TypesByGroup DEF CallerTypes, CallerState, Callers, callerVars
<1>5. WishTypes' /\ ResultTypes'
  BY TypesByGroup DEF WishTypes, ResultTypes, Outcome
<1>. QED BY <1>1, <1>3, <1>4, <1>5, QuietBase, Stay, TypesByGroup DEF socketVars

\* The steps outside the client.
LEMMA OutsideBase ==
    ASSUME SocketAssumption, Base,
           \/ \E t \in AnyTicket : Deadline(t)
           \/ \E k \in Connection : Answer(k) \/ Break(k)
    PROVE  Base'
<1>. USE DEF Base
<1>1. ASSUME NEW t \in AnyTicket, Deadline(t) PROVE Base'
  <2>1. Quiet
    BY <1>1, StillTypes, WireStays, TypesByGroup DEF Deadline, Quiet, wireVars
  <2>2. WishTypes'
    BY <1>1, TypesByGroup DEF Deadline, WishTypes
  <2>. QED BY <1>1, <2>1, <2>2, QuietBase, Stay, CallersStay, TypesByGroup
       DEF Deadline, socketVars, resultVars
<1>2. ASSUME NEW k \in Connection, Answer(k) PROVE Base'
  <2>. USE <1>2 DEF Answer
  <2>1. PICK q \in pending[k] :
           /\ pending' = [pending EXCEPT ![k] = @ \ {q}]
           /\ inbox' = [inbox EXCEPT ![k] = Append(@, q)]
           /\ greeted' = IF q.what = "handshake" THEN greeted \cup {k} ELSE greeted
    OBVIOUS
  <2>2. q \in Request /\ inbox[k] \in Seq(Request)
    BY TypesByGroup DEF WireTypes
  <2>3. /\ Append(inbox[k], q) \in Seq(Request)
        /\ \A i \in DOMAIN Append(inbox[k], q) :
              \/ Append(inbox[k], q)[i] = q
              \/ i \in DOMAIN inbox[k] /\ Append(inbox[k], q)[i] = inbox[k][i]
    BY <2>2
  <2>4. WireTypes'
    BY <2>1, <2>3, TypesByGroup DEF WireTypes, socketVars
  <2>5. ASSUME NEW j \in Connection PROVE Traffic(j)' \subseteq Traffic(j)
    <3>1. CASE j = k
      BY <2>1, <2>3, <3>1, TypesByGroup DEF WireTypes, Traffic
    <3>2. CASE j # k
      BY <2>1, <3>2, TypesByGroup DEF WireTypes, Traffic
    <3>. QED BY <3>1, <3>2
  <2>6. Quiet
    BY <2>5, StillTypes, TypesByGroup DEF Quiet
  <2>. QED BY <2>4, <2>6, QuietBase, Stay, CallersStay, TypesByGroup
       DEF socketVars, wishVars, resultVars, ticketVars
<1>3. ASSUME NEW k \in Connection, Break(k) PROVE Base'
  <2>. USE <1>3 DEF Break
  <2>1. WireTypes'
    <3>1. <<>> \in Seq(Request)
      OBVIOUS
    <3>2. inbox' \in [Connection -> Seq(Request)]
      BY <3>1, TypesByGroup DEF WireTypes
    <3>. QED BY <3>2, TypesByGroup DEF WireTypes, socketVars
  <2>2. ASSUME NEW j \in Connection PROVE Traffic(j)' \subseteq Traffic(j)
    <3>1. CASE j = k
      BY <3>1, TypesByGroup DEF WireTypes, Traffic
    <3>2. CASE j # k
      BY <3>2, TypesByGroup DEF WireTypes, Traffic
    <3>. QED BY <3>1, <3>2
  <2>3. Quiet
    BY <2>2, StillTypes, TypesByGroup DEF Quiet
  <2>. QED BY <2>1, <2>3, QuietBase, Stay, CallersStay, TypesByGroup
       DEF socketVars, wishVars, resultVars, ticketVars
<1>. QED BY <1>1, <1>2, <1>3

\* The loop of the actor, without the ticket it runs.
LEMMA LoopBase ==
    ASSUME SocketAssumption, Base, NEW a \in Actor,
           \/ LoopHead(a) \/ TakeTicket(a) \/ PollTimesOut(a) \/ BeginHeartbeat(a)
           \/ CloseSocket(a) \/ FailMailbox(a)
    PROVE  Base'
<1>. USE DEF Base
<1>0. again \subseteq Actor
  BY TypesByGroup DEF ActorTypes
<1>1. ASSUME NEW s \in {"head", "polling", "closing"}, StepActor(a, s) PROVE Base'
  <2>1. Moved
    BY <1>0, <1>1, MoveTypes, TypesByGroup DEF StepActor, ActorState, Running
  <2>2. Quiet
    BY <1>1, <2>1, WireStays DEF StepActor, Quiet, wireVars
  <2>. QED BY <1>1, <2>2, QuietBase, Stay, CallersStay, TypesByGroup
       DEF StepActor, socketVars, wishVars, resultVars, ticketVars
<1>2. CASE LoopHead(a) \/ PollTimesOut(a)
  BY <1>1, <1>2 DEF LoopHead, PollTimesOut
<1>3. CASE TakeTicket(a)
  <2>. USE <1>3 DEF TakeTicket
  <2>. DEFINE t == Head(mailbox[a])
  <2>1. /\ mailbox[a] \in Seq(Ticket \cup {StopActor}) /\ mailbox[a] # <<>>
        /\ Len(mailbox[a]) <= MailboxSize
    BY TypesByGroup DEF LifeTypes
  <2>2. /\ t \in Ticket \cup {StopActor}
        /\ Tail(mailbox[a]) \in Seq(Ticket \cup {StopActor})
        /\ Len(Tail(mailbox[a])) <= MailboxSize
    BY <2>1 DEF MailboxSize
  <2>3. LifeTypes'
    BY <2>2, TypesByGroup DEF LifeTypes
  <2>4. Moved /\ ResultTypes'
    <3>1. CASE MoveActor(a, "closing") /\ UNCHANGED <<task, again, resultVars>>
      BY <1>0, <3>1, MoveTypes, Stay, TypesByGroup DEF ActorState, Running
    <3>2. CASE /\ FinishTicket(t, "error", None) /\ MoveActor(a, "head")
               /\ UNCHANGED <<task, again>>
      BY <1>0, <3>2, MoveTypes, FinishTypes, TypesByGroup DEF ActorState, Running
    <3>3. CASE t # StopActor /\ Run(a, t) /\ UNCHANGED resultVars
      BY <2>2, <3>3, RunTypes, Stay, TypesByGroup DEF AnyTicket
    <3>. QED BY <3>1, <3>2, <3>3
  <2>5. Quiet
    BY <2>4, WireStays DEF Quiet, wireVars
  <2>. QED BY <2>3, <2>4, <2>5, QuietBase, Stay, CallersStay, TypesByGroup DEF socketVars
<1>4. CASE BeginHeartbeat(a)
  <2>. USE <1>4 DEF BeginHeartbeat
  <2>1. Moved
    BY RunTypes, TypesByGroup DEF AnyTicket
  <2>2. Quiet
    BY <2>1, WireStays DEF Quiet, wireVars
  <2>3. WishTypes'
    BY TypesByGroup DEF WishTypes
  <2>. QED BY <2>2, <2>3, QuietBase, Stay, CallersStay, TypesByGroup DEF socketVars, resultVars
<1>5. CASE CloseSocket(a)
  <2>. USE <1>5 DEF CloseSocket
  <2>1. Moved
    BY <1>0, MoveTypes, TypesByGroup DEF ActorState, Running
  <2>2. WireTypes' /\ Quiet
    BY <2>1, SettledWire, TypesByGroup DEF Settled, Unread, Quiet
  <2>. QED BY <2>2, QuietBase, Stay, CallersStay, TypesByGroup
       DEF wishVars, resultVars, ticketVars
<1>6. CASE FailMailbox(a)
  <2>. USE <1>6 DEF FailMailbox
  <2>1. Moved
    BY <1>0, MoveTypes, StillTypes, TypesByGroup DEF ActorState, Running, actorVars
  <2>2. Quiet
    BY <2>1, WireStays DEF Quiet, wireVars
  <2>3. LifeTypes' /\ ResultTypes'
    <3>1. CASE mailbox[a] # <<>>
      <4>1. /\ mailbox[a] \in Seq(Ticket \cup {StopActor})
            /\ Len(mailbox[a]) <= MailboxSize
        BY TypesByGroup DEF LifeTypes
      <4>2. /\ Tail(mailbox[a]) \in Seq(Ticket \cup {StopActor})
            /\ Len(Tail(mailbox[a])) <= MailboxSize
        BY <3>1, <4>1 DEF MailboxSize
      <4>3. LifeTypes'
        BY <3>1, <4>2, TypesByGroup DEF LifeTypes
      <4>4. CASE UNCHANGED <<outcome, answer>>
        BY <4>3, <4>4, Stay, TypesByGroup DEF resultVars
      <4>5. CASE FinishTicket(Head(mailbox[a]), "error", None)
        BY <4>3, <4>5, FinishTypes, TypesByGroup
      <4>. QED BY <3>1, <4>4, <4>5
    <3>2. CASE UNCHANGED <<mailbox, resultVars>>
      BY <3>2, Stay, TypesByGroup DEF lifeVars
    <3>. QED BY <3>1, <3>2
  <2>. QED BY <2>2, <2>3, QuietBase, Stay, CallersStay, TypesByGroup DEF socketVars
<1>. QED BY <1>2, <1>3, <1>4, <1>5, <1>6

\* A step in which the attempt of the running ticket raises.
LEMMA RaiseBase ==
    ASSUME SocketAssumption, Base, NEW a \in Actor, apc[a] \in Running, NEW exc, NEW box,
           Unread(box), Raise(a, exc, box), msgId' \in Nat, msgId <= msgId',
           UNCHANGED <<lifeVars, callerVars, wishVars>>
    PROVE  Base'
<1>1. Moved /\ ResultTypes' /\ broken' \in BOOLEAN /\ Settled(box)
  BY RaiseTypes DEF Base
<1>2. WireTypes' /\ Quiet
  BY <1>1, SettledWire, TypesByGroup DEF Base, Quiet
<1>. QED BY <1>1, <1>2, QuietBase, Stay, CallersStay, TypesByGroup DEF Base

\* The answer that matches is the one to the frame of the actor's own ticket.
LEMMA MatchedFrame ==
    ASSUME Base, NEW a \in Actor, apc[a] = "reading", socket \in Connection,
           inbox[socket] # <<>>, Matches(a, Head(inbox[socket]))
    PROVE  /\ Head(inbox[socket]) = awaited[a]
           /\ Head(inbox[socket]) \in Request
           /\ Head(inbox[socket]).for = task[a]
<1>1. inbox[socket] \in Seq(Request)
  BY TypesByGroup DEF Base, WireTypes
<1>2. 1 \in DOMAIN inbox[socket] /\ Head(inbox[socket]) = inbox[socket][1]
  BY <1>1
<1>3. Head(inbox[socket]) \in Traffic(socket)
  BY <1>2 DEF Traffic
<1>. QED BY <1>3 DEF Base, Frames, Matches

LEMMA ReadBase ==
    ASSUME SocketAssumption, Base, NEW a \in Actor, ReadFrame(a)
    PROVE  Base'
<1>. USE DEF Base, ReadFrame
<1>. DEFINE f == Head(inbox[socket])
            rest == [inbox EXCEPT ![socket] = Tail(@)]
<1>1. socket \in Connection /\ Unread(rest) /\ msgId' \in Nat /\ msgId <= msgId'
  BY TypesByGroup DEF WireTypes, Unread
<1>2. again \subseteq Actor /\ apc[a] \in Running
  BY TypesByGroup DEF ActorTypes, Running
<1>3. CASE KeepSocket(rest) /\ UNCHANGED <<actorVars, broken, resultVars>>
  <2>1. Moved
    BY <1>3, StillTypes, TypesByGroup
  <2>2. WireTypes' /\ Quiet
    BY <1>1, <1>3, <2>1, SettledWire, TypesByGroup DEF Settled, Quiet
  <2>. QED BY <1>1, <1>3, <2>2, QuietBase, Stay, CallersStay, TypesByGroup
<1>4. CASE \E exc \in {"timeout", "protocol", "other"} : Raise(a, exc, rest)
  BY <1>1, <1>2, <1>4, RaiseBase
<1>5. CASE /\ handshaken' = TRUE /\ inbox' = rest /\ MoveActor(a, "ready")
           /\ awaited' = [awaited EXCEPT ![a] = None]
           /\ UNCHANGED <<task, again, socket, broken, open, gone, pending, greeted, resultVars>>
  <2>1. Moved
    BY <1>2, <1>5, MoveTypes, TypesByGroup DEF ActorState
  <2>2. /\ inbox' \in [Connection -> Seq(Request)]
        /\ \A k \in Connection : \A i \in DOMAIN inbox'[k] :
              \E j \in DOMAIN inbox[k] : inbox'[k][i] = inbox[k][j]
    <3>. HIDE DEF rest
    <3>1. /\ rest \in [Connection -> Seq(Request)]
          /\ \A k \in Connection : \A i \in DOMAIN rest[k] :
                \E j \in DOMAIN inbox[k] : rest[k][i] = inbox[k][j]
      BY <1>1, UnreadType, TypesByGroup
    <3>. QED BY <1>5, <3>1
  <2>3. WireTypes'
    BY <1>5, <2>2, TypesByGroup DEF WireTypes
  <2>4. Quiet
    BY <1>5, <2>1, <2>2 DEF Quiet, Traffic
  <2>. QED BY <1>1, <1>5, <2>3, <2>4, QuietBase, Stay, CallersStay, TypesByGroup
<1>6. CASE Matches(a, f) /\ KeepSocket(rest) /\ Succeed(a, f.for) /\ UNCHANGED broken
  <2>1. f.for = task[a]
    BY <1>1, <1>6, MatchedFrame
  <2>2. Moved /\ ResultTypes'
    BY <1>6, <2>1, SucceedTypes
  <2>3. WireTypes' /\ Quiet
    BY <1>1, <1>6, <2>2, SettledWire, TypesByGroup DEF Settled, Quiet
  <2>. QED BY <1>1, <1>6, <2>2, <2>3, QuietBase, Stay, CallersStay, TypesByGroup
<1>. QED BY <1>3, <1>4, <1>5, <1>6

LEMMA SendBase ==
    ASSUME SocketAssumption, Base, NEW a \in Actor, Send(a)
    PROVE  Base'
<1>. USE DEF Base, Send
<1>1. socket \in Connection /\ msgId \in Nat /\ task[a] \in AnyTicket
  BY TypesByGroup DEF WireTypes, Tasks, Running
<1>2. Frame(a) \in Request /\ Frame(a).id = msgId /\ Frame(a).for = task[a]
  BY <1>1 DEF Frame, Request
<1>3. ActorTypes' /\ Tasks'
  BY <1>1, <1>2, TypesByGroup DEF ActorTypes, MoveActor, ActorState, Tasks
<1>4. WireTypes'
  BY <1>1, <1>2, TypesByGroup DEF WireTypes
<1>5. \A k \in Connection : \A g \in Traffic(k)' : g \in Traffic(k) \/ g = Frame(a)
  BY <1>1, TypesByGroup DEF Traffic, WireTypes
<1>6. \A k \in Connection : \A g \in Traffic(k) : g.id \in Nat /\ g.id < msgId
  BY TrafficTypes, TypesByGroup DEF Frames
<1>7. \A b \in Actor : apc'[b] = "reading" =>
         \/ b = a /\ awaited'[b] = Frame(a) /\ task'[b] = task[a]
         \/ b # a /\ apc[b] = "reading" /\ awaited'[b] = awaited[b] /\ task'[b] = task[b]
  BY TypesByGroup DEF ActorTypes, MoveActor
<1>8. \A b \in Actor : apc[b] = "reading" =>
         awaited[b].id \in Nat /\ awaited[b].id < msgId
  BY DEF Frames, Request
<1>9. Frames'
  <2>1. ASSUME NEW b \in Actor, apc'[b] = "reading"
        PROVE  awaited'[b] \in Request /\ awaited'[b].id < msgId' /\ awaited'[b].for = task'[b]
    BY <1>1, <1>2, <1>7, <1>8, <2>1 DEF Frames
  <2>2. ASSUME NEW k \in Connection, NEW g \in Traffic(k)'
        PROVE  g.id < msgId'
    BY <1>1, <1>2, <1>5, <1>6
  <2>3. ASSUME NEW k \in Connection, NEW g \in Traffic(k)', NEW b \in Actor,
               apc'[b] = "reading", g.id = awaited'[b].id
        PROVE  g = awaited'[b]
    <3>1. CASE g = Frame(a)
      BY <1>1, <1>2, <1>7, <1>8, <2>3, <3>1
    <3>2. CASE g \in Traffic(k)
      BY <1>1, <1>2, <1>6, <1>7, <2>3, <3>2 DEF Frames
    <3>. QED BY <1>5, <3>1, <3>2
  <2>. QED BY <2>1, <2>2, <2>3 DEF Frames
<1>10. msgId' \in Nat /\ broken' \in BOOLEAN
  BY <1>1, TypesByGroup
<1>11. Callers'
  BY CallersStay
<1>. QED BY <1>3, <1>4, <1>9, <1>10, <1>11, Stay, TypesByGroup, TypesByGroupNext DEF ticketVars

LEMMA TicketBase ==
    ASSUME SocketAssumption, Base, NEW a \in Actor,
           \/ EnsureSocket(a) \/ Connected(a) \/ ConnectFails(a) \/ FinishConnect(a)
           \/ SendFails(a) \/ ReadNothing(a)
    PROVE  Base'
<1>. USE DEF Base
<1>0. again \subseteq Actor /\ Unread(inbox) /\ msgId \in Nat
  BY TypesByGroup DEF ActorTypes, Unread
<1>1. CASE EnsureSocket(a)
  <2>. USE <1>1 DEF EnsureSocket
  <2>1. CASE Raise(a, "closed", inbox)
    BY <1>0, <2>1, RaiseBase DEF Running
  <2>2. CASE /\ Settled(inbox)
             /\ (MoveActor(a, "ready") \/ MoveActor(a, "connecting"))
             /\ UNCHANGED <<task, again, awaited, broken, resultVars>>
    <3>1. Moved
      BY <1>0, <2>2, MoveTypes, TypesByGroup DEF ActorState, Running
    <3>2. WireTypes' /\ Quiet
      BY <1>0, <2>2, <3>1, SettledWire, TypesByGroup DEF Quiet
    <3>. QED BY <1>0, <2>2, <3>2, QuietBase, Stay, CallersStay, TypesByGroup
  <2>. QED BY <2>1, <2>2 DEF Settled, DropSocket
<1>2. CASE Connected(a)
  <2>. USE <1>2 DEF Connected
  <2>1. Moved
    BY <1>0, MoveTypes, TypesByGroup DEF ActorState, Running
  <2>2. Quiet
    BY <2>1, WireStays DEF Quiet
  <2>3. WireTypes'
    BY TypesByGroup DEF WireTypes
  <2>4. WishTypes' /\ ResultTypes' /\ Callers' /\ CallerTypes' /\ LifeTypes'
    BY Stay, CallersStay, TypesByGroup DEF ticketVars
  <2>5. msgId' \in Nat /\ msgId <= msgId'
    BY <1>0
  <2>6. broken' \in BOOLEAN
    BY Zenon
  <2>. QED BY <2>2, <2>3, <2>4, <2>5, <2>6, QuietBase
<1>3. CASE ConnectFails(a)
  BY <1>0, <1>3, RaiseBase DEF ConnectFails, Running
<1>4. CASE FinishConnect(a)
  <2>. USE <1>4 DEF FinishConnect
  <2>1. Moved /\ ResultTypes'
    BY SucceedTypes
  <2>2. Quiet
    BY <2>1, WireStays DEF Quiet, wireVars
  <2>. QED BY <1>0, <2>1, <2>2, QuietBase, Stay, CallersStay, TypesByGroup DEF socketVars
<1>5. CASE SendFails(a)
  <2>1. PICK exc \in {"closed", "protocol", "other"} : Raise(a, exc, inbox)
    BY <1>5 DEF SendFails
  <2>. QED BY <1>0, <1>5, <2>1, RaiseBase DEF SendFails, Running
<1>6. CASE ReadNothing(a)
  <2>1. PICK exc : Raise(a, exc, inbox)
    BY <1>6 DEF ReadNothing
  <2>. QED BY <1>0, <1>6, <2>1, RaiseBase DEF ReadNothing, Running
<1>. QED BY <1>1, <1>2, <1>3, <1>4, <1>5, <1>6

LEMMA StepBase == ASSUME SocketAssumption, Base, Next PROVE Base'
BY CallerStepBase, CloseBase, SubmitBase, OutsideBase, LoopBase, ReadBase, SendBase, TicketBase
   DEF Next, ActorStep

LEMMA StutterBase == ASSUME Base, UNCHANGED vars PROVE Base'
<1>1. Quiet
  BY StillTypes, WireStays, TypesByGroup DEF Base, Quiet, vars, wireVars
<1>. QED BY <1>1, QuietBase, Stay, CallersStay, TypesByGroup
     DEF Base, vars, socketVars, wishVars, resultVars, ticketVars

THEOREM BaseInvariant == Spec => []Base
<1>1. Init => Base
  BY InitBase, SocketAssumption
<1>2. Base /\ [Next]_vars => Base'
  BY StepBase, StutterBase, SocketAssumption
<1>. QED BY <1>1, <1>2, PTL DEF Spec

THEOREM TypeCorrect == Spec => []TypeOK
<1>1. Base => TypeOK
  BY DEF Base
<1>. QED BY <1>1, BaseInvariant, PTL

-----------------------------------------------------------------------------
(***************************************************************************)
(* OwnAnswer.                                                              *)
(***************************************************************************)
\* A step succeeds only with an answer of the ticket's own, or for a connect().
Answered ==
    /\ connects \subseteq connects'
    /\ \A t \in Ticket : outcome'[t] = "ok" =>
          \/ outcome[t] = "ok" /\ answer'[t] = answer[t]
          \/ t \in connects' \/ answer'[t] = t

LEMMA FailureAnswered ==
    ASSUME TypeOK, NEW t, FinishTicket(t, "error", None), connects \subseteq connects'
    PROVE  Answered
BY TypesByGroup DEF FinishTicket, Answered, ResultTypes

LEMMA RaiseAnswered ==
    ASSUME TypeOK, NEW a, NEW exc, NEW box, Raise(a, exc, box), connects' = connects
    PROVE  Answered
<1>1. CASE UNCHANGED resultVars
  BY <1>1 DEF Answered, resultVars
<1>2. CASE FinishTicket(task[a], "error", None)
  BY <1>2, FailureAnswered
<1>. QED BY <1>1, <1>2 DEF Raise

LEMMA SuccessAnswered ==
    ASSUME TypeOK, NEW t, NEW whose, FinishTicket(t, "ok", whose), connects' = connects,
           whose = t \/ t \in connects
    PROVE  Answered
BY TypesByGroup DEF FinishTicket, Answered, ResultTypes

LEMMA StepAnswered ==
    ASSUME Base, Next
    PROVE  Answered
<1>0. TypeOK
  BY DEF Base
<1>1. ASSUME UNCHANGED resultVars, connects \subseteq connects' PROVE Answered
  BY <1>1 DEF Answered, resultVars
<1>2. ASSUME NEW c \in Caller, CallerStep(c) PROVE Answered
  BY <1>1, <1>2 DEF CallerStep, PutTicket, PutTimesOut, WaitReturns, WaitTimesOut, Join,
     CloseReturns, GiveUp, ticketVars, wishVars
<1>3. ASSUME NEW c \in Caller, Close(c) PROVE Answered
  BY <1>1, <1>3 DEF Close, ticketVars, wishVars
<1>4. ASSUME NEW c \in Caller, NEW t \in Ticket, SubmitTicket(c, t) PROVE Answered
  BY <1>0, <1>4, TypesByGroup DEF SubmitTicket, Answered, ResultTypes
<1>5. ASSUME \/ \E t \in AnyTicket : Deadline(t)
             \/ \E k \in Connection : Answer(k) \/ Break(k)
      PROVE  Answered
  BY <1>1, <1>5 DEF Deadline, Answer, Break, ticketVars, wishVars
<1>6. ASSUME NEW a \in Actor, ActorStep(a) \/ BeginHeartbeat(a) PROVE Answered
  <2>1. CASE \/ LoopHead(a) \/ PollTimesOut(a) \/ BeginHeartbeat(a) \/ Connected(a)
             \/ Send(a) \/ CloseSocket(a)
    BY <1>1, <2>1 DEF LoopHead, PollTimesOut, BeginHeartbeat, Connected, Send, CloseSocket,
       StepActor, ticketVars, wishVars
  <2>2. CASE TakeTicket(a)
    BY <1>0, <1>1, <2>2, FailureAnswered DEF TakeTicket, wishVars
  <2>3. CASE FailMailbox(a)
    BY <1>0, <1>1, <2>3, FailureAnswered DEF FailMailbox, wishVars, resultVars
  <2>4. CASE ConnectFails(a) \/ SendFails(a) \/ ReadNothing(a)
    BY <1>0, <2>4, RaiseAnswered DEF ConnectFails, SendFails, ReadNothing, wishVars
  <2>5. CASE EnsureSocket(a)
    BY <1>0, <1>1, <2>5, RaiseAnswered DEF EnsureSocket, wishVars
  <2>6. CASE FinishConnect(a)
    BY <1>0, <2>6, SuccessAnswered DEF FinishConnect, Succeed, wishVars
  <2>7. CASE ReadFrame(a)
    <3>. DEFINE f == Head(inbox[socket])
                rest == [inbox EXCEPT ![socket] = Tail(@)]
    <3>1. CASE UNCHANGED resultVars
      BY <1>1, <2>7, <3>1 DEF ReadFrame, wishVars
    <3>2. CASE \E exc \in {"timeout", "protocol", "other"} : Raise(a, exc, rest)
      BY <1>0, <2>7, <3>2, RaiseAnswered DEF ReadFrame, wishVars
    <3>3. CASE Matches(a, f) /\ Succeed(a, f.for)
      <4>1. socket \in Connection
        BY <1>0, <2>7, TypesByGroup DEF ReadFrame, WireTypes
      <4>2. f.for = task[a]
        BY <2>7, <3>3, <4>1, MatchedFrame DEF ReadFrame
      <4>. QED BY <1>0, <2>7, <3>3, <4>2, SuccessAnswered DEF ReadFrame, Succeed, wishVars
    <3>. QED BY <2>7, <3>1, <3>2, <3>3 DEF ReadFrame
  <2>. QED BY <1>6, <2>1, <2>2, <2>3, <2>4, <2>5, <2>6, <2>7 DEF ActorStep
<1>. QED BY <1>2, <1>3, <1>4, <1>5, <1>6 DEF Next

THEOREM OwnAnswers == Spec => []OwnAnswer
<1>1. Init => OwnAnswer
  BY DEF Init, OwnAnswer
<1>2. Base /\ OwnAnswer /\ [Next]_vars => OwnAnswer'
  <2>1. Base /\ OwnAnswer /\ Next => OwnAnswer'
    BY StepAnswered DEF OwnAnswer, Answered
  <2>2. OwnAnswer /\ UNCHANGED vars => OwnAnswer'
    BY DEF OwnAnswer, vars, ticketVars, wishVars, resultVars
  <2>. QED BY <2>1, <2>2
<1>. QED BY <1>1, <1>2, BaseInvariant, PTL DEF Spec

-----------------------------------------------------------------------------
(***************************************************************************)
(* HandshakeFirst.                                                         *)
(***************************************************************************)
\* _handshaken, and an answer to a handshake, tell of a connection that the server has greeted.
Greeted ==
    /\ \A k \in Connection : \A i \in DOMAIN inbox[k] :
          inbox[k][i].what = "handshake" => k \in greeted
    /\ handshaken /\ socket # NoConnection => socket \in greeted
    /\ HandshakeFirst

LEMMA SettledGreeted ==
    ASSUME WireTypes, Greeted, NEW box, Unread(box), Settled(box)
    PROVE  Greeted'
<1>1. /\ box \in [Connection -> Seq(Request)]
      /\ \A k \in Connection : \A i \in DOMAIN box[k] :
            \E j \in DOMAIN inbox[k] : box[k][i] = inbox[k][j]
  BY UnreadType
<1>2. CASE KeepSocket(box) \/ (CloseSocketActor(box) /\ socket = NoConnection)
  <2>1. /\ inbox' = box /\ socket' = socket /\ handshaken' = handshaken
        /\ greeted' = greeted /\ pending' = pending
    BY <1>2 DEF KeepSocket, CloseSocketActor
  <2>. QED BY <1>1, <2>1 DEF Greeted, HandshakeFirst
<1>3. CASE CloseSocketActor(box) /\ socket # NoConnection
  <2>1. /\ socket' = NoConnection /\ greeted' = greeted \ {socket}
        /\ pending' = [pending EXCEPT ![socket] = {}]
        /\ inbox' = [box EXCEPT ![socket] = <<>>]
    BY <1>3 DEF CloseSocketActor
  <2>2. ASSUME NEW k \in Connection, NEW i \in DOMAIN inbox'[k],
               inbox'[k][i].what = "handshake"
        PROVE  k \in greeted'
    BY <1>1, <2>1, <2>2 DEF Greeted
  <2>3. HandshakeFirst'
    BY <2>1 DEF Greeted, HandshakeFirst, WireTypes
  <2>. QED BY <2>1, <2>2, <2>3 DEF Greeted
<1>. QED BY <1>2, <1>3 DEF Settled

LEMMA RaiseGreeted ==
    ASSUME TypeOK, Greeted, NEW a, NEW exc, NEW box, Unread(box), Raise(a, exc, box)
    PROVE  Greeted'
BY SettledGreeted, TypesByGroup DEF Raise, Settled

LEMMA ReadGreeted ==
    ASSUME Base, Greeted, NEW a \in Actor, ReadFrame(a)
    PROVE  Greeted'
<1>. DEFINE f == Head(inbox[socket])
            rest == [inbox EXCEPT ![socket] = Tail(@)]
<1>1. TypeOK /\ socket \in Connection /\ inbox[socket] # <<>> /\ Unread(rest)
  BY TypesByGroup DEF Base, ReadFrame, WireTypes, Unread
<1>2. CASE KeepSocket(rest)
  BY <1>1, <1>2, SettledGreeted, TypesByGroup DEF Settled
<1>3. CASE \E exc \in {"timeout", "protocol", "other"} : Raise(a, exc, rest)
  BY <1>1, <1>3, RaiseGreeted
<1>4. CASE /\ f.what = "handshake" /\ handshaken' = TRUE /\ inbox' = rest
           /\ UNCHANGED <<socket, open, gone, pending, greeted>>
  <2>1. inbox[socket] \in Seq(Request)
    BY <1>1, TypesByGroup DEF WireTypes
  <2>2. 1 \in DOMAIN inbox[socket] /\ f = inbox[socket][1]
    BY <1>1, <2>1
  <2>3. socket \in greeted
    BY <1>1, <1>4, <2>2 DEF Greeted
  <2>4. \A k \in Connection : \A i \in DOMAIN inbox'[k] :
           \E j \in DOMAIN inbox[k] : inbox'[k][i] = inbox[k][j]
    <3>. HIDE DEF rest
    <3>1. \A k \in Connection : \A i \in DOMAIN rest[k] :
             \E j \in DOMAIN inbox[k] : rest[k][i] = inbox[k][j]
      BY <1>1, UnreadType, TypesByGroup
    <3>. QED BY <1>4, <3>1
  <2>. QED BY <1>4, <2>3, <2>4 DEF Greeted, HandshakeFirst
<1>. QED BY <1>2, <1>3, <1>4 DEF ReadFrame

LEMMA OutsideGreeted ==
    ASSUME TypeOK, Greeted, NEW k \in Connection, Answer(k) \/ Break(k)
    PROVE  Greeted'
<1>1. CASE Answer(k)
  <2>1. PICK q \in pending[k] :
           /\ pending' = [pending EXCEPT ![k] = @ \ {q}]
           /\ inbox' = [inbox EXCEPT ![k] = Append(@, q)]
           /\ greeted' = IF q.what = "handshake" THEN greeted \cup {k} ELSE greeted
    BY <1>1 DEF Answer
  <2>2. q \in Request /\ inbox[k] \in Seq(Request) /\ DOMAIN inbox = Connection
    BY TypesByGroup DEF WireTypes
  <2>3. \A i \in DOMAIN Append(inbox[k], q) :
           \/ Append(inbox[k], q)[i] = q
           \/ i \in DOMAIN inbox[k] /\ Append(inbox[k], q)[i] = inbox[k][i]
    BY <2>2
  <2>4. ASSUME NEW j \in Connection, NEW i \in DOMAIN inbox'[j],
               inbox'[j][i].what = "handshake"
        PROVE  j \in greeted'
    BY <2>1, <2>2, <2>3, <2>4 DEF Greeted
  <2>5. HandshakeFirst'
    BY <2>1, TypesByGroup DEF Greeted, HandshakeFirst, WireTypes
  <2>6. (handshaken /\ socket # NoConnection => socket \in greeted)'
    BY <1>1, <2>1 DEF Answer, Greeted, socketVars
  <2>. QED BY <2>4, <2>5, <2>6 DEF Greeted
<1>2. CASE Break(k)
  <2>1. ASSUME NEW j \in Connection, NEW i \in DOMAIN inbox'[j],
               inbox'[j][i].what = "handshake"
        PROVE  j \in greeted'
    BY <1>2, <2>1, TypesByGroup DEF Break, Greeted, WireTypes
  <2>2. HandshakeFirst'
    BY <1>2, TypesByGroup DEF Break, Greeted, HandshakeFirst, WireTypes
  <2>. QED BY <1>2, <2>1, <2>2 DEF Greeted, Break, socketVars
<1>. QED BY <1>1, <1>2

LEMMA StepGreeted ==
    ASSUME Base, Greeted, Next
    PROVE  Greeted'
<1>0. TypeOK /\ WireTypes /\ Unread(inbox)
  BY TypesByGroup DEF Base, Unread
<1>1. ASSUME UNCHANGED <<socket, handshaken, pending, inbox, greeted>> PROVE Greeted'
  BY <1>1 DEF Greeted, HandshakeFirst
<1>2. ASSUME NEW c \in Caller, \/ CallerStep(c) \/ Close(c)
                               \/ \E t \in Ticket : SubmitTicket(c, t)
      PROVE  Greeted'
  BY <1>1, <1>2 DEF CallerStep, PutTicket, PutTimesOut, WaitReturns, WaitTimesOut, Join,
     CloseReturns, GiveUp, Close, SubmitTicket, socketVars, wireVars
<1>3. ASSUME NEW t \in AnyTicket, Deadline(t) PROVE Greeted'
  BY <1>1, <1>3 DEF Deadline, socketVars, wireVars
<1>4. ASSUME NEW a \in Actor, ActorStep(a) \/ BeginHeartbeat(a) PROVE Greeted'
  <2>1. CASE \/ LoopHead(a) \/ TakeTicket(a) \/ PollTimesOut(a) \/ BeginHeartbeat(a)
             \/ FinishConnect(a) \/ FailMailbox(a)
    BY <1>1, <2>1 DEF LoopHead, TakeTicket, PollTimesOut, BeginHeartbeat, FinishConnect,
       FailMailbox, StepActor, socketVars, wireVars
  <2>2. CASE CloseSocket(a)
    BY <1>0, <2>2, SettledGreeted DEF CloseSocket, Settled
  <2>3. CASE ConnectFails(a) \/ SendFails(a) \/ ReadNothing(a)
    BY <1>0, <2>3, RaiseGreeted DEF ConnectFails, SendFails, ReadNothing
  <2>4. CASE EnsureSocket(a)
    BY <1>0, <2>4, RaiseGreeted, SettledGreeted DEF EnsureSocket, DropSocket, Settled
  <2>5. CASE Connected(a)
    BY <2>5 DEF Connected, Greeted, HandshakeFirst
  <2>6. CASE Send(a)
    <3>1. Frame(a).what = "request" => handshaken
      BY DEF Frame, NeedsHandshake
    <3>2. \A k \in Connection : \A q \in pending'[k] :
             q \in pending[k] \/ (k = socket /\ q = Frame(a))
      BY <1>0, <2>6 DEF Send, WireTypes
    <3>3. HandshakeFirst'
      BY <2>6, <3>1, <3>2 DEF Send, Greeted, HandshakeFirst
    <3>. QED BY <2>6, <3>3 DEF Send, Greeted
  <2>7. CASE ReadFrame(a)
    BY <2>7, ReadGreeted
  <2>. QED BY <1>4, <2>1, <2>2, <2>3, <2>4, <2>5, <2>6, <2>7 DEF ActorStep
<1>5. ASSUME NEW k \in Connection, Answer(k) \/ Break(k) PROVE Greeted'
  BY <1>0, <1>5, OutsideGreeted
<1>. QED BY <1>2, <1>3, <1>4, <1>5 DEF Next

THEOREM HandshakesComeFirst == Spec => []HandshakeFirst
<1>1. Init => Greeted
  BY DEF Init, Greeted, HandshakeFirst
<1>2. Base /\ Greeted /\ [Next]_vars => Greeted'
  <2>1. Greeted /\ UNCHANGED vars => Greeted'
    BY DEF Greeted, HandshakeFirst, vars, socketVars, wireVars
  <2>. QED BY <2>1, StepGreeted
<1>3. Greeted => HandshakeFirst
  BY DEF Greeted
<1>. QED BY <1>1, <1>2, <1>3, BaseInvariant, PTL DEF Spec

-----------------------------------------------------------------------------
(***************************************************************************)
(* SingleOwner, as long as join() waits until the actor has ended.         *)
(***************************************************************************)
Live(a) == apc[a] \notin {"absent", "dead"}

\* The thread that runs is the one in _actor_thread; who has joined an actor has seen it end.
Owned ==
    /\ \A a \in Actor : Live(a) => a = thread
    /\ \A c \in Caller : cpc[c] = "joined" => apc[ref[c]] = "dead"

\* A step that starts no actor, and after which no more callers have joined one.
Ageing ==
    /\ thread' = thread
    /\ \A a \in Actor : Live(a)' => Live(a)
    /\ \A a \in Actor : apc[a] = "dead" => apc'[a] = "dead"
    /\ \A c \in Caller : cpc'[c] = "joined" => cpc[c] = "joined" /\ ref'[c] = ref[c]

LEMMA AgeingOwned == ASSUME Callers, Owned, Ageing PROVE Owned'
BY DEF Callers, Owned, Ageing

LEMMA ActorAgeing ==
    ASSUME TypeOK, NEW a \in Actor, ActorStep(a) \/ BeginHeartbeat(a)
    PROVE  Ageing
<1>1. UNCHANGED <<thread, callerVars>> /\ Live(a)
  BY DEF ActorStep, LoopHead, TakeTicket, PollTimesOut, BeginHeartbeat, EnsureSocket,
     Connected, ConnectFails, FinishConnect, Send, SendFails, ReadFrame, ReadNothing, CloseSocket,
     FailMailbox, StepActor, lifeVars, Live
<1>2. \E s : apc' = [apc EXCEPT ![a] = s]
  <2>1. ASSUME NEW exc, NEW box, Raise(a, exc, box) PROVE \E s : apc' = [apc EXCEPT ![a] = s]
    BY <2>1 DEF Raise, EndTask, MoveActor
  <2>2. ASSUME UNCHANGED apc PROVE \E s : apc' = [apc EXCEPT ![a] = s]
    BY <2>2, TypesByGroup DEF ActorTypes
  <2>3. CASE \/ LoopHead(a) \/ TakeTicket(a) \/ PollTimesOut(a) \/ BeginHeartbeat(a)
             \/ Connected(a) \/ FinishConnect(a) \/ Send(a) \/ CloseSocket(a)
    BY <2>3 DEF LoopHead, TakeTicket, PollTimesOut, BeginHeartbeat, Connected, FinishConnect,
       Send, CloseSocket, StepActor, Run, Succeed, EndTask, MoveActor
  <2>4. CASE FailMailbox(a)
    BY <2>2, <2>4 DEF FailMailbox, MoveActor
  <2>5. CASE EnsureSocket(a)
    BY <2>1, <2>5 DEF EnsureSocket, MoveActor
  <2>6. CASE ConnectFails(a) \/ SendFails(a) \/ ReadNothing(a)
    BY <2>1, <2>6 DEF ConnectFails, SendFails, ReadNothing
  <2>7. CASE ReadFrame(a)
    BY <2>1, <2>2, <2>7 DEF ReadFrame, Succeed, EndTask, MoveActor, actorVars
  <2>. QED BY <2>3, <2>4, <2>5, <2>6, <2>7 DEF ActorStep
<1>. QED BY <1>1, <1>2, TypesByGroup DEF Ageing, Live, ActorTypes, callerVars

LEMMA StepOwned ==
    ASSUME ~JoinTimesOut, SocketAssumption, Base, Owned, Next
    PROVE  Owned'
<1>0. TypeOK /\ Callers
  BY DEF Base
<1>1. ASSUME NEW a \in Actor, ActorStep(a) \/ BeginHeartbeat(a) PROVE Owned'
  BY <1>0, <1>1, ActorAgeing, AgeingOwned
<1>2. ASSUME NEW c \in Caller, CallerStep(c) PROVE Owned'
  <2>1. CASE PutTicket(c) \/ PutTimesOut(c) \/ WaitReturns(c) \/ WaitTimesOut(c)
    <3>1. UNCHANGED <<thread, apc>>
      BY <2>1 DEF PutTicket, PutTimesOut, WaitReturns, WaitTimesOut, GiveUp, lifeVars, actorVars
    <3>2. \A d \in Caller : cpc'[d] = "joined" => cpc[d] = "joined" /\ ref'[d] = ref[d]
      BY <1>0, <2>1, TypesByGroup DEF PutTicket, PutTimesOut, WaitReturns, WaitTimesOut, GiveUp,
         Return, CallerTypes
    <3>. QED BY <1>0, <3>1, <3>2, AgeingOwned DEF Ageing, Live
  <2>2. CASE Join(c)
    BY <1>0, <2>2, TypesByGroup
    DEF Join, JoinEnds, Owned, Live, CallerTypes, lifeVars, actorVars
  <2>3. CASE CloseReturns(c)
    <3>1. /\ cpc[c] = "joined" /\ apc[ref[c]] = "dead" /\ UNCHANGED apc
          /\ thread' = IF thread = ref[c] THEN None ELSE thread
      BY <2>3 DEF CloseReturns, Owned, actorVars
    <3>2. \A d \in Caller : cpc'[d] = "joined" => cpc[d] = "joined" /\ ref'[d] = ref[d]
      BY <1>0, <2>3, TypesByGroup DEF CloseReturns, Return, CallerTypes
    <3>. QED BY <3>1, <3>2 DEF Owned, Live
  <2>. QED BY <1>2, <2>1, <2>2, <2>3 DEF CallerStep
<1>3. ASSUME NEW c \in Caller, Close(c) PROVE Owned'
  BY <1>0, <1>3, TypesByGroup DEF Close, Owned, Live, CallerTypes, actorVars
<1>4. ASSUME NEW c \in Caller, NEW t \in Ticket, SubmitTicket(c, t) PROVE Owned'
  <2>1. \A d \in Caller : cpc'[d] = "joined" => cpc[d] = "joined" /\ ref'[d] = ref[d]
    BY <1>0, <1>4, TypesByGroup DEF SubmitTicket, CallerTypes, callerVars
  <2>2. CASE UNCHANGED <<thread, apc>>
    BY <1>0, <2>1, <2>2, AgeingOwned DEF Ageing, Live
  <2>3. CASE thread = None /\ \E a \in Actor : StartActor(a)
    <3>1. PICK a \in Actor :
             apc[a] = "absent" /\ thread' = a /\ apc' = [apc EXCEPT ![a] = "head"]
      BY <2>3 DEF StartActor
    <3>2. \A b \in Actor : ~Live(b)
      BY <2>3 DEF Owned, SocketAssumption
    <3>3. \A b \in Actor : b # a => apc'[b] = apc[b]
      BY <1>0, <3>1, TypesByGroup DEF ActorTypes
    <3>. QED BY <1>0, <2>1, <3>1, <3>2, <3>3 DEF Owned, Live, Callers
  <2>. QED BY <1>4, <2>2, <2>3 DEF SubmitTicket
<1>5. ASSUME \/ \E t \in AnyTicket : Deadline(t)
             \/ \E k \in Connection : Answer(k) \/ Break(k)
      PROVE  Owned'
  BY <1>5 DEF Deadline, Answer, Break, Owned, Live, lifeVars, actorVars, callerVars
<1>. QED BY <1>1, <1>2, <1>3, <1>4, <1>5 DEF Next

THEOREM OneOwner ==
    ASSUME ~JoinTimesOut
    PROVE  Spec => []SingleOwner
<1>1. Init => Owned
  BY DEF Init, Owned, Live
<1>2. Base /\ Owned /\ [Next]_vars => Owned'
  <2>1. Owned /\ UNCHANGED vars => Owned'
    BY DEF Owned, Live, vars, lifeVars, actorVars, callerVars
  <2>. QED BY <2>1, StepOwned, SocketAssumption
<1>3. Owned => SingleOwner
  BY DEF Owned, Live, SingleOwner
<1>. QED BY <1>1, <1>2, <1>3, BaseInvariant, PTL DEF Spec

-----------------------------------------------------------------------------
(***************************************************************************)
(* NoSocketLeak.                                                           *)
(***************************************************************************)
\* The actor is not there yet or has closed the socket.
Ended(a) == apc[a] \in {"absent", "dead", "draining"}

Kept ==
    /\ open = IF socket = NoConnection THEN {} ELSE {socket}
    /\ \A a \in Actor : apc[a] = "connecting" => socket = NoConnection
    /\ (\A a \in Actor : Ended(a)) => socket = NoConnection

\* Steps that leave the socket alone, and steps that close it.
Holding ==
    /\ UNCHANGED <<socket, open>>
    /\ \A a \in Actor : apc'[a] = "connecting" => apc[a] = "connecting"
    /\ \A a \in Actor : Ended(a)' => Ended(a)

Closing == socket' = NoConnection /\ open' = open \ {socket}

LEMMA HoldingKept == ASSUME Kept, Holding PROVE Kept'
BY DEF Kept, Holding

LEMMA ClosingKept == ASSUME Kept, Closing PROVE Kept'
BY DEF Kept, Closing

LEMMA CloseSocketCloses ==
    ASSUME SocketAssumption, WireTypes, NEW box, CloseSocketActor(box)
    PROVE  Closing
BY DEF CloseSocketActor, Closing, SocketAssumption, WireTypes

LEMMA MoveHolds ==
    ASSUME TypeOK, NEW a \in Actor, NEW s \in ActorState \ {"connecting", "draining"},
           MoveActor(a, s), s \in {"absent", "dead"} => Ended(a), UNCHANGED <<socket, open>>
    PROVE  Holding
BY TypesByGroup DEF ActorTypes, MoveActor, Holding, Ended

LEMMA RaiseKept ==
    ASSUME SocketAssumption, TypeOK, Kept, NEW a \in Actor, NEW exc, NEW box, Raise(a, exc, box)
    PROVE  Kept'
<1>1. CASE KeepSocket(box)
  <2>1. MoveActor(a, "head") \/ MoveActor(a, "ensuring")
    BY DEF Raise, EndTask
  <2>. QED BY <1>1, <2>1, MoveHolds, HoldingKept DEF KeepSocket, ActorState
<1>2. CASE CloseSocketActor(box)
  BY <1>2, CloseSocketCloses, ClosingKept, TypesByGroup
<1>. QED BY <1>1, <1>2 DEF Raise

LEMMA StepKept ==
    ASSUME SocketAssumption, Base, Owned, Kept, Next
    PROVE  Kept'
<1>0. TypeOK /\ WireTypes /\ ActorTypes
  BY TypesByGroup DEF Base
<1>1. ASSUME UNCHANGED <<socket, open, apc>> PROVE Kept'
  BY <1>1 DEF Kept, Ended
<1>2. ASSUME NEW c \in Caller, CallerStep(c) \/ Close(c) PROVE Kept'
  BY <1>1, <1>2 DEF CallerStep, PutTicket, PutTimesOut, WaitReturns, WaitTimesOut, Join,
     CloseReturns, GiveUp, Close, socketVars, wireVars, actorVars
<1>3. ASSUME NEW c \in Caller, NEW t \in Ticket, SubmitTicket(c, t) PROVE Kept'
  <2>1. CASE UNCHANGED apc
    BY <1>1, <1>3, <2>1 DEF SubmitTicket, socketVars, wireVars
  <2>2. CASE \E a \in Actor : StartActor(a)
    BY <1>0, <1>3, <2>2, MoveHolds, HoldingKept
    DEF SubmitTicket, StartActor, MoveActor, ActorState, socketVars, wireVars
  <2>. QED BY <1>3, <2>1, <2>2 DEF SubmitTicket
<1>4. ASSUME \/ \E t \in AnyTicket : Deadline(t)
             \/ \E k \in Connection : Answer(k) \/ Break(k)
      PROVE  Kept'
  BY <1>1, <1>4 DEF Deadline, Answer, Break, socketVars, wireVars, actorVars
<1>5. ASSUME NEW a \in Actor, ActorStep(a) \/ BeginHeartbeat(a) PROVE Kept'
  <2>1. ASSUME NEW s \in ActorState \ {"connecting", "draining", "absent", "dead"},
               MoveActor(a, s), UNCHANGED <<socket, open>>
        PROVE  Kept'
    BY <1>0, <2>1, MoveHolds, HoldingKept
  <2>2. CASE \/ LoopHead(a) \/ TakeTicket(a) \/ PollTimesOut(a) \/ BeginHeartbeat(a)
             \/ FinishConnect(a) \/ Send(a)
    BY <2>1, <2>2 DEF LoopHead, TakeTicket, PollTimesOut, BeginHeartbeat, FinishConnect, Send,
       StepActor, Run, Succeed, EndTask, ActorState, socketVars, wireVars
  <2>3. CASE FailMailbox(a)
    <3>1. CASE UNCHANGED apc
      BY <1>1, <2>3, <3>1 DEF FailMailbox, socketVars, wireVars
    <3>2. CASE MoveActor(a, "dead")
      BY <1>0, <2>3, <3>2, MoveHolds, HoldingKept
      DEF FailMailbox, ActorState, Ended, socketVars, wireVars
    <3>. QED BY <2>3, <3>1, <3>2 DEF FailMailbox
  <2>4. CASE CloseSocket(a)
    BY <1>0, <2>4, CloseSocketCloses, ClosingKept DEF CloseSocket
  <2>5. CASE ConnectFails(a) \/ SendFails(a) \/ ReadNothing(a)
    BY <1>0, <2>5, RaiseKept DEF ConnectFails, SendFails, ReadNothing
  <2>6. CASE EnsureSocket(a)
    <3>1. CASE Raise(a, "closed", inbox)
      BY <1>0, <3>1, RaiseKept
    <3>2. CASE KeepSocket(inbox) /\ MoveActor(a, "ready")
      BY <2>1, <3>2 DEF KeepSocket, ActorState
    <3>3. CASE DropSocket
      BY <1>0, <3>3, CloseSocketCloses, ClosingKept DEF DropSocket
    <3>. QED BY <2>6, <3>1, <3>2, <3>3 DEF EnsureSocket
  <2>7. CASE Connected(a)
    <3>1. PICK k \in Connection \ open : socket' = k /\ open' = open \cup {k}
      BY <2>7 DEF Connected
    <3>2. socket = NoConnection /\ open = {} /\ k # NoConnection
      BY <2>7, <3>1 DEF Connected, Kept, SocketAssumption
    <3>3. apc' = [apc EXCEPT ![a] = "ready"]
      BY <2>7 DEF Connected, MoveActor
    <3>4. \A b \in Actor : apc[b] = "connecting" => b = a
      BY <2>7 DEF Connected, Owned, Live
    <3>. QED BY <1>0, <3>1, <3>2, <3>3, <3>4 DEF Kept, Ended, ActorTypes
  <2>8. CASE ReadFrame(a)
    <3>. DEFINE rest == [inbox EXCEPT ![socket] = Tail(@)]
    <3>1. CASE \E exc \in {"timeout", "protocol", "other"} : Raise(a, exc, rest)
      BY <1>0, <3>1, RaiseKept
    <3>2. CASE UNCHANGED <<socket, open, actorVars>>
      BY <1>1, <3>2 DEF actorVars
    <3>3. CASE UNCHANGED <<socket, open>> /\ MoveActor(a, "ready")
      BY <2>1, <3>3 DEF ActorState
    <3>4. CASE KeepSocket(rest) /\ EndTask(a)
      BY <2>1, <3>4 DEF KeepSocket, EndTask, ActorState
    <3>. QED BY <2>8, <3>1, <3>2, <3>3, <3>4 DEF ReadFrame, KeepSocket, Succeed
  <2>. QED BY <1>5, <2>2, <2>3, <2>4, <2>5, <2>6, <2>7, <2>8 DEF ActorStep
<1>. QED BY <1>2, <1>3, <1>4, <1>5 DEF Next

THEOREM NoSocketLeaks ==
    ASSUME ~JoinTimesOut
    PROVE  Spec => []NoSocketLeak
<1>1. Init => Owned /\ Kept
  BY DEF Init, Owned, Live, Kept
<1>2. Base /\ Owned /\ Kept /\ [Next]_vars => Owned' /\ Kept'
  <2>1. Owned /\ Kept /\ UNCHANGED vars => Owned' /\ Kept'
    BY DEF Owned, Live, Kept, Ended, vars, lifeVars, actorVars, callerVars, socketVars, wireVars
  <2>. QED BY <2>1, StepOwned, StepKept, SocketAssumption
<1>3. Kept => NoSocketLeak
  BY DEF Kept, Ended, NoSocketLeak
<1>. QED BY <1>1, <1>2, <1>3, BaseInvariant, PTL DEF Spec
=============================================================================
