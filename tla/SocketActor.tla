----------------------------- MODULE SocketActor -----------------------------
(***************************************************************************)
(* SocketTransport (_tdx_wire/transport/socket.py): callers put tickets    *)
(* into the mailbox of an actor thread, which connects, shakes hands,      *)
(* sends, reads, retries and closes the socket on their behalf.  close()   *)
(* stops the actor; the next ticket starts another.                        *)
(*                                                                         *)
(* Time is the set late of the tickets whose deadline has passed.  Of a    *)
(* connection the model keeps the requests the server has not answered,    *)
(* the answers the client has not read, and whether the peer is gone.      *)
(* Frames that nobody waits for go to the push queue, which is left out.   *)
(***************************************************************************)
EXTENDS Naturals, Sequences, FiniteSets

CONSTANTS
    Caller,         \* threads that use the transport
    Actor,          \* actor threads it can start
    FirstActor,     \* the one that __init__ starts
    Ticket,         \* calls of execute() and connect()
    Heartbeat,      \* the ticket the actor makes for itself
    Connection,     \* sockets that can be open at the same time
    JoinTimesOut,   \* whether join() in close() may give up
    NoConnection, None

MailboxSize == 1
StopActor == "stop"
AnyTicket == Ticket \cup {Heartbeat}

ASSUME SocketAssumption ==
    /\ FirstActor \in Actor
    /\ Heartbeat \notin Ticket
    /\ StopActor \notin Ticket
    /\ JoinTimesOut \in BOOLEAN
    /\ NoConnection \notin Connection
    /\ None \notin Actor \cup AnyTicket

\* A frame the actor sends; the server's answer carries the same fields.
Request == [id: Nat, what: {"handshake", "request"}, for: AnyTicket]

VARIABLES
    thread,         \* _actor_thread
    latest,         \* the actor _mailbox and _stop_event belong to
    mailbox,        \* mailbox of each actor
    stopped,        \* actors whose stop event is set
    apc,            \* where each actor is
    task,           \* the ticket it runs
    again,          \* actors in the second attempt of their ticket
    awaited,        \* the frame whose answer it reads for
    socket,         \* _socket
    handshaken,     \* _handshaken
    broken,         \* _reader_error is set
    msgId,          \* _msg_id
    open,           \* connections with an open socket
    gone,           \* open connections whose peer has gone away
    pending,        \* requests the server has not answered
    inbox,          \* answers the client has not read
    greeted,        \* open connections whose handshake the server has answered
    cpc,            \* where each caller is
    mine,           \* its ticket
    ref,            \* the actor whose mailbox it read
    late,           \* tickets whose deadline has passed
    connects,       \* tickets of connect(), whose command is _CONNECT_COMMAND
    cancelled,      \* tickets whose caller has given up
    outcome,        \* done, result and error of each ticket
    answer          \* whose answer its result is

lifeVars == <<thread, latest, mailbox, stopped>>
actorVars == <<apc, task, again, awaited>>
socketVars == <<socket, handshaken, broken, msgId>>
wireVars == <<open, gone, pending, inbox, greeted>>
callerVars == <<cpc, mine, ref>>
wishVars == <<connects, late, cancelled>>
resultVars == <<outcome, answer>>
ticketVars == <<wishVars, resultVars>>
vars == <<lifeVars, actorVars, socketVars, wireVars, callerVars, ticketVars>>

ActorState == {"absent", "head", "polling", "ensuring", "connecting", "ready", "reading",
               "closing", "draining", "dead"}
CallerState == {"idle", "admitting", "waiting", "joining", "joined"}
Outcome == {"unused", "open", "ok", "error"}

Init ==
    /\ latest = FirstActor
    /\ thread = FirstActor
    /\ mailbox = [a \in Actor |-> <<>>]
    /\ stopped = {}
    /\ apc = [a \in Actor |-> IF a = FirstActor THEN "head" ELSE "absent"]
    /\ task = [a \in Actor |-> None]
    /\ again = {}
    /\ awaited = [a \in Actor |-> None]
    /\ socket = NoConnection
    /\ handshaken = FALSE
    /\ broken = FALSE
    /\ msgId = 1
    /\ open = {} /\ gone = {} /\ greeted = {}
    /\ pending = [k \in Connection |-> {}]
    /\ inbox = [k \in Connection |-> <<>>]
    /\ cpc = [c \in Caller |-> "idle"]
    /\ mine = [c \in Caller |-> None]
    /\ ref = [c \in Caller |-> None]
    /\ connects = {} /\ late = {} /\ cancelled = {}
    /\ outcome = [t \in Ticket |-> "unused"]
    /\ answer = [t \in Ticket |-> None]

-----------------------------------------------------------------------------
(***************************************************************************)
(* Callers.                                                                *)
(***************************************************************************)
Return(c) ==
    /\ cpc' = [cpc EXCEPT ![c] = "idle"]
    /\ mine' = [mine EXCEPT ![c] = None]
    /\ ref' = [ref EXCEPT ![c] = None]

\* The caller raises by itself, without an answer from the actor.
GiveUp(c) ==
    /\ cancelled' = cancelled \cup {mine[c]}
    /\ Return(c)
    /\ UNCHANGED <<lifeVars, actorVars, socketVars, wireVars, connects, late,
                   resultVars>>

\* _start_actor_locked
StartActor(a) ==
    /\ apc[a] = "absent"
    /\ thread' = a
    /\ latest' = a
    /\ apc' = [apc EXCEPT ![a] = "head"]

\* _submit_ticket reads the actor, its mailbox and its stop event under the lifecycle lock.
SubmitTicket(c, t) ==
    /\ cpc[c] = "idle"
    /\ outcome[t] = "unused"
    /\ outcome' = [outcome EXCEPT ![t] = "open"]
    /\ connects' \in {connects, connects \cup {t}}
    /\ IF thread = None THEN \E a \in Actor : StartActor(a) ELSE UNCHANGED <<thread, latest, apc>>
    /\ IF latest' \in stopped
       THEN UNCHANGED callerVars
       ELSE /\ cpc' = [cpc EXCEPT ![c] = "admitting"]
            /\ mine' = [mine EXCEPT ![c] = t]
            /\ ref' = [ref EXCEPT ![c] = latest']
    /\ UNCHANGED <<mailbox, stopped, task, again, awaited, socketVars, wireVars, late, cancelled,
                   answer>>

PutTicket(c) ==
    /\ cpc[c] = "admitting"
    /\ Len(mailbox[ref[c]]) < MailboxSize
    /\ mailbox' = [mailbox EXCEPT ![ref[c]] = Append(@, mine[c])]
    /\ cpc' = [cpc EXCEPT ![c] = "waiting"]
    /\ UNCHANGED <<thread, latest, stopped, actorVars, socketVars, wireVars, mine, ref, ticketVars>>

PutTimesOut(c) ==
    /\ cpc[c] = "admitting"
    /\ Len(mailbox[ref[c]]) >= MailboxSize
    /\ mine[c] \in late
    /\ GiveUp(c)

WaitReturns(c) ==
    /\ cpc[c] = "waiting"
    /\ outcome[mine[c]] \in {"ok", "error"}
    /\ Return(c)
    /\ UNCHANGED <<lifeVars, actorVars, socketVars, wireVars, ticketVars>>

WaitTimesOut(c) ==
    /\ cpc[c] = "waiting"
    /\ outcome[mine[c]] = "open"
    /\ mine[c] \in late
    /\ GiveUp(c)

\* Variant: the mailbox takes the stop message even when it is full.
WithStopUnbounded(box) == Append(box, StopActor)

\* put_nowait(_STOP_ACTOR); there may be no room.
WithStop(box) == IF Len(box) < MailboxSize THEN Append(box, StopActor) ELSE box

\* close() under the lifecycle lock.
Close(c) ==
    /\ cpc[c] = "idle"
    /\ thread # None
    /\ stopped' = stopped \cup {latest}
    /\ mailbox' = [mailbox EXCEPT ![latest] = WithStop(@)]
    /\ cpc' = [cpc EXCEPT ![c] = "joining"]
    /\ ref' = [ref EXCEPT ![c] = thread]
    /\ UNCHANGED <<thread, latest, actorVars, socketVars, wireVars, mine, ticketVars>>

\* Variant: close() does not wait for the actor to end.
JoinEndsAtOnce(a) == TRUE

\* actor.join(timeout=...)
JoinEnds(a) == apc[a] = "dead" \/ JoinTimesOut

Join(c) ==
    /\ cpc[c] = "joining"
    /\ JoinEnds(ref[c])
    /\ cpc' = [cpc EXCEPT ![c] = "joined"]
    /\ UNCHANGED <<lifeVars, actorVars, socketVars, wireVars, mine, ref, ticketVars>>

CloseReturns(c) ==
    /\ cpc[c] = "joined"
    /\ thread' = IF thread = ref[c] THEN None ELSE thread
    /\ Return(c)
    /\ UNCHANGED <<latest, mailbox, stopped, actorVars, socketVars, wireVars, ticketVars>>

\* The deadline of a ticket passes.
Deadline(t) ==
    /\ \/ t \in Ticket /\ outcome[t] = "open"
       \/ t = Heartbeat /\ \E a \in Actor : task[a] = Heartbeat
    /\ t \notin late
    /\ late' = late \cup {t}
    /\ UNCHANGED <<lifeVars, actorVars, socketVars, wireVars, callerVars,
                   connects, cancelled, resultVars>>

-----------------------------------------------------------------------------
(***************************************************************************)
(* The actor's loop.                                                       *)
(***************************************************************************)
MoveActor(a, s) == apc' = [apc EXCEPT ![a] = s]

\* A step of the loop that only moves the actor.
StepActor(a, s) ==
    /\ MoveActor(a, s)
    /\ UNCHANGED <<lifeVars, task, again, awaited, socketVars, wireVars, callerVars, ticketVars>>

\* Variant: only the stop message ends the loop.
GoesOnUntilMessage(a) == TRUE

\* while not stop_event.is_set()
GoesOn(a) == a \notin stopped

LoopHead(a) ==
    /\ apc[a] = "head"
    /\ StepActor(a, IF GoesOn(a) THEN "polling" ELSE "closing")

\* The actor runs ticket t in its first attempt.
Run(a, t) ==
    /\ task' = [task EXCEPT ![a] = t]
    /\ again' = again \ {a}
    /\ MoveActor(a, "ensuring")

\* done.set(), with an error instead of a result for a caller that has given up.
FinishTicket(t, o, whose) ==
    /\ outcome' = IF t \in Ticket
                  THEN [outcome EXCEPT ![t] = IF t \in cancelled THEN "error" ELSE o]
                  ELSE outcome
    /\ answer' = IF t \in Ticket THEN [answer EXCEPT ![t] = whose] ELSE answer

\* mailbox.get: the stop message, a ticket nobody waits for any more, or a ticket to run.
TakeTicket(a) ==
    /\ apc[a] = "polling"
    /\ mailbox[a] # <<>>
    /\ mailbox' = [mailbox EXCEPT ![a] = Tail(@)]
    /\ LET t == Head(mailbox[a]) IN
       \/ /\ t = StopActor
          /\ MoveActor(a, "closing")
          /\ UNCHANGED <<task, again, resultVars>>
       \/ /\ t # StopActor /\ t \in cancelled \cup late
          /\ FinishTicket(t, "error", None)
          /\ MoveActor(a, "head")
          /\ UNCHANGED <<task, again>>
       \/ /\ t # StopActor /\ t \notin cancelled \cup late
          /\ Run(a, t)
          /\ UNCHANGED resultVars
    /\ UNCHANGED <<thread, latest, stopped, awaited, socketVars, wireVars, callerVars, wishVars>>

\* The mailbox stays empty; the actor looks at the stop event again.
PollTimesOut(a) ==
    /\ apc[a] = "polling"
    /\ mailbox[a] = <<>>
    /\ a \in stopped
    /\ StepActor(a, "head")

\* The mailbox stays empty until the next heartbeat is due.
BeginHeartbeat(a) ==
    /\ apc[a] = "polling"
    /\ mailbox[a] = <<>>
    /\ Run(a, Heartbeat)
    /\ late' = late \ {Heartbeat}
    /\ UNCHANGED <<lifeVars, awaited, socketVars, wireVars, callerVars,
                   connects, cancelled, resultVars>>

-----------------------------------------------------------------------------
(***************************************************************************)
(* Running a ticket: _run_ticket, _execute_actor, _request_actor and       *)
(* _read_response_actor.                                                   *)
(***************************************************************************)
\* _close_socket_actor; box is what is left unread of the connections.
CloseSocketActor(box) ==
    /\ socket' = NoConnection
    /\ IF socket = NoConnection
       THEN UNCHANGED <<handshaken, open, gone, pending, greeted>> /\ inbox' = box
       ELSE /\ handshaken' = FALSE
            /\ open' = open \ {socket}
            /\ gone' = gone \ {socket}
            /\ greeted' = greeted \ {socket}
            /\ pending' = [pending EXCEPT ![socket] = {}]
            /\ inbox' = [box EXCEPT ![socket] = <<>>]

KeepSocket(box) ==
    /\ inbox' = box
    /\ UNCHANGED <<socket, handshaken, open, gone, pending, greeted>>

\* The actor is done with its ticket.
EndTask(a) ==
    /\ MoveActor(a, "head")
    /\ task' = [task EXCEPT ![a] = None]
    /\ awaited' = [awaited EXCEPT ![a] = None]
    /\ again' = again \ {a}

Retried(a, exc) ==
    exc = "closed" /\ a \notin again /\ a \notin stopped /\ task[a] \notin cancelled \cup late

(***************************************************************************)
(* _run_ticket catches what an attempt raises: a broken connection is      *)
(* closed and the ticket tried once more; a timeout closes the connection; *)
(* a protocol error does not; anything else makes the next ticket connect  *)
(* again.  The second attempt fails without touching the socket.           *)
(***************************************************************************)
Raise(a, exc, box) ==
    /\ IF exc \in {"closed", "timeout"} /\ a \notin again
       THEN CloseSocketActor(box)
       ELSE KeepSocket(box)
    /\ \/ /\ Retried(a, exc)
          /\ again' = again \cup {a}
          /\ MoveActor(a, "ensuring")
          /\ awaited' = [awaited EXCEPT ![a] = None]
          /\ UNCHANGED <<broken, task, resultVars>>
       \/ /\ ~Retried(a, exc)
          /\ broken' = (broken \/ task[a] = Heartbeat \/ (exc = "other" /\ a \notin again))
          /\ FinishTicket(task[a], "error", None)
          /\ EndTask(a)

Succeed(a, whose) ==
    /\ FinishTicket(task[a], "ok", whose)
    /\ EndTask(a)

\* Variant: a broken socket is forgotten without being closed.
ForgetSocket ==
    /\ socket' = NoConnection
    /\ UNCHANGED <<handshaken, wireVars>>

\* A broken socket is closed before another one is opened.
DropSocket == CloseSocketActor(inbox)

\* _ensure_socket_actor looks at the stop event of the latest actor, and keeps a socket that works.
EnsureSocket(a) ==
    /\ apc[a] = "ensuring"
    /\ \/ /\ latest \in stopped
          /\ Raise(a, "closed", inbox)
       \/ /\ latest \notin stopped
          /\ \/ socket # NoConnection /\ ~broken /\ KeepSocket(inbox) /\ MoveActor(a, "ready")
             \/ (socket = NoConnection \/ broken) /\ DropSocket /\ MoveActor(a, "connecting")
          /\ UNCHANGED <<task, again, awaited, broken, resultVars>>
    /\ UNCHANGED <<lifeVars, msgId, callerVars, wishVars>>

\* One of the hosts takes the connection ...
Connected(a) ==
    /\ apc[a] = "connecting"
    /\ \E k \in Connection \ open :
          /\ socket' = k
          /\ open' = open \cup {k}
    /\ broken' = FALSE
    /\ handshaken' = FALSE
    /\ MoveActor(a, "ready")
    /\ UNCHANGED <<lifeVars, task, again, awaited, msgId, gone, pending,
                   inbox, greeted, callerVars, ticketVars>>

\* ... or none does.
ConnectFails(a) ==
    /\ apc[a] = "connecting"
    /\ Raise(a, "closed", inbox)
    /\ UNCHANGED <<lifeVars, msgId, callerVars, wishVars>>

\* connect() only wanted the connection.
FinishConnect(a) ==
    /\ apc[a] = "ready"
    /\ task[a] \in connects
    /\ Succeed(a, None)
    /\ UNCHANGED <<lifeVars, socketVars, wireVars, callerVars, wishVars>>

\* Variant: the second attempt goes without a handshake.
NeedsHandshakeOnce(a) == ~handshaken /\ a \notin again

\* Every connection is greeted once, before the request.
NeedsHandshake(a) == ~handshaken

Frame(a) ==
    [id |-> msgId, what |-> IF NeedsHandshake(a) THEN "handshake" ELSE "request", for |-> task[a]]

\* sendall of the handshake or of the request.
Send(a) ==
    /\ apc[a] = "ready"
    /\ task[a] \notin connects
    /\ socket # NoConnection
    /\ msgId' = msgId + 1
    /\ awaited' = [awaited EXCEPT ![a] = Frame(a)]
    /\ pending' = [pending EXCEPT ![socket] = IF socket \in gone THEN @ ELSE @ \cup {Frame(a)}]
    /\ MoveActor(a, "reading")
    /\ UNCHANGED <<lifeVars, task, again, socket, handshaken, broken, open, gone, inbox, greeted,
                   callerVars, ticketVars>>

\* The frame cannot be built, or sendall raises; without a socket the assertion does.
SendFails(a) ==
    /\ apc[a] = "ready"
    /\ task[a] \notin connects
    /\ msgId' = msgId + 1
    /\ \E exc \in {"closed", "protocol", "other"} : Raise(a, exc, inbox)
    /\ UNCHANGED <<lifeVars, callerVars, wishVars>>

\* Variant: any answer to a frame of this type will do.
MatchesType(a, f) == f.what = awaited[a].what

\* msg_id and msg_type are compared.
Matches(a, f) == f.id = awaited[a].id /\ f.what = awaited[a].what

\* The next frame has arrived.
ReadFrame(a) ==
    /\ apc[a] = "reading"
    /\ socket # NoConnection /\ inbox[socket] # <<>>
    /\ LET f == Head(inbox[socket])
           rest == [inbox EXCEPT ![socket] = Tail(@)]
       IN \* of another request: it is published
          \/ /\ ~Matches(a, f)
             /\ KeepSocket(rest)
             /\ UNCHANGED <<actorVars, broken, resultVars>>
          \* the caller has given up meanwhile
          \/ /\ Matches(a, f)
             /\ task[a] \in cancelled
             /\ Raise(a, "timeout", rest)
          \* it cannot be decoded or parsed
          \/ \E exc \in {"protocol", "other"} : Raise(a, exc, rest)
          \/ /\ Matches(a, f)
             /\ task[a] \notin cancelled
             /\ f.what = "handshake"
             /\ handshaken' = TRUE
             /\ inbox' = rest
             /\ MoveActor(a, "ready")
             /\ awaited' = [awaited EXCEPT ![a] = None]
             /\ UNCHANGED <<task, again, socket, broken, open, gone, pending, greeted, resultVars>>
          \/ /\ Matches(a, f)
             /\ task[a] \notin cancelled
             /\ f.what = "request"
             /\ KeepSocket(rest)
             /\ Succeed(a, f.for)
             /\ UNCHANGED broken
    /\ UNCHANGED <<lifeVars, msgId, callerVars, wishVars>>

\* Variant: the deadline is not looked at while reading.
ReadErrorsNoDeadline(a) ==
    IF socket = NoConnection THEN {"other"}
    ELSE {exc \in {"closed"} : a \in stopped \/ socket \in gone}

\* What ends the wait: the actor is stopped, the deadline has passed, or the peer is gone.
ReadErrors(a) ==
    IF socket = NoConnection THEN {"other"}
    ELSE {exc \in {"closed"} : a \in stopped \/ socket \in gone}
         \cup {exc \in {"timeout"} : a \notin stopped /\ task[a] \in late}

\* No frame has arrived.
ReadNothing(a) ==
    /\ apc[a] = "reading"
    /\ socket # NoConnection => inbox[socket] = <<>>
    /\ \E exc \in ReadErrors(a) : Raise(a, exc, inbox)
    /\ UNCHANGED <<lifeVars, msgId, callerVars, wishVars>>

\* After the loop: close the socket ...
CloseSocket(a) ==
    /\ apc[a] = "closing"
    /\ CloseSocketActor(inbox)
    /\ MoveActor(a, "draining")
    /\ UNCHANGED <<lifeVars, task, again, awaited, broken, msgId, callerVars,
                   ticketVars>>

\* ... and fail what is still in the mailbox.
FailMailbox(a) ==
    /\ apc[a] = "draining"
    /\ \/ /\ mailbox[a] # <<>>
          /\ mailbox' = [mailbox EXCEPT ![a] = Tail(@)]
          /\ LET t == Head(mailbox[a]) IN
             IF t = StopActor THEN UNCHANGED <<outcome, answer>> ELSE FinishTicket(t, "error", None)
          /\ UNCHANGED apc
       \/ /\ mailbox[a] = <<>>
          /\ MoveActor(a, "dead")
          /\ UNCHANGED <<mailbox, resultVars>>
    /\ UNCHANGED <<thread, latest, stopped, task, again, awaited, socketVars, wireVars, callerVars,
                   wishVars>>

-----------------------------------------------------------------------------
(***************************************************************************)
(* The server and the network.                                             *)
(***************************************************************************)
Answer(k) ==
    /\ k \in open \ gone
    /\ \E q \in pending[k] :
          /\ pending' = [pending EXCEPT ![k] = @ \ {q}]
          /\ inbox' = [inbox EXCEPT ![k] = Append(@, q)]
          /\ greeted' = IF q.what = "handshake" THEN greeted \cup {k} ELSE greeted
    /\ UNCHANGED <<lifeVars, actorVars, socketVars, open, gone, callerVars, ticketVars>>

\* The connection breaks; what has arrived may be lost with it.
Break(k) ==
    /\ k \in open \ gone
    /\ gone' = gone \cup {k}
    /\ pending' = [pending EXCEPT ![k] = {}]
    /\ inbox' = inbox \/ inbox' = [inbox EXCEPT ![k] = <<>>]
    /\ UNCHANGED <<lifeVars, actorVars, socketVars, open, greeted, callerVars, ticketVars>>

ActorStep(a) ==
    \/ LoopHead(a) \/ TakeTicket(a) \/ PollTimesOut(a)
    \/ EnsureSocket(a) \/ Connected(a) \/ ConnectFails(a) \/ FinishConnect(a)
    \/ Send(a) \/ SendFails(a) \/ ReadFrame(a) \/ ReadNothing(a)
    \/ CloseSocket(a) \/ FailMailbox(a)

CallerStep(c) ==
    \/ PutTicket(c) \/ PutTimesOut(c) \/ WaitReturns(c) \/ WaitTimesOut(c)
    \/ Join(c) \/ CloseReturns(c)

Next ==
    \/ \E a \in Actor : ActorStep(a) \/ BeginHeartbeat(a)
    \/ \E c \in Caller : CallerStep(c) \/ Close(c) \/ \E t \in Ticket : SubmitTicket(c, t)
    \/ \E t \in AnyTicket : Deadline(t)
    \/ \E k \in Connection : Answer(k) \/ Break(k)

Spec == Init /\ [][Next]_vars

\* Threads go on and deadlines pass; the server owes nothing, and nobody has to call.
Fairness ==
    /\ \A a \in Actor : WF_vars(ActorStep(a))
    /\ \A c \in Caller : WF_vars(CallerStep(c))
    /\ \A t \in AnyTicket : WF_vars(Deadline(t))

-----------------------------------------------------------------------------
\* Every variable has its type, and no mailbox holds more than its size.
TypeOK ==
    /\ thread \in Actor \cup {None}
    /\ latest \in Actor
    /\ mailbox \in [Actor -> Seq(Ticket \cup {StopActor})]
    /\ \A a \in Actor : Len(mailbox[a]) <= MailboxSize
    /\ stopped \subseteq Actor
    /\ apc \in [Actor -> ActorState]
    /\ task \in [Actor -> AnyTicket \cup {None}]
    /\ again \subseteq Actor
    /\ awaited \in [Actor -> Request \cup {None}]
    /\ socket \in Connection \cup {NoConnection}
    /\ handshaken \in BOOLEAN
    /\ broken \in BOOLEAN
    /\ msgId \in Nat
    /\ open \subseteq Connection
    /\ gone \subseteq open
    /\ greeted \subseteq open
    /\ pending \in [Connection -> SUBSET Request]
    /\ inbox \in [Connection -> Seq(Request)]
    /\ cpc \in [Caller -> CallerState]
    /\ mine \in [Caller -> Ticket \cup {None}]
    /\ ref \in [Caller -> Actor \cup {None}]
    /\ late \subseteq AnyTicket
    /\ connects \subseteq Ticket
    /\ cancelled \subseteq Ticket
    /\ outcome \in [Ticket -> Outcome]
    /\ answer \in [Ticket -> Ticket \cup {None}]

(***************************************************************************)
(* "One daemon actor thread owns one socket": through closes and restarts  *)
(* at most one actor is alive, provided that join() waits long enough.     *)
(***************************************************************************)
SingleOwner ==
    \A a, b \in Actor :
        apc[a] \notin {"absent", "dead"} /\ apc[b] \notin {"absent", "dead"} => a = b

(***************************************************************************)
(* A ticket that succeeds carries the server's answer to its own request,  *)
(* although answers to earlier tickets may still arrive on a connection    *)
(* that a failed second attempt has left open.                             *)
(***************************************************************************)
OwnAnswer ==
    \A t \in Ticket \ connects : outcome[t] = "ok" => answer[t] = t

(***************************************************************************)
(* No request reaches the server on a connection whose handshake it has    *)
(* not answered, whatever failed or was reconnected in between.            *)
(***************************************************************************)
HandshakeFirst ==
    \A k \in Connection : \A q \in pending[k] : q.what = "request" => k \in greeted

(***************************************************************************)
(* No socket is forgotten: the one in _socket is the only open one, and    *)
(* when the actors have ended there is none.                               *)
(***************************************************************************)
NoSocketLeak ==
    /\ open \subseteq {socket}
    /\ (\A a \in Actor : apc[a] \in {"absent", "dead"}) => open = {}

(***************************************************************************)
(* The actor gets rid of every ticket it runs, whether or not the server   *)
(* ever answers: otherwise one ticket would block the slot for all others. *)
(***************************************************************************)
ActorIsFreed ==
    \A a \in Actor, t \in AnyTicket : task[a] = t ~> task[a] # t

\* close() returns even if the stop message found no room in the mailbox.
CloseEnds ==
    \A c \in Caller : cpc[c] = "joining" ~> cpc[c] = "idle"
=============================================================================
