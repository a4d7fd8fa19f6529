--------------------------- MODULE CommandExecution ---------------------------
(***************************************************************************)
(* How a line becomes an answer: the interpreter (mbed-client-cli,         *)
(* external) runs one line at a time and keeps the others; the handler of  *)
(* a command (CommandSuiteImplementation.cpp) answers by itself or starts  *)
(* a procedure (AsyncProcedure), which lives until a callback of the BLE   *)
(* stack or its timeout ends it; its end closes the response, which posts  *)
(* cmd_ready, with which the interpreter goes on to the next line. All of  *)
(* it runs from the event queue (EventQueueClassic), in the main loop;     *)
(* interrupts post at any time. Of the queue are kept the order of the     *)
(* events and what the position of an event means for its cancellation.    *)
(***************************************************************************)
EXTENDS Integers, Commands

CONSTANTS Table,      \* the commands: a function from names to Commands' records
          Malformed,  \* the commands known to give answers that do not parse
          Capacity,   \* of the event queue
          MaxLines    \* bound on the lines that wait to be run

(* The states of a procedure that is alive.                                *)
Lives == {"live", "service"}

(* The queue has room for the events below (NeverFull); it has 10 places.  *)
ASSUME CommandsAssumption ==
    /\ Malformed \subseteq DOMAIN Table
    /\ Capacity \in Nat /\ Capacity >= 3
    /\ MaxLines \in Nat

(* A procedure goes from one of its states to another one or to its end;   *)
(* handlers and procedures speak the calls of CommandResponse.             *)
ASSUME TableAssumption ==
    \A c \in DOMAIN Table :
        /\ Table[c].answers \subseteq Seq(Says)
        /\ \A s \in Table[c].steps :
            /\ s.say \in Seq(Says)
            /\ s.event = "start" => s.from = "new" /\ s.to \in Lives \union {"end", "freed"}
            /\ s.event = "callback" => s.to \in Lives \union {"end"}
            /\ s.event = "timeout" => s.to \in {"end", "twice"}

VARIABLES inbox,     \* lines in rxBuffer
          lines,     \* lines the interpreter has and has not begun
          running,   \* the interpreter waits for the end of a command
          command,   \* the last command begun
          phase,     \* the state of its procedure, or "none"
          response,  \* its response; it is closed when phase is "none"
          ready,     \* the ready events, in order
          waiting,   \* the timeout event waits for its time, behind them
          thread,    \* the event the main loop runs
          dangling,  \* the stack has a pointer to a procedure that was deleted
          fault      \* why the board does nothing any more

vars == <<inbox, lines, running, command, phase, response, ready, waiting,
          thread, dangling, fault>>

Good == fault = "none"

(* Commands are named by their suite and their name in it.                 *)
NoCommand == <<"none", "none">>

(* The events of the queue: at most one timeout, that of the procedure.    *)
TimedOut == "timeout" \in Range(ready)
Posted(event) == event \in Range(ready)

Init ==
    /\ inbox = 0 /\ lines = 0 /\ running = FALSE
    /\ command = NoCommand /\ phase = "none" /\ response = NewResponse
    /\ ready = <<>> /\ waiting = FALSE /\ thread = "idle"
    /\ dangling = FALSE /\ fault = "none"

-----------------------------------------------------------------------------
(* post, behind the ready events q: the queue, full when these and the     *)
(* timeout that waits (timed) fill it, gives NULL, which no caller looks   *)
(* at.                                                                     *)
Post(q, timed, event) ==
    IF Len(q) + (IF timed THEN 1 ELSE 0) < Capacity THEN Append(q, event) ELSE q

(* cancel of the timeout in q, ahead of which stand the ready events it is *)
(* not one of: the handle is NULL when its post_in had failed.             *)
TimeoutAt(q, timed) ==
    IF timed THEN Len(q) + 1
    ELSE IF "timeout" \in Range(q) THEN CHOOSE i \in DOMAIN q : q[i] = "timeout" ELSE 0

(* erase() only returns for the first two events of the list.              *)
Erases(q, timed) == TimeoutAt(q, timed) <= 2

Without(q) ==
    IF "timeout" \in Range(q) THEN RemoveAt(q, TimeoutAt(q, FALSE)) ELSE q

(* Mutated forms of AsyncProcedure's end: the timeout is not cancelled; or *)
(* the response is closed for nobody.                                      *)
DeleteKeepsTimeout(q, timed) ==
    /\ phase' = "none"
    /\ ready' = Post(q, timed, "cmd_ready")
    /\ waiting' = timed
    /\ UNCHANGED fault

DeleteSilently(q, timed) ==
    /\ phase' = "none"
    /\ ready' = Without(q)
    /\ waiting' = FALSE
    /\ UNCHANGED fault

(* delete of a procedure: the destructor cancels the timeout, then its     *)
(* response, referred to by nothing else, is closed: whenAsyncCommandEnd   *)
(* posts cmd_ready.                                                        *)
Delete(q, timed) ==
    \/ /\ Erases(q, timed)
       /\ phase' = "none"
       /\ ready' = Post(Without(q), FALSE, "cmd_ready")
       /\ waiting' = FALSE
       /\ UNCHANGED fault
    \/ /\ ~Erases(q, timed)
       /\ fault' = "hung"
       /\ UNCHANGED <<phase, ready, waiting>>

-----------------------------------------------------------------------------
(* Mutated form: the consumer is woken for each line.                      *)
LineArrivesAlwaysWakes ==
    /\ Good
    /\ inbox + lines < MaxLines
    /\ inbox' = inbox + 1
    /\ ready' = Post(ready, waiting, "consume")
    /\ UNCHANGED <<lines, running, command, phase, response, waiting, thread, dangling, fault>>

(* The serial port: rxBuffer gets a line; the interrupt wakes the consumer *)
(* when it was empty (SerialRx).                                           *)
LineArrives ==
    /\ Good
    /\ inbox + lines < MaxLines
    /\ inbox' = inbox + 1
    /\ ready' = IF inbox = 0 THEN Post(ready, waiting, "consume") ELSE ready
    /\ UNCHANGED <<lines, running, command, phase, response, waiting, thread, dangling, fault>>

(* scheduleBleEventsProcessing: the stack asks once for its events to be   *)
(* processed, until they are.                                              *)
StackSignals ==
    /\ Good
    /\ ~Posted("ble")
    /\ ready' = Post(ready, waiting, "ble")
    /\ UNCHANGED <<inbox, lines, running, command, phase, response, waiting, thread, dangling, fault>>

(* The ticker: the timeout of the procedure is ready.                      *)
TimeoutRipens ==
    /\ Good
    /\ waiting
    /\ waiting' = FALSE
    /\ ready' = Append(ready, "timeout")
    /\ UNCHANGED <<inbox, lines, running, command, phase, response, thread, dangling, fault>>

(* dispatch, for the events but the timeout. cmd_ready_cb calls cmd_next,  *)
(* with which the command that was running is over.                        *)
Dispatch ==
    /\ Good
    /\ thread = "idle" /\ ready # <<>>
    /\ Head(ready) # "timeout"
    /\ ready' = Tail(ready)
    /\ thread' = Head(ready)
    /\ running' = (running /\ Head(ready) # "cmd_ready")
    /\ UNCHANGED <<inbox, lines, command, phase, response, waiting, dangling, fault>>

(* consumeSerialBytes gives a line to the interpreter; with the last one   *)
(* it has seen rxBuffer empty, and will return.                            *)
TakeLine ==
    /\ Good
    /\ thread = "consume" /\ inbox > 0
    /\ running \/ lines = 0
    /\ inbox' = inbox - 1
    /\ lines' = lines + 1
    /\ thread' = IF inbox = 1 THEN "consumed" ELSE "consume"
    /\ UNCHANGED <<running, command, phase, response, ready, waiting, dangling, fault>>

(* The callback of the event returns, when the interpreter has nothing     *)
(* that it can run.                                                        *)
Return ==
    /\ Good
    /\ thread \in {"consumed", "cmd_ready", "ble"}
    /\ thread # "ble" => running \/ lines = 0
    /\ thread' = "idle"
    /\ UNCHANGED <<inbox, lines, running, command, phase, response, ready, waiting, dangling, fault>>

-----------------------------------------------------------------------------
(* Mutated forms: a line is begun when there is none; or before the end of *)
(* the command that runs.                                                  *)
BeginUnchecked(c) ==
    /\ Good
    /\ thread \in {"consume", "consumed", "cmd_ready"}
    /\ ~running
    /\ lines' = lines - 1
    /\ command' = c
    /\ UNCHANGED <<inbox, thread, dangling>>

BeginAtOnce(c) ==
    /\ Good
    /\ thread \in {"consume", "consumed", "cmd_ready"}
    /\ lines > 0
    /\ lines' = lines - 1
    /\ command' = c
    /\ UNCHANGED <<inbox, thread, dangling>>

(* The interpreter begins a line: the command is any of the table.         *)
Begin(c) ==
    /\ Good
    /\ thread \in {"consume", "consumed", "cmd_ready"}
    /\ ~running /\ lines > 0
    /\ lines' = lines - 1
    /\ command' = c
    /\ UNCHANGED <<inbox, thread, dangling>>

(* commandHandler, when the command answers: an unknown command, bad       *)
(* arguments (CommandHandlerGenerator too), or the handler itself.         *)
HandlerAnswers(c) ==
    /\ Begin(c)
    /\ \E says \in Table[c].answers \union {<<"err+">>} : response' = Say(NewResponse, says)
    /\ UNCHANGED <<running, phase, ready, waiting, fault>>

(* The handler starts a procedure: start() posts the timeout before it     *)
(* calls doStart; the response outlives the handler, which asks for it to  *)
(* post cmd_ready when it closes.                                          *)
ProcedureStarts(c) ==
    /\ Begin(c)
    /\ \E s \in Table[c].steps :
        /\ s.event = "start" /\ s.to \notin {"end", "freed"}
        /\ response' = Say(NewResponse, s.say)
        /\ phase' = s.to
    /\ running' = TRUE
    /\ waiting' = (Len(ready) < Capacity)
    /\ UNCHANGED <<ready, fault>>

(* doStart returns false: the procedure is deleted at once, and the        *)
(* handler returns the status code of the response, which nothing else     *)
(* refers to any more.                                                     *)
ProcedureFails(c) ==
    /\ Begin(c)
    /\ \E s \in Table[c].steps :
        /\ s.event = "start" /\ s.to = "end"
        /\ response' = Say(NewResponse, s.say)
    /\ fault' = IF Erases(ready, Len(ready) < Capacity) THEN "none" ELSE "hung"
    /\ UNCHANGED <<running, phase, ready, waiting>>

(* The constructor deletes the procedure, start() is called nonetheless:   *)
(* what comes then is undefined.                                           *)
ProcedureFreed(c) ==
    /\ Begin(c)
    /\ \E s \in Table[c].steps :
        /\ s.event = "start" /\ s.to = "freed"
        /\ response' = Say(NewResponse, s.say)
    /\ fault' = "freed"
    /\ UNCHANGED <<running, phase, ready, waiting>>

-----------------------------------------------------------------------------
(* A callback of the stack, within BLE::processEvents.                     *)
ProcedureGoesOn ==
    /\ Good
    /\ thread = "ble" /\ phase # "none"
    /\ \E s \in Table[command].steps :
        /\ s.event = "callback" /\ s.from = phase /\ s.to # "end"
        /\ response' = Say(response, s.say)
        /\ phase' = s.to
    /\ UNCHANGED <<inbox, lines, running, command, ready, waiting, thread, dangling, fault>>

ProcedureEnds ==
    /\ Good
    /\ thread = "ble" /\ phase # "none"
    /\ \E s \in Table[command].steps :
        /\ s.event = "callback" /\ s.from = phase /\ s.to = "end"
        /\ response' = Say(response, s.say)
    /\ Delete(ready, waiting)
    /\ UNCHANGED <<inbox, lines, running, command, thread, dangling>>

(* A callback to a procedure deleted before.                               *)
CallbackDangles ==
    /\ Good
    /\ thread = "ble" /\ dangling
    /\ fault' = "freed"
    /\ UNCHANGED <<inbox, lines, running, command, phase, response, ready, waiting, thread, dangling>>

(* Mutated form: nothing is said of a timeout.                             *)
TimeoutSilent(s) ==
    /\ s.event = "timeout" /\ s.from = phase
    /\ UNCHANGED response

(* doWhenTimeout.                                                          *)
Timeout(s) ==
    /\ s.event = "timeout" /\ s.from = phase
    /\ response' = Say(response, s.say)

(* whenTimeout: the handle is forgotten, so that the destructor cancels    *)
(* nothing. doWhenTimeout may have deleted the procedure already.          *)
ProcedureTimesOut ==
    /\ Good
    /\ thread = "idle" /\ ready # <<>>
    /\ Head(ready) = "timeout"
    /\ \E s \in Table[command].steps :
        /\ Timeout(s)
        /\ fault' = IF s.to = "twice" THEN "twice" ELSE "none"
    /\ phase' = "none"
    /\ ready' = Post(Tail(ready), waiting, "cmd_ready")
    /\ dangling' = (dangling \/ ~Table[command].detaches)
    /\ UNCHANGED <<inbox, lines, running, command, waiting, thread>>

-----------------------------------------------------------------------------
Execute(c) ==
    \/ HandlerAnswers(c)
    \/ ProcedureStarts(c)
    \/ ProcedureFails(c)
    \/ ProcedureFreed(c)

(* A fault is where the model ends.                                        *)
Stopped == ~Good /\ UNCHANGED vars

Next ==
    \/ LineArrives \/ StackSignals \/ TimeoutRipens
    \/ Dispatch \/ TakeLine \/ Return
    \/ \E c \in DOMAIN Table : Execute(c)
    \/ ProcedureGoesOn \/ ProcedureEnds \/ ProcedureTimesOut
    \/ CallbackDangles
    \/ Stopped

(* The main loop dispatches for ever, callbacks return, time passes: no    *)
(* more is assumed, of the BLE stack in particular.                        *)
Fairness ==
    /\ WF_vars(TimeoutRipens)
    /\ WF_vars(Dispatch) /\ WF_vars(ProcedureTimesOut)
    /\ WF_vars(TakeLine) /\ WF_vars(Return)
    /\ WF_vars(\E c \in DOMAIN Table : Execute(c))

Spec == Init /\ [][Next]_vars
FairSpec == Spec /\ Fairness

-----------------------------------------------------------------------------
(* "none", or the state of the procedure that is alive.                    *)
Phases == Lives \union {"none"}
Events == {"consume", "ble", "cmd_ready", "timeout"}

(* The values the variables take.                                          *)
TypeOK ==
    /\ inbox \in 0..MaxLines /\ lines \in 0..MaxLines
    /\ running \in BOOLEAN /\ waiting \in BOOLEAN /\ dangling \in BOOLEAN
    /\ command \in DOMAIN Table \union {NoCommand}
    /\ phase \in Phases
    /\ response \in Responses
    /\ ready \in Seq(Events)
    /\ thread \in {"idle", "consume", "consumed", "ble", "cmd_ready"}
    /\ fault \in {"none", "hung", "freed", "twice"}

(* A procedure always has a timeout to end it, and no timeout outlives its *)
(* procedure, to end another one.                                          *)
TimeoutOwned ==
    Good => /\ (phase # "none") <=> (waiting \/ TimedOut)
            /\ ~(waiting /\ TimedOut)

(* The interpreter waits exactly while a procedure is alive or cmd_ready   *)
(* is on its way: it is never told twice, never forgotten.                 *)
ReadyOnce ==
    Good => (running <=> phase # "none" \/ Posted("cmd_ready"))

(* No event is posted twice, so that the queue is never full: no post of   *)
(* the interrupts, of a response that closes or of a timeout is refused,   *)
(* which none of them would notice.                                        *)
NeverFull ==
    Good => /\ \A i, j \in DOMAIN ready : ready[i] = ready[j] => i = j
            /\ Len(ready) + (IF waiting THEN 1 ELSE 0) <= 3

(* Command c alone, nothing else happening: P has the responses there may  *)
(* be in each state of its procedure, and what ends it leaves an answer    *)
(* that parses.                                                            *)
AnswersAlone(c, P) ==
    /\ NewResponse \in P["new"]
    /\ \A says \in Table[c].answers \union {<<"err+">>} : Complete(Say(NewResponse, says))
    /\ \A s \in Table[c].steps : \A r \in P[s.from] :
        /\ s.to \in Lives => Say(r, s.say) \in P[s.to]
        /\ s.to = "end" => Complete(Say(r, s.say))

(* The answer to a command, once closed, is an object the host can parse,  *)
(* with a status, in whatever order events, callbacks and timeouts came.   *)
AnswersParse ==
    Good /\ phase = "none" /\ command # NoCommand /\ command \notin Malformed
        => Complete(response)

(* The board as the host sees it.                                          *)
Line == INSTANCE CommandLine WITH
    pending <- inbox + lines,
    state <- IF phase # "none" THEN "executing" ELSE IF running THEN "answered" ELSE "idle",
    stopped <- ~Good

(* Each line is eventually begun, answered once and reported, in order.    *)
ImplementsCommandLine == Line!Spec

(* "any subsequent access to procedure member or call to procedure member  *)
(* function is undefined" (AsyncProcedure.h:114): there is none, neither   *)
(* by the system nor by the stack.                                         *)
DeletedOnce == fault \notin {"freed", "twice"}
=============================================================================
