----------------------------- MODULE SerialDevice -----------------------------
(***************************************************************************)
(* The host: a test that is given a board by the allocator (fixtures.py),  *)
(* sends it commands (ble_device.py, device.py) through the queues and the *)
(* two threads of a SerialDevice, and gives it back.                       *)
(*                                                                         *)
(* Commands are numbered as they are sent. Lines of the board are parts of *)
(* an answer, the return code that ends it, and events, which may split an *)
(* answer. Time is left out: a wait may be over at any moment.             *)
(***************************************************************************)
EXTENDS Integers, Sequences, SequencesExt

CONSTANTS MaxDevices,       \* ALLOCATION_RETRIES + 1
          SetupCommands,    \* sent, each waited for, when a board is allocated
          RestoreCommands,  \* sent and waited for when it is released
          MaxCommands,      \* bound on the commands sent when the test sends one
          MaxEvents         \* bound on the events of the board

ASSUME HostAssumption ==
    /\ MaxDevices \in Nat \ {0} /\ SetupCommands \in Nat \ {0}
    /\ RestoreCommands \in Nat /\ MaxCommands \in Nat /\ MaxEvents \in Nat

VARIABLES task,      \* what the main thread does: "allocate", "test" or "release"
          place,     \* where it is in it
          device,    \* the SerialDevice it uses, the last one created
          step,      \* commands it has sent to allocate or to release
          sent,      \* commands sent
          awaited,   \* the command it waits for or whose result it has, or 0
          pending,   \* an asynchronous command whose result it may ask for, or 0
          clean,     \* nothing was on its way when the last command was sent, and
                     \* its device is alone on the connection
          lines,     \* what wait_for_output has read
          events,    \* BleDevice.events
          iq, oq,    \* the queues of each device
          run, lineRead,
          reader,    \* _input_thread of each device: "none", "reads" or "ended"
          writer,    \* _output_thread: "none", "gets" or "ended"
          toBoard, toHost,  \* the serial connection
          up,        \* the board has booted
          executing, \* the command the board executes, or 0
          split,     \* an event has split its answer
          emitted,   \* events written
          heard      \* those written while the last command was executed

progress == <<task, step, place>>
command == <<sent, awaited, pending, clean>>
queues == <<iq, oq, run, lineRead>>
board == <<up, executing, split, emitted, heard>>
vars == <<progress, command, device, lines, events, queues, reader, writer,
          toBoard, toHost, board>>

Devices == 1..MaxDevices

(* Lines: parts of the answer to command n, its return code, and events.   *)
Answer(n, part) == [kind |-> "answer", of |-> n, part |-> part]
Retcode(n, code) == [kind |-> "retcode", of |-> n, part |-> code]
Event(k) == [kind |-> "event", of |-> k, part |-> "whole"]

EventKind == {"event"}
AnswerKinds == {"answer", "retcode"}

(* The lines of s that are of some kinds, in their order.                  *)
Only(s, kinds) ==
    LET only[i \in 0..Len(s)] ==
          IF i = 0 THEN <<>>
          ELSE IF s[i].kind \in kinds THEN Append(only[i - 1], s[i]) ELSE only[i - 1]
    IN only[Len(s)]

Init ==
    /\ task = "allocate" /\ place = "create" /\ device = 0 /\ step = 0
    /\ sent = 0 /\ awaited = 0 /\ pending = 0 /\ clean = FALSE
    /\ lines = <<>> /\ events = <<>>
    /\ iq = [d \in Devices |-> <<>>] /\ oq = [d \in Devices |-> <<>>]
    /\ run = [d \in Devices |-> FALSE] /\ lineRead = [d \in Devices |-> FALSE]
    /\ reader = [d \in Devices |-> "none"] /\ writer = [d \in Devices |-> "none"]
    /\ toBoard = <<>> /\ toHost = <<>>
    /\ up = TRUE /\ executing = 0 /\ split = FALSE /\ emitted = 0 /\ heard = {}

(* A command or its answer is on its way, or not answered.                 *)
Outstanding ==
    \/ toBoard # <<>> \/ executing # 0
    \/ \E i \in DOMAIN toHost : toHost[i].kind \in AnswerKinds
    \/ \E d \in Devices : oq[d] # <<>>

-----------------------------------------------------------------------------
(* The threads. A line in the hands of one of them is as good as not yet   *)
(* taken from where it was; what counts is when "run" is looked at, which  *)
(* is at the end of a turn of the loop. readline() returns nothing after a *)
(* second; oq.get() waits for ever.                                        *)

(* The iq of a device is read until it stops, or allocate() gives it up.   *)
Used(d) == d = device /\ place \notin {"stop", "join reader", "join writer"}

ReaderReads(d) ==
    /\ reader[d] = "reads" /\ toHost # <<>>
    /\ iq' = IF Used(d) THEN [iq EXCEPT ![d] = Append(@, Head(toHost))] ELSE iq
    /\ toHost' = Tail(toHost)
    /\ reader' = [reader EXCEPT ![d] = IF run[d] THEN "reads" ELSE "ended"]
    /\ UNCHANGED <<progress, command, device, lines, events, oq, run, lineRead, writer,
                   toBoard, board>>

ReaderEnds(d) ==
    /\ reader[d] = "reads" /\ ~run[d]
    /\ reader' = [reader EXCEPT ![d] = "ended"]
    /\ UNCHANGED <<progress, command, device, lines, events, queues, writer, toBoard, toHost,
                   board>>

(* A board that boots does not hear.                                       *)
WriterWrites(d) ==
    /\ writer[d] = "gets" /\ oq[d] # <<>>
    /\ oq' = [oq EXCEPT ![d] = Tail(@)]
    /\ toBoard' = IF up THEN Append(toBoard, Head(oq[d])) ELSE toBoard
    /\ writer' = [writer EXCEPT ![d] = IF run[d] THEN "gets" ELSE "ended"]
    /\ UNCHANGED <<progress, command, device, lines, events, iq, run, lineRead, reader,
                   toHost, board>>

-----------------------------------------------------------------------------
(* allocate(): a device is created and started, and a break restarts the   *)
(* board; flush(1) then drops what has come.                               *)
CreateDevice ==
    /\ place = "create"
    /\ place' = "flush"
    /\ iq' = [d \in Devices |-> <<>>]
    /\ device' = device + 1
    /\ run' = [run EXCEPT ![device'] = TRUE]
    /\ reader' = [reader EXCEPT ![device'] = "reads"]
    /\ writer' = [writer EXCEPT ![device'] = "gets"]
    /\ up' = FALSE /\ executing' = 0 /\ split' = FALSE /\ toBoard' = <<>>
    /\ UNCHANGED <<task, step, command, lines, events, oq, lineRead, toHost, emitted, heard>>

FlushAfterReset ==
    /\ place = "flush"
    /\ place' = "send"
    /\ step' = 0
    /\ iq' = [iq EXCEPT ![device] = <<>>]
    /\ events' = <<>>
    /\ UNCHANGED <<task, command, device, lines, oq, run, lineRead, reader, writer,
                   toBoard, toHost, board>>

(* The commands a task sends; the last one of a release, "set retcode      *)
(* false", is not waited for.                                              *)
Commands == IF task = "allocate" THEN SetupCommands ELSE RestoreCommands + 1

MaySend == IF task = "test" THEN sent < MaxCommands ELSE step < Commands

LastOfRelease == task = "release" /\ step = RestoreCommands

(* Mutated form of send(): what has been received is kept.                 *)
SendUnflushed ==
    /\ place = "send" /\ MaySend
    /\ clean' = (device = 1 /\ ~Outstanding)
    /\ lines' = <<>>
    /\ oq' = [oq EXCEPT ![device] = Append(@, sent + 1)]
    /\ sent' = sent + 1 /\ step' = IF task = "test" THEN 0 ELSE step + 1
    /\ UNCHANGED <<task, device, events, iq, run, lineRead, reader, writer, toBoard, toHost, board>>

(* send(): flush(0) drops what has been received, the command is put in    *)
(* oq.                                                                     *)
Send ==
    /\ place = "send" /\ MaySend
    /\ clean' = (device = 1 /\ ~Outstanding)
    /\ lines' = <<>>
    /\ iq' = [iq EXCEPT ![device] = <<>>]
    /\ oq' = [oq EXCEPT ![device] = Append(@, sent + 1)]
    /\ sent' = sent + 1 /\ step' = IF task = "test" THEN 0 ELSE step + 1
    /\ UNCHANGED <<task, device, events, run, lineRead, reader, writer, toBoard, toHost, board>>

SendSync ==
    /\ ~LastOfRelease
    /\ Send
    /\ place' = "wait"
    /\ awaited' = sent + 1
    /\ UNCHANGED pending

SendAsync ==
    /\ task = "test"
    /\ Send
    /\ pending' = sent + 1 /\ awaited' = 0
    /\ UNCHANGED place

SendLast ==
    /\ LastOfRelease
    /\ Send
    /\ place' = "stop"
    /\ awaited' = 0
    /\ UNCHANGED pending

(* The result of an asynchronous command is asked for.                     *)
AccessResult ==
    /\ task = "test" /\ place = "send" /\ pending # 0
    /\ place' = "wait"
    /\ awaited' = pending /\ pending' = 0
    /\ lines' = <<>>
    /\ UNCHANGED <<task, step, device, sent, clean, events, queues, reader, writer, toBoard,
                   toHost, board>>

-----------------------------------------------------------------------------
(* Where the main thread goes on when wait_for_output returns.             *)
GoOn ==
    /\ place' = "send"
    /\ IF task = "allocate" /\ step = Commands THEN task' = "test" /\ step' = 0
       ELSE UNCHANGED <<task, step>>

(* search in line.                                                         *)
Found(line) == line.kind = "retcode" /\ line.part = "expected"

(* Mutated form: the events before the last line are forgotten.            *)
ReadLineDroppingEvents ==
    /\ place = "wait" /\ iq[device] # <<>>
    /\ lines' = Append(Only(lines, AnswerKinds), Head(iq[device]))
    /\ iq' = [iq EXCEPT ![device] = Tail(@)]
    /\ lineRead' = [lineRead EXCEPT ![device] = TRUE]
    /\ IF Found(Head(iq[device]))
       THEN GoOn /\ events' = events \o Only(lines', EventKind)
       ELSE UNCHANGED <<progress, events>>
    /\ UNCHANGED <<command, device, oq, run, reader, writer, toBoard, toHost, board>>

(* wait_for_output reads a line; when it is the one it waits for, the      *)
(* lines are returned, and _filter_events puts events where they belong.   *)
ReadLine ==
    /\ place = "wait" /\ iq[device] # <<>>
    /\ lines' = Append(lines, Head(iq[device]))
    /\ iq' = [iq EXCEPT ![device] = Tail(@)]
    /\ lineRead' = [lineRead EXCEPT ![device] = TRUE]
    /\ IF Found(Head(iq[device]))
       THEN GoOn /\ events' = events \o Only(lines', EventKind)
       ELSE UNCHANGED <<progress, events>>
    /\ UNCHANGED <<command, device, oq, run, reader, writer, toBoard, toHost, board>>

(* The time is over while lines go on coming: None is returned, and what   *)
(* was read is lost. (Without a line the waits for one, of a second each,  *)
(* add up to the time, and the last of them finds it over.)                *)
WaitRunsOut ==
    /\ place = "wait" /\ lines # <<>>
    /\ GoOn
    /\ lines' = <<>> /\ awaited' = 0 /\ clean' = FALSE
    /\ UNCHANGED <<device, sent, pending, events, queues, reader, writer, toBoard,
                   toHost, board>>

(* The time is over when the queue is empty: BoardCommunicationFailed if   *)
(* the device never read a line, else an assertion fails. The former makes *)
(* allocate() retry: release() is given a device it does not know, and     *)
(* does nothing. Any other exception ends an allocation or a release; a    *)
(* test goes on with its release.                                          *)
RetriesForEver == task = "allocate" /\ ~lineRead[device]

Retries == task = "allocate" /\ ~lineRead[device] /\ device < MaxDevices

(* Mutated form: a wait is over only when a line comes.                    *)
WaitTimesOutUnnoticed ==
    /\ place = "wait" /\ lineRead[device] /\ iq[device] = <<>>
    /\ lines' = <<>> /\ awaited' = 0 /\ pending' = 0 /\ clean' = FALSE
    /\ task' = "release" /\ step' = 0 /\ place' = "send"
    /\ UNCHANGED <<device, sent, events, queues, reader, writer, toBoard, toHost, board>>

WaitTimesOut ==
    /\ place = "wait" /\ iq[device] = <<>>
    /\ lines' = <<>> /\ awaited' = 0 /\ pending' = 0 /\ clean' = FALSE
    /\ \/ /\ task = "test"
          /\ task' = "release" /\ step' = 0 /\ place' = "send"
       \/ /\ Retries
          /\ place' = "create" /\ UNCHANGED <<task, step>>
       \/ /\ task # "test" /\ ~Retries
          /\ place' = "failed" /\ UNCHANGED <<task, step>>
    /\ UNCHANGED <<device, sent, events, queues, reader, writer, toBoard, toHost, board>>

TestEnds ==
    /\ task = "test" /\ place = "send"
    /\ task' = "release" /\ step' = 0
    /\ pending' = 0 /\ awaited' = 0 /\ clean' = FALSE /\ lines' = <<>>
    /\ UNCHANGED <<place, sent, device, events, queues, reader, writer, toBoard,
                   toHost, board>>

-----------------------------------------------------------------------------
(* stop().                                                                 *)
stopMoves(p) ==
    /\ place' = p
    /\ UNCHANGED <<task, step, command, device, lines, events, iq, oq, lineRead, reader, writer,
                   toBoard, toHost, board>>

(* Mutated form: the threads are told to stop after they have been joined. *)
StopLate ==
    /\ place = "stop"
    /\ UNCHANGED run
    /\ stopMoves("join reader")

Stop ==
    /\ place = "stop"
    /\ run' = [run EXCEPT ![device] = FALSE]
    /\ stopMoves("join reader")

JoinReader ==
    /\ place = "join reader" /\ reader[device] = "ended"
    /\ UNCHANGED run
    /\ stopMoves("join writer")

(* The connection is closed and the board is free.                         *)
JoinWriter ==
    /\ place = "join writer" /\ writer[device] = "ended"
    /\ UNCHANGED run
    /\ stopMoves("released")

-----------------------------------------------------------------------------
(* The board: it executes commands in order, answers each, and writes      *)
(* events at any time, in the middle of an answer also.                    *)
BoardBoots ==
    /\ ~up
    /\ up' = TRUE
    /\ UNCHANGED <<progress, command, device, lines, events, queues, reader, writer, toBoard,
                   toHost, executing, split, emitted, heard>>

BoardExecutes ==
    /\ up /\ executing = 0 /\ toBoard # <<>>
    /\ executing' = Head(toBoard) /\ toBoard' = Tail(toBoard)
    /\ heard' = {}
    /\ UNCHANGED <<progress, command, device, lines, events, queues, reader, writer, toHost,
                   up, split, emitted>>

BoardEvent ==
    /\ up /\ emitted < MaxEvents
    /\ emitted' = emitted + 1
    /\ heard' = IF clean /\ executing = sent THEN heard \union {emitted + 1} ELSE heard
    /\ \/ /\ executing # 0 /\ ~split
          /\ split' = TRUE
          /\ toHost' = toHost \o <<Answer(executing, "first"), Event(emitted + 1)>>
       \/ /\ split' = split
          /\ toHost' = Append(toHost, Event(emitted + 1))
    /\ UNCHANGED <<progress, command, device, lines, events, queues, reader, writer, toBoard,
                   up, executing>>

BoardAnswers ==
    /\ executing # 0
    /\ \E code \in {"expected", "other"} :
         toHost' = toHost \o <<Answer(executing, IF split THEN "second" ELSE "whole"),
                               Retcode(executing, code)>>
    /\ executing' = 0 /\ split' = FALSE
    /\ UNCHANGED <<progress, command, device, lines, events, queues, reader, writer, toBoard,
                   up, emitted, heard>>

-----------------------------------------------------------------------------
Main ==
    \/ CreateDevice \/ FlushAfterReset
    \/ SendSync \/ SendAsync \/ SendLast \/ AccessResult
    \/ ReadLine \/ WaitRunsOut \/ WaitTimesOut \/ TestEnds
    \/ Stop \/ JoinReader \/ JoinWriter

Reader(d) == ReaderReads(d) \/ ReaderEnds(d)

Board == BoardBoots \/ BoardExecutes \/ BoardEvent \/ BoardAnswers

(* The board was given back, or an exception has ended the task: the model *)
(* ends there. Nobody hears the board once the device is being stopped.    *)
Over == place \in {"released", "failed"}
Stopping == place \in {"join reader", "join writer"}

Next ==
    \/ ~Over /\ Main
    \/ ~Over /\ \E d \in Devices : Reader(d) \/ WriterWrites(d)
    \/ ~Over /\ ~Stopping /\ Board
    \/ Over /\ UNCHANGED vars

Spec == Init /\ [][Next]_vars

(* Threads run: nothing is assumed of the board.                           *)
Fairness ==
    /\ WF_vars(Main)
    /\ \A d \in Devices : WF_vars(Reader(d)) /\ WF_vars(WriterWrites(d))

FairSpec == Spec /\ Fairness

-----------------------------------------------------------------------------
Lines == [kind : {"answer", "retcode", "event"}, of : Nat,
          part : {"whole", "first", "second", "expected", "other"}]

(* The state is as declared; no more devices are created than the retries  *)
(* allow.                                                                  *)
TypeOK ==
    /\ task \in {"allocate", "test", "release"}
    /\ place \in {"create", "flush", "send", "wait", "stop", "join reader", "join writer",
                  "released", "failed"}
    /\ device \in 0..MaxDevices /\ step \in 0..Commands /\ sent \in Nat
    /\ {awaited, pending, executing} \subseteq 0..sent
    /\ {clean, up, split} \subseteq BOOLEAN
    /\ lines \in Seq(Lines) /\ events \in Seq(Lines) /\ toHost \in Seq(Lines)
    /\ toBoard \in Seq(1..sent)
    /\ iq \in [Devices -> Seq(Lines)] /\ oq \in [Devices -> Seq(1..sent)]
    /\ run \in [Devices -> BOOLEAN] /\ lineRead \in [Devices -> BOOLEAN]
    /\ reader \in [Devices -> {"none", "reads", "ended"}]
    /\ writer \in [Devices -> {"none", "gets", "ended"}]
    /\ emitted \in 0..MaxEvents /\ heard \subseteq 1..emitted

(* What the board writes in answer to command n, events left out.          *)
AnswersTo(n) ==
    { answer \o <<Retcode(n, code)>> :
        answer \in { <<Answer(n, "whole")>>, <<Answer(n, "first"), Answer(n, "second")>> },
        code \in {"expected", "other"} }

(* The result of the last command sent, if the answers to all the others   *)
(* had come when it was sent, and to a device that is alone on its         *)
(* connection: not to one created by a retry, whose predecessor's threads  *)
(* go on.                                                                  *)
OfLastCommand == clean /\ awaited = sent

HasResult == place # "wait" /\ lines # <<>>

(* What such a command is answered is the answer of the board to that      *)
(* command, from its first line, in order and without a gap, and once it   *)
(* is returned it is complete and its return code is the one expected,     *)
(* whatever events split it, whatever the commands before it left unread,  *)
(* and whether it is waited for at once or later (device.py send, flush    *)
(* and wait_for_output, ble_device.py command). An answer that is still on *)
(* its way when the next command is sent, and those of a device created by *)
(* a retry, may be taken for others: nothing in a line names its command.  *)
AnswersOwn ==
    OfLastCommand =>
        \E answer \in AnswersTo(sent) :
            /\ IsPrefix(Only(lines, AnswerKinds), answer)
            /\ HasResult => Only(lines, AnswerKinds) = answer /\ Found(Last(answer))

(* No event that the board writes while it executes such a command is lost *)
(* when its result is returned: all are in BleDevice.events, in the order  *)
(* they were written (_filter_events).                                     *)
EventsKept ==
    OfLastCommand /\ HasResult =>
        /\ heard \subseteq { events[i].of : i \in DOMAIN events }
        /\ \A i, j \in DOMAIN events : i < j => events[i].of < events[j].of

(* An allocation comes to an end, with a board that answers nothing too:   *)
(* the retries are bounded and every wait is (fixtures.py allocate).       *)
AllocationEnds == <>(task # "allocate" \/ place = "failed")

(* stop() returns when the output thread has not yet taken the last        *)
(* command out of oq: it looks at "run" before it waits for another.       *)
StopReturnsIfLate ==
    place = "join reader" /\ oq[device] # <<>> ~> place = "released"

(* stop() returns: "Stop the processing of the serial".                    *)
StopReturns == place = "join reader" ~> place = "released"
=============================================================================
