------------------------------ MODULE Commands ------------------------------
(***************************************************************************)
(* How the command suites describe their commands to CommandExecution. A   *)
(* command is a record:                                                    *)
(*   answers   what the handler may say when it answers by itself          *)
(*   steps     what its procedure (a subclass of AsyncProcedure) does:     *)
(*             "start"     the constructor and doStart                     *)
(*             "callback"  a callback of the BLE stack                     *)
(*             "timeout"   doWhenTimeout                                   *)
(*             from and to are states of the procedure, say is what the    *)
(*             step adds to the response                                   *)
(*   detaches  the destructor leaves the stack no pointer to the procedure *)
(* The states of a procedure are "new", "live" and, for one of them,       *)
(* "service". A step also ends in "end" when it returns false from         *)
(* doStart, calls terminate() or leaves doWhenTimeout; in "freed" when the *)
(* constructor calls terminate(); in "twice" when doWhenTimeout does.      *)
(***************************************************************************)
EXTENDS CommandResponse, TLC

Sync(answers) == [answers |-> answers, steps |-> {}, detaches |-> TRUE]

Procedure(steps) == [answers |-> {}, steps |-> steps, detaches |-> TRUE]

(* The same, with a handler that may answer by itself; or a destructor     *)
(* that leaves a callback behind when the procedure times out.             *)
Or(answers, c) == [c EXCEPT !.answers = answers]
Dangling(c) == [c EXCEPT !.detaches = FALSE]

Step(event, from, say, to) == [event |-> event, from |-> from, say |-> say, to |-> to]

Starts(say) == Step("start", "new", say, "live")
Fails(say) == Step("start", "new", say, "end")
Ends(say) == Step("callback", "live", say, "end")
Goes(say) == Step("callback", "live", say, "live")
TimesOut(say) == Step("timeout", "live", say, "end")

(* AsyncProcedure::doWhenTimeout, when it is not redefined.                *)
DefaultTimeout == TimesOut(<<"err+">>)

-----------------------------------------------------------------------------
(* What most handlers say: reportErrorOrSuccess (Common.h), without and    *)
(* with a result; and handlers that cannot fail.                           *)
Report == {<<"ok">>, <<"err+">>}
ReportResult == {<<"ok+">>, <<"err+">>}
Succeed == {<<"ok">>}
Fetch == {<<"ok+">>}
NotImplemented == {<<"err">>}

(* The commands named, all of which answer the same.                       *)
Each(names, answers) == [n \in names |-> Sync(answers)]
=============================================================================
