--------------------------- MODULE CommandResponse ---------------------------
(***************************************************************************)
(* The response of a command (CLICommand/CommandResponse): one JSON object *)
(* written to the serial port as the command goes, with a status, then a   *)
(* result or, when the status is a failure, an error. The content of names *)
(* and values is left out; what is kept is what decides whether the host   *)
(* can parse the object. A command is modelled by what it says, a sequence *)
(* of the calls below.                                                     *)
(*                                                                         *)
(*   "ok" "err"     success() and failure(), invalidParameters() or        *)
(*                  notImplemented() without a message                     *)
(*   "ok+" "err+"   the same with a message or a value                     *)
(*   "result"       a call to getResultStream()                            *)
(*   "v" "k"        a complete value, a key, written to the stream         *)
(*   "{" "}" "[" "]"  startObject, endObject, startArray and endArray      *)
(***************************************************************************)
EXTENDS Integers, Sequences, SequencesExt

Says == {"ok", "err", "ok+", "err+", "result", "v", "k", "{", "}", "[", "]"}

(* status and result are statusCode with statusCodeSet, and resultStarted  *)
(* with the name given to the result; nest are the objects and arrays that *)
(* are open, the outermost first; keyed: a key of the innermost one waits  *)
(* for its value; sound: what was written so far is the start of a JSON    *)
(* object.                                                                 *)
NewResponse ==
    [status |-> "none", result |-> "none", nest |-> <<"{">>, keyed |-> FALSE,
     sound |-> TRUE]

Responses ==
    [status : {"none", "ok", "err"}, result : {"none", "result", "error"},
     nest : Seq({"{", "["}), keyed : BOOLEAN, sound : BOOLEAN]

-----------------------------------------------------------------------------
(* JSONOutputStream: a value is an element of an array or follows a key.   *)
Open(r, b) == r.nest # <<>> /\ Last(r.nest) = b

Value(r) ==
    [r EXCEPT !.keyed = FALSE,
              !.sound = @ /\ (Open(r, "[") \/ (Open(r, "{") /\ r.keyed))]

Key(r) ==
    [r EXCEPT !.keyed = TRUE,
              !.sound = @ /\ Open(r, "{") /\ ~r.keyed]

Start(r, b) == [Value(r) EXCEPT !.nest = Append(@, b)]

End(r, b) ==
    [r EXCEPT !.nest = IF @ = <<>> THEN @ ELSE Front(@),
              !.sound = @ /\ Open(r, b) /\ ~r.keyed]

-----------------------------------------------------------------------------
(* setStatusCode: only the first call has an effect.                       *)
SetStatusCode(r, code) ==
    IF r.status # "none" THEN r
    ELSE [Value(Key(r)) EXCEPT !.status = code]

(* getResultStream: the first call names the result.                       *)
GetResultStream(r) ==
    IF r.result # "none" THEN r
    ELSE [Key(r) EXCEPT !.result = IF r.status = "err" THEN "error" ELSE "result"]

(* setStatusCodeAndMessage: no message when the status had been set.       *)
SetStatusCodeAndMessage(r, code) ==
    IF r.status # "none" THEN r
    ELSE Value(GetResultStream(SetStatusCode(r, code)))

Put(r, s) ==
    CASE s \in {"ok", "err"} -> SetStatusCode(r, s)
      [] s = "ok+" -> SetStatusCodeAndMessage(r, "ok")
      [] s = "err+" -> SetStatusCodeAndMessage(r, "err")
      [] s = "result" -> GetResultStream(r)
      [] s = "v" -> Value(r)
      [] s = "k" -> Key(r)
      [] s \in {"{", "["} -> Start(r, s)
      [] s = "}" -> End(r, "{")
      [] s = "]" -> End(r, "[")

Say(r, says) ==
    LET said[i \in 0..Len(says)] == IF i = 0 THEN r ELSE Put(said[i - 1], says[i])
    IN said[Len(says)]

(* What close() ends with endObject is the response the host expects: an   *)
(* object it can parse, with a status, and an error exactly for a failure. *)
Complete(r) ==
    /\ r.sound /\ ~r.keyed
    /\ r.nest = <<"{">>
    /\ r.status # "none"
    /\ r.result # "none" => (r.result = "error") = (r.status = "err")
=============================================================================
