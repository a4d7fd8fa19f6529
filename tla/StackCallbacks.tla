---------------------------- MODULE StackCallbacks ----------------------------
(***************************************************************************)
(* Who hears the BLE stack. A procedure (AsyncProcedure) registers itself  *)
(* with the stack, in a chain of callbacks or as the only event handler,   *)
(* and its destructor takes it away; the handler of Gap is then again the  *)
(* default one, which prints events. There is one procedure at a time      *)
(* (CommandExecution), but the stack, which is external, answers the       *)
(* requests of procedures that timed out too, and reports what peers do at *)
(* any time. What procedures say is in CommandExecution and its tables.    *)
(***************************************************************************)
EXTENDS Naturals

CONSTANTS Connections, Attributes,
          Null,           \* no procedure, no connection or no attribute
          Kinds,          \* of procedures, names in Table
          MaxProcedures   \* bound on the procedures that are begun

(* Kinds of procedures: where they register; the event that ends them; in  *)
(* what it must agree with them; whether they ask the stack for it; and    *)
(* whether their destructor takes the request back.                        *)
Kind(at, waits, matches, asks) ==
    [at |-> at, waits |-> waits, matches |-> matches, asks |-> asks, cancels |-> FALSE]

Cancels(kind) == [kind EXCEPT !.cancels = TRUE]

ReadProcedure == Kind({"read"}, "read", {"connection", "attribute"}, TRUE)
WriteProcedure == Kind({"written"}, "written", {"connection", "attribute"}, TRUE)
WaitForDataWritten == Kind({"served"}, "served", {"connection", "attribute"}, FALSE)
ListenHVX == Kind({"hvx"}, "none", {}, FALSE)
NegotiateAttMtu == Kind({"client"}, "mtu", {}, TRUE)
DiscoverServices == Kind({"termination", "disconnection"}, "discovered", {"connection"}, TRUE)
DiscoverServicesAndCharacteristics == Cancels(DiscoverServices)
DiscoverDescriptors == Cancels(Kind({"disconnection"}, "descriptors", {"connection"}, TRUE))
ReadPhy == Kind({"gap"}, "phy", {}, TRUE)
EnablePrivacy == Kind({"gap"}, "privacy", {}, TRUE)
StartAdvertising == Kind({"gap"}, "started", {"attribute"}, TRUE)
StopAdvertising == Kind({"gap"}, "stopped", {"attribute"}, TRUE)
ScanFor == Kind({"gap"}, "none", {}, FALSE)
WaitForConnection == Kind({"gap"}, "connected", {}, FALSE)
WaitForDisconnection == Kind({"gap"}, "disconnected", {}, FALSE)
BasePairing == Kind({"sm"}, "pairing", {"connection"}, FALSE)
GenerateWhitelist == Kind({"sm"}, "whitelist", {}, TRUE)

Table == [
    read |-> ReadProcedure, write |-> WriteProcedure,
    waitForDataWritten |-> WaitForDataWritten, listenHVX |-> ListenHVX,
    negotiateAttMtu |-> NegotiateAttMtu, discoverServices |-> DiscoverServices,
    discoverAll |-> DiscoverServicesAndCharacteristics,
    discoverDescriptors |-> DiscoverDescriptors,
    readPhy |-> ReadPhy, enablePrivacy |-> EnablePrivacy,
    startAdvertising |-> StartAdvertising, stopAdvertising |-> StopAdvertising,
    scan |-> ScanFor, waitForConnection |-> WaitForConnection,
    waitForDisconnection |-> WaitForDisconnection,
    pairing |-> BasePairing, generateWhitelist |-> GenerateWhitelist]

(* Places to register: chains of callbacks, and those for only one.        *)
Single == {"client", "termination", "gap", "sm"}
Places == Single \union {"read", "written", "served", "hvx", "disconnection"}

(* The kinds whose arguments name a connection, an attribute or a set.     *)
OfConnection == {"read", "write", "waitForDataWritten", "negotiateAttMtu",
                 "discoverServices", "discoverAll", "discoverDescriptors", "readPhy", "pairing"}
OfAttribute == {"read", "write", "waitForDataWritten", "startAdvertising", "stopAdvertising"}

Procedures ==
    { p \in [id : 1..MaxProcedures, kind : Kinds, connection : Connections \union {Null},
             attribute : Attributes \union {Null}] :
        /\ p.connection = Null <=> p.kind \notin OfConnection
        /\ p.attribute = Null <=> p.kind \notin OfAttribute }

ASSUME CallbacksAssumption ==
    /\ Kinds \subseteq DOMAIN Table /\ MaxProcedures \in Nat
    /\ Null \notin Connections \union Attributes \union Procedures

VARIABLES begun,       \* procedures begun
          live,        \* the procedure that is alive, or Null
          registered,  \* the procedures registered at each place
          requests,    \* requests the stack has not answered
          connected,   \* the connections there are
          seen,        \* those the host has been told of
          result,      \* the procedure ended last, and whose answer it reported
          late         \* procedures that ended before any answer, while one to a
                       \* request like theirs is due

vars == <<begun, live, registered, requests, connected, seen, result, late>>

NoResult == [to |-> Null, of |-> Null]

Init ==
    /\ begun = 0 /\ live = Null
    /\ registered = [l \in Places |-> {}]
    /\ requests = {}
    /\ connected = {} /\ seen = {}
    /\ result = NoResult /\ late = {}

-----------------------------------------------------------------------------
(* Registration, in the constructor or in doStart.                         *)
Registered(p) ==
    [l \in Places |-> IF l \notin Table[p.kind].at THEN registered[l]
                      ELSE IF l \in Single THEN {p} ELSE registered[l] \union {p}]

(* Mutated forms of the destructors: one chain keeps the callback; the     *)
(* handler of Gap is not reverted to the default one.                      *)
ReleasedButReads(p) ==
    [l \in Places |-> IF l \notin Table[p.kind].at \/ l = "read" THEN registered[l]
                      ELSE IF l \in Single THEN {} ELSE registered[l] \ {p}]

ReleasedButGap(p) ==
    [l \in Places |-> IF l \notin Table[p.kind].at \/ l = "gap" THEN registered[l]
                      ELSE IF l \in Single THEN {} ELSE registered[l] \ {p}]

(* The destructors: a handler is set to NULL, or to the default one of Gap *)
(* (enable_event_handling), whoever has set it.                            *)
Released(p) ==
    [l \in Places |-> IF l \notin Table[p.kind].at THEN registered[l]
                      ELSE IF l \in Single THEN {} ELSE registered[l] \ {p}]

(* The procedure that is alive ends with the answer to a request, or Null. *)
End(answer) ==
    /\ live' = Null
    /\ registered' = Released(live)
    /\ result' = [to |-> live, of |-> answer]

Goes == UNCHANGED <<live, registered, result>>

(* What is left of the requests.                                           *)
Asked(asked) ==
    IF live # Null /\ live' = Null /\ Table[live.kind].cancels THEN asked \ {live} ELSE asked

-----------------------------------------------------------------------------
Begins(p) ==
    /\ live = Null /\ begun < MaxProcedures
    /\ p \in Procedures /\ p.id = begun + 1
    /\ begun' = begun + 1
    /\ result' = NoResult

(* The stack accepts what it is asked for, on a connection there is.       *)
Start(p) ==
    /\ Begins(p)
    /\ Table[p.kind].asks => p.connection \in connected \union {Null}
    /\ live' = p
    /\ registered' = Registered(p)
    /\ requests' = IF Table[p.kind].asks THEN requests \union {p} ELSE requests
    /\ UNCHANGED <<connected, seen, late>>

(* It does not: doStart returns false and the procedure is deleted.        *)
StartFails(p) ==
    /\ Begins(p)
    /\ p.kind \notin {"waitForDataWritten", "listenHVX", "scan", "waitForConnection",
                      "waitForDisconnection"}
    /\ registered' = Released(p)
    /\ UNCHANGED <<live, requests, connected, seen, late>>

(* Two procedures whose answers cannot be told apart: those that wait for  *)
(* the same event about the same connection and attribute; onReadPhy and   *)
(* onAttMtuChange do not look at the connection either.                    *)
Confusable(p, q) ==
    /\ Table[p.kind].waits = Table[q.kind].waits
    /\ p.attribute = q.attribute
    /\ p.connection = q.connection \/ Table[p.kind].waits \in {"phy", "mtu"}

(* Those for whose sake an answer may be mistaken.                         *)
Due(procedures, asked) ==
    { p \in procedures : \E q \in asked : Confusable(p, q) }

(* Mutated form: the procedure is looked at after it was deleted.          *)
TimeoutAfterEnd ==
    /\ live # Null
    /\ End(Null)
    /\ late' = late \union {live'}
    /\ UNCHANGED <<begun, requests, connected, seen>>

(* The timeout: the request is not cancelled. doWhenTimeout of ListenHVX   *)
(* takes the callback away, which its destructor does not. (What it says,  *)
(* and that two kinds are deleted twice, is in CommandExecution.)          *)
Timeout ==
    /\ live # Null
    /\ End(Null)
    /\ requests' = Asked(requests)
    /\ late' = Due(late \union {live}, requests')
    /\ UNCHANGED <<begun, connected, seen>>

-----------------------------------------------------------------------------
(* Mutated form: any attribute of the connection will do.                  *)
HearsAnyAttribute(name, connection, attribute) ==
    /\ live # Null
    /\ Table[live.kind].waits = name
    /\ \E l \in Table[live.kind].at : live \in registered[l]
    /\ "connection" \in Table[live.kind].matches => connection = live.connection

(* The procedure alive is registered for an event, and takes it for its    *)
(* own.                                                                    *)
Hears(name, connection, attribute) ==
    /\ live # Null
    /\ Table[live.kind].waits = name
    /\ \E l \in Table[live.kind].at : live \in registered[l]
    /\ "connection" \in Table[live.kind].matches => connection = live.connection
    /\ "attribute" \in Table[live.kind].matches => attribute = live.attribute

Notify(name, connection, attribute, answer) ==
    IF Hears(name, connection, attribute) THEN End(answer) ELSE Goes

(* The stack answers the requests on a connection in their order.          *)
Answer ==
    /\ \E p \in requests :
        /\ \A q \in requests : q.connection = p.connection => p.id <= q.id
        /\ Notify(Table[p.kind].waits, p.connection, p.attribute, p)
        /\ requests' = Asked(requests \ {p})
    /\ late' = Due(late, requests')
    /\ UNCHANGED <<begun, connected, seen>>

(* What peers and the controller do without being asked.                   *)
Report ==
    /\ \E name \in {"served", "mtu", "stopped", "pairing"}, connection \in Connections,
         attribute \in Attributes : Notify(name, connection, attribute, Null)
    /\ late' = IF live' = live THEN late ELSE Due(late \union {live}, requests)
    /\ UNCHANGED <<begun, requests, connected, seen>>

-----------------------------------------------------------------------------
(* The default handler of Gap prints the event; a procedure that is the    *)
(* handler only hears its own.                                             *)
Printed(name) == registered["gap"] = {} \/ Hears(name, Null, Null)

Connected ==
    /\ \E c \in Connections \ connected :
        /\ connected' = connected \union {c}
        /\ seen' = IF Printed("connected") THEN seen \union {c} ELSE seen
    /\ Notify("connected", Null, Null, Null)
    /\ UNCHANGED <<begun, requests, late>>

(* Mutated form: the default handler does not call the chain.              *)
WhenDisconnectedSilent(c) == Notify("disconnected", Null, Null, Null)

(* onDisconnectionComplete of the handler; the default one calls the chain *)
(* of whenDisconnected.                                                    *)
WhenDisconnected(c) ==
    IF /\ registered["gap"] = {} /\ live \in registered["disconnection"]
       /\ live.connection = c
    THEN End(Null) ELSE Notify("disconnected", Null, Null, Null)

(* The requests on the connection are over.                                *)
Disconnected ==
    /\ \E c \in connected :
        /\ connected' = connected \ {c}
        /\ seen' = IF Printed("disconnected") THEN seen \ {c} ELSE seen
        /\ requests' = { p \in requests : p.connection # c }
        /\ WhenDisconnected(c)
    /\ late' = Due(late, requests')
    /\ UNCHANGED begun

Next ==
    \/ \E p \in Procedures : Start(p) \/ StartFails(p)
    \/ Timeout \/ Answer \/ Report \/ Connected \/ Disconnected

Spec == Init /\ [][Next]_vars

-----------------------------------------------------------------------------
TypeOK ==
    /\ begun \in 0..MaxProcedures
    /\ live \in Procedures \union {Null}
    /\ registered \in [Places -> SUBSET Procedures]
    /\ requests \subseteq Procedures
    /\ connected \subseteq Connections /\ seen \subseteq Connections
    /\ result.to \in Procedures \union {Null} /\ result.of \in Procedures \union {Null}
    /\ late \subseteq Procedures

(* No callback is left to a procedure that was deleted, and the one that   *)
(* is alive is heard: whatever handler or chain its kind uses, and however *)
(* the one before it ended (the destructors, the constructors and doStart  *)
(* of the procedures).                                                     *)
OnlyLiveRegistered ==
    \A l \in Places :
        registered[l] = IF live # Null /\ l \in Table[live.kind].at THEN {live} ELSE {}

(* A result is the answer to the procedure's own request, or to an older   *)
(* one whose answer cannot be told from it (Confusable: of the same        *)
(* connection and attribute, but for the phy and the MTU, where it may be  *)
(* of another connection). The latter only if some such procedure ended    *)
(* without an answer, by its timeout or a report it did not ask for, and   *)
(* an answer to one of them has been due ever since: then each procedure   *)
(* may report the answer to the one before it (whenDataRead,               *)
(* whenDataWritten, whenServiceDiscoveryTerminated, onAdvertisingStart).   *)
AnswersRequest ==
    [][ result' # result /\ result'.of # Null =>
          \/ result'.of = result'.to
          \/ /\ result'.of.id < result'.to.id
             /\ Confusable(result'.of, result'.to)
             /\ \E p \in late : Confusable(p, result'.to) ]_vars

(* A result is about the connection that the command named, as the help of *)
(* readPhy and of negotiateAttMtu says. It is not: onReadPhy and           *)
(* onAttMtuChange report the connection of the event.                      *)
OwnConnection ==
    [][ result' # result /\ result'.of # Null =>
          result'.of.connection = result'.to.connection ]_vars

(* A discovery does not outlive its connection: its end is heard, though   *)
(* it comes to the handler of Gap (whenDisconnected).                      *)
DiscoveryConnected ==
    live # Null /\ "disconnection" \in Table[live.kind].at => live.connection \in connected

(* The host is told of every connection and disconnection, but of those    *)
(* that come while a procedure that waits for something else is the        *)
(* handler of Gap (setEventHandler).                                       *)
Hidden(name) ==
    live # Null /\ "gap" \in Table[live.kind].at /\ Table[live.kind].waits # name

EventsReported ==
    [][ \A c \in Connections :
          /\ c \in connected' \ connected => c \in seen' \/ Hidden("connected")
          /\ c \in connected \ connected' => c \notin seen' \/ Hidden("disconnected") ]_vars
=============================================================================
