------------------------- MODULE StackCallbacksProofs -------------------------
(***************************************************************************)
(* Proofs about StackCallbacks, for any connections, attributes, kinds and *)
(* number of procedures. The inductive invariant adds to the properties    *)
(* what keeps the answers in step: whose number is which, and that a       *)
(* request that outlives its procedure is accounted for by a late one.     *)
(***************************************************************************)
EXTENDS StackCallbacks, TLAPS

(* What the kinds have in common.                                          *)
KindNames ==
    {"read", "write", "waitForDataWritten", "listenHVX", "negotiateAttMtu",
     "discoverServices", "discoverAll", "discoverDescriptors", "readPhy", "enablePrivacy",
     "startAdvertising", "stopAdvertising", "scan", "waitForConnection",
     "waitForDisconnection", "pairing", "generateWhitelist"}

(* The names of the kinds are those of the table.                          *)
LEMMA TableDomain == DOMAIN Table = KindNames
BY DEF Table, KindNames

(* Its rows.                                                               *)
LEMMA Rows ==
    /\ Table["read"] = ReadProcedure
    /\ Table["write"] = WriteProcedure
    /\ Table["waitForDataWritten"] = WaitForDataWritten
    /\ Table["listenHVX"] = ListenHVX
    /\ Table["negotiateAttMtu"] = NegotiateAttMtu
    /\ Table["discoverServices"] = DiscoverServices
    /\ Table["discoverAll"] = DiscoverServicesAndCharacteristics
    /\ Table["discoverDescriptors"] = DiscoverDescriptors
    /\ Table["readPhy"] = ReadPhy
    /\ Table["enablePrivacy"] = EnablePrivacy
    /\ Table["startAdvertising"] = StartAdvertising
    /\ Table["stopAdvertising"] = StopAdvertising
    /\ Table["scan"] = ScanFor
    /\ Table["waitForConnection"] = WaitForConnection
    /\ Table["waitForDisconnection"] = WaitForDisconnection
    /\ Table["pairing"] = BasePairing
    /\ Table["generateWhitelist"] = GenerateWhitelist
BY DEF Table

(* A kind registers at some places, and only one that asks takes its       *)
(* request back.                                                           *)
LEMMA KindPlaces ==
    ASSUME NEW k \in DOMAIN Table
    PROVE  /\ Table[k].at \subseteq Places
           /\ Table[k].cancels => Table[k].asks
           /\ Table[k].waits \in {"connected", "disconnected", "served", "pairing"}
                => ~Table[k].asks
<1>1. Table[k].at \subseteq Places
    BY TableDomain, Rows DEF KindNames, Kind, Cancels, Places, Single, ReadProcedure,
       WriteProcedure, WaitForDataWritten, ListenHVX, NegotiateAttMtu, DiscoverServices,
       DiscoverServicesAndCharacteristics, DiscoverDescriptors, ReadPhy, EnablePrivacy,
       StartAdvertising, StopAdvertising, ScanFor, WaitForConnection, WaitForDisconnection,
       BasePairing, GenerateWhitelist
<1>2. Table[k].cancels => Table[k].asks
    BY TableDomain, Rows DEF KindNames, Kind, Cancels, ReadProcedure,
       WriteProcedure, WaitForDataWritten, ListenHVX, NegotiateAttMtu, DiscoverServices,
       DiscoverServicesAndCharacteristics, DiscoverDescriptors, ReadPhy, EnablePrivacy,
       StartAdvertising, StopAdvertising, ScanFor, WaitForConnection, WaitForDisconnection,
       BasePairing, GenerateWhitelist
<1>3. Table[k].waits \in {"connected", "disconnected", "served", "pairing"} => ~Table[k].asks
    BY TableDomain, Rows DEF KindNames, Kind, Cancels, ReadProcedure,
       WriteProcedure, WaitForDataWritten, ListenHVX, NegotiateAttMtu, DiscoverServices,
       DiscoverServicesAndCharacteristics, DiscoverDescriptors, ReadPhy, EnablePrivacy,
       StartAdvertising, StopAdvertising, ScanFor, WaitForConnection, WaitForDisconnection,
       BasePairing, GenerateWhitelist
<1>. QED
    BY <1>1, <1>2, <1>3

(* A discovery is of a connection, asks, and leaves Gap its handler.       *)
LEMMA DiscoveryKinds ==
    ASSUME NEW k \in DOMAIN Table, "disconnection" \in Table[k].at
    PROVE  /\ k \in OfConnection /\ Table[k].asks /\ "gap" \notin Table[k].at
           /\ Table[k].waits # "disconnected"
BY TableDomain, Rows DEF KindNames, Kind, Cancels, OfConnection, ReadProcedure,
   WriteProcedure, WaitForDataWritten, ListenHVX, NegotiateAttMtu, DiscoverServices,
   DiscoverServicesAndCharacteristics, DiscoverDescriptors, ReadPhy, EnablePrivacy,
   StartAdvertising, StopAdvertising, ScanFor, WaitForConnection, WaitForDisconnection,
   BasePairing, GenerateWhitelist

(* A procedure that waits for a connection takes any.                      *)
LEMMA WaitingKinds ==
    ASSUME NEW k \in DOMAIN Table, Table[k].waits \in {"connected", "disconnected"}
    PROVE  "connection" \notin Table[k].matches /\ "attribute" \notin Table[k].matches
BY TableDomain, Rows DEF KindNames, Kind, Cancels, ReadProcedure,
   WriteProcedure, WaitForDataWritten, ListenHVX, NegotiateAttMtu, DiscoverServices,
   DiscoverServicesAndCharacteristics, DiscoverDescriptors, ReadPhy, EnablePrivacy,
   StartAdvertising, StopAdvertising, ScanFor, WaitForConnection, WaitForDisconnection,
   BasePairing, GenerateWhitelist

(* Kinds that wait for the same answer look at what tells answers apart.   *)
LEMMA SameAnswer ==
    ASSUME NEW k \in DOMAIN Table, NEW m \in DOMAIN Table,
           Table[k].asks, Table[k].waits = Table[m].waits
    PROVE  /\ k \in OfAttribute <=> m \in OfAttribute
           /\ k \in OfConnection <=> m \in OfConnection
           /\ m \in OfAttribute => "attribute" \in Table[m].matches
           /\ m \in OfConnection => \/ "connection" \in Table[m].matches
                                    \/ Table[m].waits \in {"phy", "mtu"}
BY TableDomain, Rows DEF KindNames, Kind, Cancels, OfConnection, OfAttribute, ReadProcedure,
   WriteProcedure, WaitForDataWritten, ListenHVX, NegotiateAttMtu, DiscoverServices,
   DiscoverServicesAndCharacteristics, DiscoverDescriptors, ReadPhy, EnablePrivacy,
   StartAdvertising, StopAdvertising, ScanFor, WaitForConnection, WaitForDisconnection,
   BasePairing, GenerateWhitelist
-----------------------------------------------------------------------------
(* Procedures are numbered as they begin; requests are those of kinds that *)
(* ask.                                                                    *)
Numbered ==
    /\ live # Null => live.id <= begun
    /\ \A q \in requests :
        /\ Table[q.kind].asks /\ q.id <= begun
        /\ live # Null /\ q # live => q.id < live.id

(* A request that outlives its procedure is accounted for.                 *)
Accounted == \A q \in requests : q = live \/ \E p \in late : Confusable(p, q)

Inv == TypeOK /\ OnlyLiveRegistered /\ DiscoveryConnected /\ Numbered /\ Accounted

(* What a procedure is.                                                    *)
LEMMA ProcedureFacts ==
    ASSUME NEW p \in Procedures
    PROVE  /\ p # Null /\ p.kind \in DOMAIN Table /\ p.id \in 1..MaxProcedures
           /\ p.connection \in Connections \union {Null}
           /\ p.attribute \in Attributes \union {Null}
           /\ p.connection = Null <=> p.kind \notin OfConnection
           /\ p.attribute = Null <=> p.kind \notin OfAttribute
BY CallbacksAssumption DEF Procedures

(* Being confusable is an equivalence.                                     *)
LEMMA ConfusableFacts ==
    /\ \A p : Confusable(p, p)
    /\ \A p, q : Confusable(p, q) => Confusable(q, p)
    /\ \A p, q, r : Confusable(p, q) /\ Confusable(q, r) => Confusable(p, r)
BY DEF Confusable

(* The late procedures that still count.                                   *)
LEMMA DueFacts ==
    ASSUME NEW procedures, NEW asked, NEW p \in procedures, NEW q \in asked, Confusable(p, q)
    PROVE  p \in Due(procedures, asked)
BY DEF Due

(* An answer that is heard is the answer to a request like one's own.      *)
LEMMA HeardAnswer ==
    ASSUME TypeOK, Numbered, NEW q \in requests,
           Hears(Table[q.kind].waits, q.connection, q.attribute)
    PROVE  live \in Procedures /\ Confusable(q, live)
<1>1. /\ q \in Procedures /\ live \in Procedures /\ live # Null
      /\ Table[q.kind].waits = Table[live.kind].waits
      /\ "connection" \in Table[live.kind].matches => q.connection = live.connection
      /\ "attribute" \in Table[live.kind].matches => q.attribute = live.attribute
    BY DEF TypeOK, Hears
<1>2. Table[q.kind].asks
    BY DEF Numbered
<1>3. /\ q.kind \in DOMAIN Table /\ live.kind \in DOMAIN Table
      /\ q.connection = Null <=> q.kind \notin OfConnection
      /\ live.connection = Null <=> live.kind \notin OfConnection
      /\ q.attribute = Null <=> q.kind \notin OfAttribute
      /\ live.attribute = Null <=> live.kind \notin OfAttribute
    BY <1>1, ProcedureFacts
<1>4. q.attribute = live.attribute
    BY <1>1, <1>2, <1>3, SameAnswer
<1>5. q.connection = live.connection \/ Table[q.kind].waits \in {"phy", "mtu"}
    BY <1>1, <1>2, <1>3, SameAnswer
<1>. QED
    BY <1>1, <1>4, <1>5 DEF Confusable

(* When a procedure ends, none is registered.                              *)
LEMMA EndFacts ==
    ASSUME TypeOK, OnlyLiveRegistered, live # Null, NEW answer, End(answer)
    PROVE  /\ live' = Null
           /\ registered' = [l \in Places |-> {}]
           /\ result' = [to |-> live, of |-> answer]
BY DEF TypeOK, OnlyLiveRegistered, End, Released

(* A notification ends the procedure that hears it, or changes nothing.    *)
LEMMA NotifyCases ==
    ASSUME NEW name, NEW c, NEW a, NEW answer, Notify(name, c, a, answer)
    PROVE  \/ live # Null /\ Hears(name, c, a) /\ End(answer)
           \/ Goes
BY DEF Notify, Hears

(* No place is used and nobody is alive: what the invariant says then.     *)
LEMMA NobodyRegistered ==
    ASSUME live' = Null, registered' = [l \in Places |-> {}]
    PROVE  OnlyLiveRegistered' /\ DiscoveryConnected'
BY DEF OnlyLiveRegistered, DiscoveryConnected

-----------------------------------------------------------------------------
(* The initial states satisfy the invariant.                               *)
LEMMA InitInv == Init => Inv
BY CallbacksAssumption DEF Init, Inv, TypeOK, OnlyLiveRegistered, DiscoveryConnected,
   Numbered, Accounted, NoResult

(* A procedure that starts is registered where its kind is, and nowhere    *)
(* else is anybody.                                                        *)
LEMMA StartInv ==
    ASSUME Inv, NEW p \in Procedures, Start(p)
    PROVE  Inv'
<1>1. /\ live = Null /\ p.id = begun + 1 /\ begun' = begun + 1 /\ begun < MaxProcedures
      /\ live' = p /\ registered' = Registered(p) /\ result' = NoResult
      /\ requests' = IF Table[p.kind].asks THEN requests \union {p} ELSE requests
      /\ UNCHANGED <<connected, seen, late>>
    BY DEF Start, Begins
<1>2. TypeOK /\ OnlyLiveRegistered /\ Numbered /\ Accounted /\ begun \in Nat
    BY CallbacksAssumption DEF Inv, TypeOK
<1>3. p # Null /\ p.kind \in DOMAIN Table
    BY ProcedureFacts
<1>4. \A l \in Places : registered'[l] = IF l \in Table[p.kind].at THEN {p} ELSE {}
    BY <1>1, <1>2 DEF Registered, OnlyLiveRegistered
<1>5. OnlyLiveRegistered'
    BY <1>1, <1>3, <1>4 DEF OnlyLiveRegistered
<1>6. TypeOK'
  <2>1. registered' \in [Places -> SUBSET Procedures]
      BY <1>1, <1>2 DEF Registered, TypeOK
  <2>2. begun' \in 0..MaxProcedures
      BY <1>1, <1>2, CallbacksAssumption
  <2>. QED
      BY <1>1, <1>2, <2>1, <2>2 DEF TypeOK, NoResult
<1>7. DiscoveryConnected'
  <2>. SUFFICES ASSUME "disconnection" \in Table[p.kind].at
                PROVE  p.connection \in connected
      BY <1>1 DEF DiscoveryConnected
  <2>1. p.kind \in OfConnection /\ Table[p.kind].asks
      BY <1>3, DiscoveryKinds
  <2>2. p.connection # Null
      BY <2>1, ProcedureFacts
  <2>. QED
      BY <2>1, <2>2 DEF Start
<1>8. Numbered'
  <2>1. \A q \in requests : Table[q.kind].asks /\ q.id <= begun /\ q.id \in Nat
      BY <1>2, ProcedureFacts DEF Numbered, TypeOK
  <2>2. p.id \in Nat
      BY <1>1, <1>2
  <2>. QED
      BY <1>1, <1>2, <2>1, <2>2 DEF Numbered
<1>9. Accounted'
  <2>1. \A q \in requests : \E r \in late : Confusable(r, q)
      BY <1>1, <1>2, ProcedureFacts DEF Accounted, TypeOK
  <2>. QED
      BY <1>1, <2>1 DEF Accounted
<1>. QED
    BY <1>5, <1>6, <1>7, <1>8, <1>9 DEF Inv

(* One that fails leaves nothing behind.                                   *)
LEMMA StartFailsInv ==
    ASSUME Inv, NEW p \in Procedures, StartFails(p)
    PROVE  Inv'
<1>1. /\ live = Null /\ begun' = begun + 1 /\ begun < MaxProcedures
      /\ registered' = Released(p) /\ result' = NoResult
      /\ UNCHANGED <<live, requests, connected, seen, late>>
    BY DEF StartFails, Begins
<1>2. TypeOK /\ OnlyLiveRegistered /\ Numbered /\ Accounted /\ begun \in Nat
    BY CallbacksAssumption DEF Inv, TypeOK
<1>3. registered' = [l \in Places |-> {}]
    BY <1>1, <1>2 DEF Released, OnlyLiveRegistered
<1>4. OnlyLiveRegistered' /\ DiscoveryConnected'
    BY <1>1, <1>3, NobodyRegistered
<1>5. TypeOK'
    BY <1>1, <1>2, <1>3, CallbacksAssumption DEF TypeOK, NoResult
<1>6. Numbered'
  <2>1. \A q \in requests : Table[q.kind].asks /\ q.id <= begun /\ q.id \in Nat
      BY <1>2, ProcedureFacts DEF Numbered, TypeOK
  <2>. QED
      BY <1>1, <1>2, <2>1 DEF Numbered
<1>7. Accounted'
    BY <1>1, <1>2 DEF Accounted, Confusable
<1>. QED
    BY <1>4, <1>5, <1>6, <1>7 DEF Inv
-----------------------------------------------------------------------------
(* A request taken back is that of the procedure that ends.                *)
LEMMA AskedFacts ==
    ASSUME NEW asked
    PROVE  /\ Asked(asked) \subseteq asked
           /\ live' = live => Asked(asked) = asked
           /\ \A q \in asked : q # live => q \in Asked(asked)
BY DEF Asked

(* With no procedure alive, the requests that stay are of numbers begun.   *)
LEMMA NumberedStays ==
    ASSUME Numbered, live' = Null \/ live' = live, requests' \subseteq requests, begun' = begun
    PROVE  Numbered'
BY DEF Numbered

(* A timeout: the procedure is late when its request is not answered.      *)
LEMMA TimeoutInv ==
    ASSUME Inv, Timeout
    PROVE  Inv'
<1>1. /\ live # Null /\ End(Null) /\ requests' = Asked(requests)
      /\ late' = Due(late \union {live}, requests') /\ UNCHANGED <<begun, connected, seen>>
    BY DEF Timeout
<1>2. TypeOK /\ OnlyLiveRegistered /\ Numbered /\ Accounted
    BY DEF Inv
<1>3. live' = Null /\ registered' = [l \in Places |-> {}] /\ result' = [to |-> live, of |-> Null]
    BY <1>1, <1>2, EndFacts
<1>4. OnlyLiveRegistered' /\ DiscoveryConnected'
    BY <1>3, NobodyRegistered
<1>5. requests' \subseteq requests
    BY <1>1, AskedFacts
<1>6. TypeOK'
    BY <1>1, <1>2, <1>3, <1>5 DEF TypeOK, Due
<1>7. Numbered'
    BY <1>1, <1>2, <1>3, <1>5, NumberedStays
<1>8. Accounted'
  <2>. SUFFICES ASSUME NEW q \in requests'
                PROVE  \E p \in late' : Confusable(p, q)
      BY DEF Accounted
  <2>1. PICK p \in late \union {live} : Confusable(p, q)
      BY <1>2, <1>5, ConfusableFacts DEF Accounted
  <2>2. p \in late'
      BY <1>1, <2>1, DueFacts
  <2>. QED
      BY <2>1, <2>2
<1>. QED
    BY <1>4, <1>6, <1>7, <1>8 DEF Inv

(* An answer: when it ends a procedure that has not asked for it, the      *)
(* request of that one is accounted for by the same late one.              *)
LEMMA AnswerInv ==
    ASSUME Inv, Answer
    PROVE  Inv'
<1>1. PICK r \in requests :
        /\ Notify(Table[r.kind].waits, r.connection, r.attribute, r)
        /\ requests' = Asked(requests \ {r})
    BY DEF Answer
<1>2. late' = Due(late, requests') /\ UNCHANGED <<begun, connected, seen>>
    BY DEF Answer
<1>3. TypeOK /\ OnlyLiveRegistered /\ DiscoveryConnected /\ Numbered /\ Accounted
    BY DEF Inv
<1>4. requests' \subseteq requests /\ r \notin requests'
    BY <1>1, AskedFacts
<1>5. CASE live # Null /\ Hears(Table[r.kind].waits, r.connection, r.attribute) /\ End(r)
  <2>1. live' = Null /\ registered' = [l \in Places |-> {}] /\ result' = [to |-> live, of |-> r]
      BY <1>3, <1>5, EndFacts
  <2>2. live \in Procedures /\ Confusable(r, live)
      BY <1>3, <1>5, HeardAnswer
  <2>3. OnlyLiveRegistered' /\ DiscoveryConnected'
      BY <2>1, NobodyRegistered
  <2>4. TypeOK'
      BY <1>2, <1>3, <1>4, <2>1, <2>2 DEF TypeOK, Due
  <2>5. Numbered'
      BY <1>2, <1>3, <1>4, <2>1, NumberedStays
  <2>6. Accounted'
    <3>. SUFFICES ASSUME NEW q \in requests'
                  PROVE  \E p \in late' : Confusable(p, q)
        BY DEF Accounted
    <3>1. q \in requests /\ q # r
        BY <1>4
    <3>2. PICK p \in late : Confusable(p, q)
      <4>1. CASE q = live
          BY <1>3, <2>2, <3>1, <4>1, ConfusableFacts DEF Accounted
      <4>. QED
          BY <1>3, <3>1, <4>1 DEF Accounted
    <3>3. p \in late'
        BY <1>2, <3>2, DueFacts
    <3>. QED
        BY <3>2, <3>3
  <2>. QED
      BY <2>3, <2>4, <2>5, <2>6 DEF Inv
<1>6. CASE Goes
  <2>1. UNCHANGED <<live, registered, result>>
      BY <1>6 DEF Goes
  <2>2. OnlyLiveRegistered' /\ DiscoveryConnected'
      BY <1>2, <1>3, <2>1 DEF OnlyLiveRegistered, DiscoveryConnected
  <2>3. TypeOK'
      BY <1>2, <1>3, <1>4, <2>1 DEF TypeOK, Due
  <2>4. Numbered'
      BY <1>2, <1>3, <1>4, <2>1, NumberedStays
  <2>5. Accounted'
      BY <1>2, <1>3, <1>4, <2>1, DueFacts DEF Accounted
  <2>. QED
      BY <2>2, <2>3, <2>4, <2>5 DEF Inv
<1>. QED
    BY <1>1, <1>5, <1>6, NotifyCases

(* A change of the MTU may end a procedure before its answer.              *)
LEMMA ReportInv ==
    ASSUME Inv, Report
    PROVE  Inv'
<1>1. PICK name \in {"served", "mtu", "stopped", "pairing"}, c \in Connections, a \in Attributes :
        Notify(name, c, a, Null)
    BY DEF Report
<1>2. /\ late' = IF live' = live THEN late ELSE Due(late \union {live}, requests)
      /\ UNCHANGED <<begun, requests, connected, seen>>
    BY DEF Report
<1>3. TypeOK /\ OnlyLiveRegistered /\ DiscoveryConnected /\ Numbered /\ Accounted
    BY DEF Inv
<1>4. CASE live # Null /\ End(Null)
  <2>1. live' = Null /\ registered' = [l \in Places |-> {}] /\ result' = [to |-> live, of |-> Null]
      BY <1>3, <1>4, EndFacts
  <2>2. late' = Due(late \union {live}, requests)
      BY <1>2, <1>4, <2>1
  <2>3. OnlyLiveRegistered' /\ DiscoveryConnected'
      BY <2>1, NobodyRegistered
  <2>4. TypeOK'
      BY <1>2, <1>3, <1>4, <2>1, <2>2 DEF TypeOK, Due
  <2>5. Numbered'
      BY <1>2, <1>3, <2>1, NumberedStays
  <2>6. Accounted'
    <3>. SUFFICES ASSUME NEW q \in requests
                  PROVE  \E p \in late' : Confusable(p, q)
        BY <1>2 DEF Accounted
    <3>1. PICK p \in late \union {live} : Confusable(p, q)
        BY <1>3, ConfusableFacts DEF Accounted
    <3>. QED
        BY <2>2, <3>1, DueFacts
  <2>. QED
      BY <2>3, <2>4, <2>5, <2>6 DEF Inv
<1>5. CASE Goes
    BY <1>2, <1>3, <1>5 DEF Goes, Inv, TypeOK, OnlyLiveRegistered, DiscoveryConnected, Numbered,
       Accounted
<1>. QED
    BY <1>1, <1>4, <1>5, NotifyCases
(* A procedure that hears "connected" or "disconnected" asked for nothing. *)
LEMMA HearsGap ==
    ASSUME TypeOK, Numbered, NEW name \in {"connected", "disconnected"}, Hears(name, Null, Null)
    PROVE  live \notin requests
<1>1. live \in Procedures /\ Table[live.kind].waits = name
    BY DEF TypeOK, Hears
<1>2. ~Table[live.kind].asks
    BY <1>1, ProcedureFacts, KindPlaces
<1>. QED
    BY <1>2 DEF Numbered

(* A connection: nothing is asked for, nor taken back.                     *)
LEMMA ConnectedInv ==
    ASSUME Inv, Connected
    PROVE  Inv'
<1>1. PICK c \in Connections \ connected :
        /\ connected' = connected \union {c}
        /\ seen' = IF Printed("connected") THEN seen \union {c} ELSE seen
    BY DEF Connected
<1>2. Notify("connected", Null, Null, Null) /\ UNCHANGED <<begun, requests, late>>
    BY DEF Connected
<1>3. TypeOK /\ OnlyLiveRegistered /\ DiscoveryConnected /\ Numbered /\ Accounted
    BY DEF Inv
<1>4. connected' \subseteq Connections /\ seen' \subseteq Connections
    BY <1>1, <1>3 DEF TypeOK
<1>5. CASE live # Null /\ Hears("connected", Null, Null) /\ End(Null)
  <2>1. live' = Null /\ registered' = [l \in Places |-> {}] /\ result' = [to |-> live, of |-> Null]
      BY <1>3, <1>5, EndFacts
  <2>2. live \notin requests
      BY <1>3, <1>5, HearsGap
  <2>3. OnlyLiveRegistered' /\ DiscoveryConnected'
      BY <2>1, NobodyRegistered
  <2>4. TypeOK'
      BY <1>2, <1>3, <1>4, <2>1 DEF TypeOK
  <2>5. Numbered'
      BY <1>2, <1>3, <2>1, NumberedStays
  <2>6. Accounted'
      BY <1>2, <1>3, <2>1, <2>2 DEF Accounted
  <2>. QED
      BY <2>3, <2>4, <2>5, <2>6 DEF Inv
<1>6. CASE Goes
    BY <1>1, <1>2, <1>3, <1>4, <1>6 DEF Goes, Inv, TypeOK, OnlyLiveRegistered,
       DiscoveryConnected, Numbered, Accounted
<1>. QED
    BY <1>2, <1>5, <1>6, NotifyCases

(* A disconnection ends the discovery on that connection, if one is alive: *)
(* the handler of Gap is then the default one.                             *)
LEMMA DisconnectedInv ==
    ASSUME Inv, Disconnected
    PROVE  Inv'
<1>1. PICK c \in connected :
        /\ connected' = connected \ {c}
        /\ seen' = IF Printed("disconnected") THEN seen \ {c} ELSE seen
        /\ requests' = { p \in requests : p.connection # c }
        /\ WhenDisconnected(c)
    BY DEF Disconnected
<1>2. late' = Due(late, requests') /\ UNCHANGED begun
    BY DEF Disconnected
<1>3. TypeOK /\ OnlyLiveRegistered /\ DiscoveryConnected /\ Numbered /\ Accounted
    BY DEF Inv
<1>4. /\ connected' \subseteq Connections /\ seen' \subseteq Connections
      /\ requests' \subseteq requests /\ late' \subseteq late
    BY <1>1, <1>2, <1>3 DEF TypeOK, Due
<1>5. \A q \in requests' : q # live => \E p \in late' : Confusable(p, q)
    BY <1>2, <1>3, <1>4, DueFacts DEF Accounted
<1>6. CASE live # Null /\ End(Null) /\ live \notin requests'
  <2>1. live' = Null /\ registered' = [l \in Places |-> {}] /\ result' = [to |-> live, of |-> Null]
      BY <1>3, <1>6, EndFacts
  <2>2. OnlyLiveRegistered' /\ DiscoveryConnected'
      BY <2>1, NobodyRegistered
  <2>3. TypeOK'
      BY <1>2, <1>3, <1>4, <2>1 DEF TypeOK
  <2>4. Numbered'
      BY <1>2, <1>3, <1>4, <2>1, NumberedStays
  <2>5. Accounted'
      BY <1>5, <1>6 DEF Accounted
  <2>. QED
      BY <2>2, <2>3, <2>4, <2>5 DEF Inv
<1>7. CASE Goes /\ ~(registered["gap"] = {} /\ live \in registered["disconnection"] /\ live.connection = c)
  <2>1. UNCHANGED <<live, registered, result>>
      BY <1>7 DEF Goes
  <2>2. DiscoveryConnected'
    <3>. SUFFICES ASSUME live # Null, "disconnection" \in Table[live.kind].at
                  PROVE  live.connection # c
        BY <1>1, <1>3, <2>1 DEF DiscoveryConnected
    <3>1. live.kind \in DOMAIN Table
        BY <1>3, ProcedureFacts DEF TypeOK
    <3>2. "gap" \notin Table[live.kind].at
        BY <3>1, DiscoveryKinds
    <3>3. registered["gap"] = {} /\ live \in registered["disconnection"]
        BY <1>3, <3>2 DEF OnlyLiveRegistered, Places, Single
    <3>. QED
        BY <1>7, <3>3
  <2>3. OnlyLiveRegistered'
      BY <1>3, <2>1 DEF OnlyLiveRegistered
  <2>4. TypeOK'
      BY <1>2, <1>3, <1>4, <2>1 DEF TypeOK
  <2>5. Numbered'
      BY <1>2, <1>3, <1>4, <2>1, NumberedStays
  <2>6. Accounted'
      BY <1>5, <2>1 DEF Accounted
  <2>. QED
      BY <2>2, <2>3, <2>4, <2>5, <2>6 DEF Inv
<1>8. CASE registered["gap"] = {} /\ live \in registered["disconnection"] /\ live.connection = c
  <2>1. live # Null
      BY <1>3, <1>8 DEF OnlyLiveRegistered, Places, Single
  <2>. QED
      BY <1>1, <1>6, <1>8, <2>1 DEF WhenDisconnected
<1>9. CASE ~(registered["gap"] = {} /\ live \in registered["disconnection"] /\ live.connection = c)
  <2>1. Notify("disconnected", Null, Null, Null)
      BY <1>1, <1>9 DEF WhenDisconnected
  <2>2. CASE live # Null /\ Hears("disconnected", Null, Null) /\ End(Null)
      BY <1>3, <1>4, <1>6, <2>2, HearsGap
  <2>. QED
      BY <1>7, <1>9, <2>1, <2>2, NotifyCases
<1>. QED
    BY <1>8, <1>9

(* Every step keeps the invariant.                                         *)
LEMMA NextInv == Inv /\ [Next]_vars => Inv'
<1>. SUFFICES ASSUME Inv, [Next]_vars
              PROVE  Inv'
    OBVIOUS
<1>1. CASE \E p \in Procedures : Start(p) \/ StartFails(p)
    BY <1>1, StartInv, StartFailsInv
<1>2. CASE Timeout \/ Answer \/ Report \/ Connected \/ Disconnected
    BY <1>2, TimeoutInv, AnswerInv, ReportInv, ConnectedInv, DisconnectedInv
<1>3. CASE UNCHANGED vars
    BY <1>3 DEF vars, Inv, TypeOK, OnlyLiveRegistered, DiscoveryConnected, Numbered, Accounted
<1>. QED
    BY <1>1, <1>2, <1>3 DEF Next

(* The invariant always holds.                                             *)
LEMMA AlwaysInv == Spec => []Inv
BY InitInv, NextInv, PTL DEF Spec

-----------------------------------------------------------------------------
(* The variables have the values they are declared to have.                *)
THEOREM TypeCorrect == Spec => []TypeOK
<1>1. Inv => TypeOK
    BY DEF Inv
<1>. QED
    BY <1>1, AlwaysInv, PTL

(* No callback is left to a procedure that was deleted, and the one that   *)
(* is alive is heard (the destructors of the procedures).                  *)
THEOREM OnlyLiveIsRegistered == Spec => []OnlyLiveRegistered
<1>1. Inv => OnlyLiveRegistered
    BY DEF Inv
<1>. QED
    BY <1>1, AlwaysInv, PTL

(* A discovery does not outlive its connection (whenDisconnected).         *)
THEOREM DiscoveryIsConnected == Spec => []DiscoveryConnected
<1>1. Inv => DiscoveryConnected
    BY DEF Inv
<1>. QED
    BY <1>1, AlwaysInv, PTL

(* The step of AnswersRequest, and that of EventsReported.                 *)
InStep ==
    result' # result /\ result'.of # Null =>
        \/ result'.of = result'.to
        \/ /\ result'.of.id < result'.to.id
           /\ Confusable(result'.of, result'.to)
           /\ \E p \in late : Confusable(p, result'.to)

Reported ==
    \A c \in Connections :
        /\ c \in connected' \ connected => c \in seen' \/ Hidden("connected")
        /\ c \in connected \ connected' => c \notin seen' \/ Hidden("disconnected")

(* Only Answer reports the answer to a request.                            *)
LEMMA StepInStep == Inv /\ [Next]_vars => InStep
<1>. SUFFICES ASSUME Inv, [Next]_vars, result' # result, result'.of # Null
              PROVE  InStep
    BY DEF InStep
<1>1. TypeOK /\ OnlyLiveRegistered /\ Numbered /\ Accounted
    BY DEF Inv
<1>2. ASSUME NEW answer, live # Null, End(answer)
      PROVE  result'.of = answer /\ result'.to = live
    BY <1>2 DEF End
<1>3. CASE \E p \in Procedures : Start(p) \/ StartFails(p)
    BY <1>3 DEF Start, StartFails, Begins, NoResult
<1>4. CASE Timeout
    BY <1>2, <1>4 DEF Timeout
<1>5. CASE Report
    BY <1>2, <1>5, NotifyCases DEF Report, Goes
<1>6. CASE Connected
    BY <1>2, <1>6, NotifyCases DEF Connected, Goes
<1>7. CASE Disconnected
  <2>1. PICK c \in connected : WhenDisconnected(c)
      BY <1>7 DEF Disconnected
  <2>2. CASE registered["gap"] = {} /\ live \in registered["disconnection"] /\ live.connection = c
    <3>1. live # Null
        BY <1>1, <2>2 DEF OnlyLiveRegistered, Places, Single
    <3>. QED
        BY <1>2, <2>1, <2>2, <3>1 DEF WhenDisconnected
  <2>. QED
      BY <1>2, <2>1, <2>2, NotifyCases DEF WhenDisconnected, Goes
<1>8. CASE Answer
  <2>1. PICK r \in requests : Notify(Table[r.kind].waits, r.connection, r.attribute, r)
      BY <1>8 DEF Answer
  <2>2. live # Null /\ Hears(Table[r.kind].waits, r.connection, r.attribute) /\ End(r)
      BY <2>1, NotifyCases DEF Goes
  <2>3. result'.of = r /\ result'.to = live
      BY <1>2, <2>2
  <2>4. Confusable(r, live)
      BY <1>1, <2>2, HeardAnswer
  <2>5. r = live \/ r.id < live.id
      BY <1>1, <2>2 DEF Numbered
  <2>6. r = live \/ \E p \in late : Confusable(p, live)
      BY <1>1, <2>4, ConfusableFacts DEF Accounted
  <2>. QED
      BY <2>3, <2>4, <2>5, <2>6 DEF InStep
<1>9. CASE UNCHANGED vars
    BY <1>9 DEF vars
<1>. QED
    BY <1>3, <1>4, <1>5, <1>6, <1>7, <1>8, <1>9 DEF Next

(* A result is the answer to one's own request, or to an older one whose   *)
(* answer cannot be told from it (Confusable, which for the phy and the    *)
(* MTU leaves the connection out). The latter only if some such procedure  *)
(* ended without its answer, by its timeout or by a report nobody had      *)
(* asked for, and an answer to one of them has been due ever since         *)
(* (whenDataRead and the like, onReadPhy, onAttMtuChange).                 *)
THEOREM AnswersInStep == Spec => AnswersRequest
<1>1. Inv /\ [Next]_vars => [InStep]_vars
    BY StepInStep
<1>. QED
    BY <1>1, AlwaysInv, PTL DEF Spec, AnswersRequest, InStep

(* What is not printed is hidden by a procedure that waits for something   *)
(* else.                                                                   *)
LEMMA NotPrinted ==
    ASSUME TypeOK, OnlyLiveRegistered, NEW name \in {"connected", "disconnected"},
           ~Printed(name)
    PROVE  Hidden(name)
<1>1. live # Null /\ "gap" \in Table[live.kind].at /\ live \in registered["gap"]
    BY DEF OnlyLiveRegistered, Printed, Places, Single
<1>2. live.kind \in DOMAIN Table
    BY <1>1, ProcedureFacts DEF TypeOK
<1>3. ~Hears(name, Null, Null)
    BY DEF Printed
<1>4. Table[live.kind].waits # name
    BY <1>1, <1>2, <1>3, WaitingKinds DEF Hears
<1>. QED
    BY <1>1, <1>4 DEF Hidden

(* A connection or its end is printed, or hidden.                          *)
LEMMA StepReported == Inv /\ [Next]_vars => Reported
<1>. SUFFICES ASSUME Inv, [Next]_vars
              PROVE  Reported
    OBVIOUS
<1>1. TypeOK /\ OnlyLiveRegistered
    BY DEF Inv
<1>2. CASE Connected
  <2>1. PICK c \in Connections \ connected :
          /\ connected' = connected \union {c}
          /\ seen' = IF Printed("connected") THEN seen \union {c} ELSE seen
      BY <1>2 DEF Connected
  <2>. QED
      BY <1>1, <2>1, NotPrinted DEF Reported
<1>3. CASE Disconnected
  <2>1. PICK c \in connected :
          /\ connected' = connected \ {c}
          /\ seen' = IF Printed("disconnected") THEN seen \ {c} ELSE seen
      BY <1>3 DEF Disconnected
  <2>. QED
      BY <1>1, <2>1, NotPrinted DEF Reported
<1>4. CASE UNCHANGED connected
    BY <1>4 DEF Reported
<1>. QED
    BY <1>2, <1>3, <1>4 DEF Next, Start, StartFails, Timeout, Answer, Report, vars

(* The host is told of every connection and disconnection, but of those    *)
(* that a procedure hides (setEventHandler).                               *)
THEOREM EventsAreReported == Spec => EventsReported
<1>1. Inv /\ [Next]_vars => [Reported]_vars
    BY StepReported
<1>. QED
    BY <1>1, AlwaysInv, PTL DEF Spec, EventsReported, Reported
=============================================================================
