-------------------------- MODULE ServiceDeclaration --------------------------
(***************************************************************************)
(* The declaration of services (GattServerCommands.cpp, ServiceBuilder.h,  *)
(* RAIIGattService, RAIIGattCharacteristic, RAIIGattAttribute): which      *)
(* object owns which, from the commands that declare a service to the      *)
(* shutdown of the BLE stack that frees it, and the lengths of attributes. *)
(*                                                                         *)
(* Commands that are refused change nothing and have no action. Properties *)
(* of characteristics, their security and "variable length" are values     *)
(* that nothing here depends on.                                           *)
(***************************************************************************)
EXTENDS Integers, Sequences, SequencesExt

CONSTANTS Objects,     \* the addresses at which objects are allocated
          Null,
          CountLimit,  \* the values of the uint8_t that counts children
          MaxSize      \* bound on the length of values

ASSUME DeclarationAssumption ==
    /\ Null \notin Objects \union [service : Objects, characteristic : Objects \union {Null},
                                   descriptor : Objects \union {Null}]
    /\ {"gattServices", "serviceBuilder"} \intersect Objects = {}
    /\ CountLimit \in Nat /\ MaxSize \in Nat

VARIABLES heap,               \* what is at each address
          serviceBuilder,     \* the pointers of the builder, or Null
          gattServices,       \* the services of the server
          cleanupRegistered,
          shutdownCalls,      \* whenShutdown in the stack's list of callbacks
          registered,         \* the services the stack was given, as it saw them
          lost                \* what a count that wrapped has forgotten, ever

vars == <<heap, serviceBuilder, gattServices, cleanupRegistered, shutdownCalls, registered, lost>>

(* An object: its kind, its children and the lengths of its attribute. Its *)
(* value is allocated when its length is not zero.                         *)
New(kind) == [kind |-> kind, children |-> <<>>, len |-> 0, max |-> 0]
Freed == New("free")

Allocated == {x \in Objects : heap[x].kind # "free"}

Building == serviceBuilder # Null

Init ==
    /\ heap = [x \in Objects |-> Freed]
    /\ serviceBuilder = Null
    /\ gattServices = <<>>
    /\ cleanupRegistered = FALSE
    /\ shutdownCalls = 0
    /\ registered = <<>>
    /\ lost = {}

-----------------------------------------------------------------------------
(* Objects own each other.                                                 *)

(* addCharacteristic, addDescriptor: y is the last child of x. A count     *)
(* that wraps forgets them all, which stay allocated.                      *)
Added(children, y) == IF Len(children) + 1 = CountLimit THEN <<>> ELSE Append(children, y)

AddChild(h, x, y) == [h EXCEPT ![x].children = Added(@, y)]

Forgets(h, x, y) ==
    IF Len(h[x].children) + 1 = CountLimit THEN Range(h[x].children) \union {y} ELSE {}

ChildrenOf(h, xs) == UNION {Range(h[x].children) : x \in xs}

(* A destructor deletes the children, and theirs.                          *)
Family(h, xs) == xs \union ChildrenOf(h, xs) \union ChildrenOf(h, ChildrenOf(h, xs))

Delete(h, xs) ==
    [x \in Objects |-> IF x \in Family(h, xs \ {Null}) THEN Freed ELSE h[x]]

(* What the stack is told of a service: the attributes of each of its      *)
(* characteristics, the value first.                                       *)
Attribute(h, x) == [len |-> h[x].len, max |-> h[x].max]

Attributes(h, c) ==
    <<Attribute(h, c)>> \o [i \in DOMAIN h[c].children |-> Attribute(h, h[c].children[i])]

Content(h, s) == [i \in DOMAIN h[s].children |-> Attributes(h, h[s].children[i])]

(* releaseAttributesValue: values are freed, lengths are zero.             *)
ReleaseAttributesValue(h, s) ==
    [x \in Objects |-> IF x \in Family(h, {s}) \ {s} THEN [h[x] EXCEPT !.len = 0] ELSE h[x]]

-----------------------------------------------------------------------------
(* Mutated forms of commit(): the last descriptor is forgotten; or it goes *)
(* to the service instead of the characteristic.                           *)
CommittedWithoutDescriptor(h, b) ==
    IF b.characteristic = Null THEN h ELSE AddChild(h, b.service, b.characteristic)

CommittedSwapped(h, b) ==
    IF b.characteristic = Null THEN h
    ELSE AddChild(IF b.descriptor = Null THEN h ELSE AddChild(h, b.service, b.descriptor),
                  b.service, b.characteristic)

(* The builder. commit() adds the pending descriptor to the pending        *)
(* characteristic, and that one to the service.                            *)
Committed(h, b) ==
    IF b.characteristic = Null THEN h
    ELSE AddChild(IF b.descriptor = Null THEN h ELSE AddChild(h, b.characteristic, b.descriptor),
                  b.service, b.characteristic)

(* What the pending descriptor and the pending characteristic make their   *)
(* owners forget.                                                          *)
DescriptorForgets(h, b) ==
    IF b.descriptor = Null THEN {} ELSE Forgets(h, b.characteristic, b.descriptor)

CommitForgets(h, b) ==
    IF b.characteristic = Null THEN {}
    ELSE DescriptorForgets(h, b) \union Forgets(h, b.service, b.characteristic)

(* initServiceBuilder.                                                     *)
DeclareService ==
    /\ ~Building
    /\ \E x \in Objects \ Allocated :
        /\ heap' = [heap EXCEPT ![x] = New("service")]
        /\ serviceBuilder' = [service |-> x, characteristic |-> Null, descriptor |-> Null]
    /\ shutdownCalls' = IF cleanupRegistered THEN shutdownCalls ELSE shutdownCalls + 1
    /\ cleanupRegistered' = TRUE
    /\ UNCHANGED <<gattServices, registered, lost>>

DeclareCharacteristic ==
    /\ Building
    /\ \E x \in Objects \ Allocated :
        /\ heap' = [Committed(heap, serviceBuilder) EXCEPT ![x] = New("characteristic")]
        /\ serviceBuilder' = [serviceBuilder EXCEPT !.characteristic = x, !.descriptor = Null]
    /\ lost' = lost \union CommitForgets(heap, serviceBuilder)
    /\ UNCHANGED <<gattServices, cleanupRegistered, shutdownCalls, registered>>

DeclareDescriptor ==
    /\ Building /\ serviceBuilder.characteristic # Null
    /\ \E x \in Objects \ Allocated :
        /\ heap' = [(IF serviceBuilder.descriptor = Null THEN heap
                     ELSE AddChild(heap, serviceBuilder.characteristic, serviceBuilder.descriptor))
                    EXCEPT ![x] = New("descriptor")]
        /\ serviceBuilder' = [serviceBuilder EXCEPT !.descriptor = x]
    /\ lost' = lost \union DescriptorForgets(heap, serviceBuilder)
    /\ UNCHANGED <<gattServices, cleanupRegistered, shutdownCalls, registered>>

(* The attribute that a command sets.                                      *)
Current(field) == IF Building THEN serviceBuilder[field] ELSE Null

(* Mutated form: the maximum stays below the length of the value.          *)
SetValueOnly(x, n) == heap' = [heap EXCEPT ![x].len = n]

(* setValue, the same in both classes.                                     *)
SetValue(x, n) ==
    heap' = [heap EXCEPT ![x].len = n, ![x].max = IF @ < n THEN n ELSE @]

SetCharacteristicValue(n) ==
    /\ Current("characteristic") # Null
    /\ SetValue(Current("characteristic"), n)
    /\ UNCHANGED <<serviceBuilder, gattServices, cleanupRegistered, shutdownCalls, registered, lost>>

(* A maximum is only raised, unlike that of a descriptor.                  *)
SetCharacteristicMaxLength(n) ==
    /\ Current("characteristic") # Null
    /\ n >= heap[Current("characteristic")].max
    /\ heap' = [heap EXCEPT ![Current("characteristic")].max = n]
    /\ UNCHANGED <<serviceBuilder, gattServices, cleanupRegistered, shutdownCalls, registered, lost>>

SetDescriptorValue(n) ==
    /\ Current("characteristic") # Null /\ Current("descriptor") # Null
    /\ SetValue(Current("descriptor"), n)
    /\ UNCHANGED <<serviceBuilder, gattServices, cleanupRegistered, shutdownCalls, registered, lost>>

SetDescriptorMaxLength(n) ==
    /\ Current("characteristic") # Null /\ Current("descriptor") # Null
    /\ n >= heap[Current("descriptor")].len
    /\ heap' = [heap EXCEPT ![Current("descriptor")].max = n]
    /\ UNCHANGED <<serviceBuilder, gattServices, cleanupRegistered, shutdownCalls, registered, lost>>

-----------------------------------------------------------------------------
(* Mutated form: release() leaves the service to the builder, which is     *)
(* deleted with it.                                                        *)
CommitAcceptedUnreleased ==
    /\ Building
    /\ LET h == Committed(heap, serviceBuilder)
           s == serviceBuilder.service
       IN  /\ registered' = Append(registered, [service |-> s, content |-> Content(h, s)])
           /\ heap' = Delete(h, {s})
           /\ gattServices' = Append(gattServices, s)
    /\ serviceBuilder' = Null
    /\ lost' = lost \union CommitForgets(heap, serviceBuilder)
    /\ UNCHANGED <<cleanupRegistered, shutdownCalls>>

(* commitService: the builder is complete, then gives its service away.    *)
(* The stack takes the service, which is now one of the list and loses its *)
(* values.                                                                 *)
CommitAccepted ==
    /\ Building
    /\ LET h == Committed(heap, serviceBuilder)
           s == serviceBuilder.service
       IN  /\ registered' = Append(registered, [service |-> s, content |-> Content(h, s)])
           /\ heap' = ReleaseAttributesValue(h, s)
           /\ gattServices' = Append(gattServices, s)
    /\ serviceBuilder' = Null
    /\ lost' = lost \union CommitForgets(heap, serviceBuilder)
    /\ UNCHANGED <<cleanupRegistered, shutdownCalls>>

(* Mutated form: the service is deleted before the builder has given its   *)
(* characteristic to it.                                                   *)
CommitRefusedEarly ==
    /\ Building
    /\ heap' = Delete(heap, {serviceBuilder.service})
    /\ serviceBuilder' = Null
    /\ lost' = lost \union CommitForgets(heap, serviceBuilder)
    /\ UNCHANGED <<gattServices, cleanupRegistered, shutdownCalls, registered>>

(* The stack refuses the service, which is deleted.                        *)
CommitRefused ==
    /\ Building
    /\ heap' = Delete(Committed(heap, serviceBuilder), {serviceBuilder.service})
    /\ serviceBuilder' = Null
    /\ lost' = lost \union CommitForgets(heap, serviceBuilder)
    /\ UNCHANGED <<gattServices, cleanupRegistered, shutdownCalls, registered>>

(* What ~ServiceBuilder deletes.                                           *)
Pointers(b) == IF b = Null THEN {} ELSE {b.service, b.characteristic, b.descriptor} \ {Null}

CancelServiceDeclaration ==
    /\ Building
    /\ heap' = Delete(heap, Pointers(serviceBuilder))
    /\ serviceBuilder' = Null
    /\ UNCHANGED <<gattServices, cleanupRegistered, shutdownCalls, registered, lost>>

(* Mutated form: cleanupRegistered stays.                                  *)
WhenShutdownStaysRegistered ==
    /\ heap' = Delete(heap, Pointers(serviceBuilder) \union Range(gattServices))
    /\ serviceBuilder' = Null
    /\ gattServices' = <<>>
    /\ UNCHANGED cleanupRegistered

WhenShutdown ==
    /\ heap' = Delete(heap, Pointers(serviceBuilder) \union Range(gattServices))
    /\ serviceBuilder' = Null
    /\ gattServices' = <<>>
    /\ cleanupRegistered' = FALSE

(* The stack shuts down, for "ble shutdown" or "ble reset": it calls its   *)
(* callbacks and forgets them and its services.                            *)
Shutdown ==
    /\ IF shutdownCalls > 0 THEN WhenShutdown
       ELSE UNCHANGED <<heap, serviceBuilder, gattServices, cleanupRegistered>>
    /\ shutdownCalls' = 0
    /\ registered' = <<>>
    /\ UNCHANGED lost

-----------------------------------------------------------------------------
Next ==
    \/ DeclareService \/ DeclareCharacteristic \/ DeclareDescriptor
    \/ \E n \in 1..MaxSize : SetCharacteristicValue(n) \/ SetDescriptorValue(n)
    \/ \E n \in 0..MaxSize : SetCharacteristicMaxLength(n) \/ SetDescriptorMaxLength(n)
    \/ CommitAccepted \/ CommitRefused \/ CancelServiceDeclaration
    \/ Shutdown

Spec == Init /\ [][Next]_vars

-----------------------------------------------------------------------------
Kinds == {"free", "service", "characteristic", "descriptor"}

(* The values the variables take: each pointer is to an object of its      *)
(* class, the pending descriptor has a pending characteristic to go to.    *)
TypeOK ==
    /\ \A x \in Objects :
        /\ heap[x].kind \in Kinds
        /\ heap[x].len \in 0..MaxSize /\ heap[x].max \in 0..MaxSize
        /\ \A i \in DOMAIN heap[x].children : heap[heap[x].children[i]].kind =
               IF heap[x].kind = "service" THEN "characteristic" ELSE "descriptor"
    /\ \A i \in DOMAIN gattServices : heap[gattServices[i]].kind = "service"
    /\ Building =>
        /\ heap[serviceBuilder.service].kind = "service"
        /\ serviceBuilder.characteristic # Null =>
               heap[serviceBuilder.characteristic].kind = "characteristic"
        /\ serviceBuilder.descriptor # Null =>
               /\ heap[serviceBuilder.descriptor].kind = "descriptor"
               /\ serviceBuilder.characteristic # Null
    /\ cleanupRegistered \in BOOLEAN /\ shutdownCalls \in {0, 1}
    /\ lost \subseteq Allocated

(* The places that own an object: children, the list of services and the   *)
(* pointers of the builder.                                                *)
Places ==
    (UNION {{x} \X DOMAIN heap[x].children : x \in Objects})
    \union {"gattServices"} \X DOMAIN gattServices
    \union {p \in {"serviceBuilder"} \X {"service", "characteristic", "descriptor"} :
                Current(p[2]) # Null}

At(p) ==
    CASE p[1] = "gattServices" -> gattServices[p[2]]
      [] p[1] = "serviceBuilder" -> serviceBuilder[p[2]]
      [] OTHER -> heap[p[1]].children[p[2]]

(* Each object has one owner, which will free it, and no owner has an      *)
(* object that was freed: nothing is freed twice, and nothing leaks but    *)
(* what a count forgets as it wraps, whatever the order of commands,       *)
(* refusals and shutdowns.                                                 *)
OneOwner ==
    /\ \A x \in Allocated \ lost : \E p \in Places : At(p) = x
    /\ \A p \in Places : At(p) \in Allocated \ lost
    /\ \A p, q \in Places : At(p) = At(q) => p = q

(* The stack has no service that was deleted, and the list none that the   *)
(* stack does not have.                                                    *)
StackServicesAlive ==
    /\ \A i \in DOMAIN registered : registered[i].service \in Allocated
    /\ gattServices = [i \in DOMAIN registered |-> registered[i].service]

(* While there is something to free, the stack has whenShutdown, once,     *)
(* also after earlier shutdowns.                                           *)
CleanupDue ==
    /\ Building \/ gattServices # <<>> => shutdownCalls = 1
    /\ cleanupRegistered <=> shutdownCalls = 1

(* A value is never longer than the maximum of its attribute, in whatever  *)
(* order lengths and values are set, although the two classes have         *)
(* different rules.                                                        *)
LengthsFit == \A x \in Objects : heap[x].len <= heap[x].max

(* The service being declared, as the commands say it: what is pending is  *)
(* part of it.                                                             *)
Declaration ==
    IF ~Building THEN <<>>
    ELSE Content(Committed(heap, serviceBuilder), serviceBuilder.service)

Declared == INSTANCE GattDeclaration WITH
    declaring <- Building,
    declaration <- Declaration,
    server <- [i \in DOMAIN registered |-> registered[i].content]

(* The stack is given what the commands declared, in their order, and all  *)
(* of it but what a count forgets as it wraps.                             *)
ImplementsGattDeclaration == Declared!Spec
=============================================================================
