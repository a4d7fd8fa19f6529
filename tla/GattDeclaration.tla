---------------------------- MODULE GattDeclaration ----------------------------
(***************************************************************************)
(* What the commands of gattServer that declare a service promise: a       *)
(* service is declared by one command after the other, then given to the   *)
(* BLE stack with what was declared, all of it and in the order of the     *)
(* commands, or dropped. ServiceDeclaration implements this.               *)
(*                                                                         *)
(* A service is the sequence of its characteristics, a characteristic the  *)
(* sequence of its attributes: first its value, then its descriptors. Both *)
(* start again from none when there are as many as CountLimit; commands on *)
(* what is not in the declaration any more change nothing.                 *)
(***************************************************************************)
EXTENDS Integers, Sequences, SequencesExt

CONSTANTS CountLimit,   \* the values of the counters of characteristics, descriptors
          MaxSize       \* bound on the length of values

VARIABLES declaring,    \* a service is being declared
          declaration,  \* what of it was declared, or <<>>
          server        \* the services of the stack, in order

vars == <<declaring, declaration, server>>

(* Lengths of an attribute: that of its value, and its maximum.            *)
NewAttribute == [len |-> 0, max |-> 0]

WithCharacteristic(service, c) ==
    IF Len(service) + 1 = CountLimit THEN <<>> ELSE Append(service, c)

(* The value is no descriptor.                                             *)
WithDescriptor(attributes, d) ==
    IF Len(attributes) = CountLimit THEN <<attributes[1]>> ELSE Append(attributes, d)

Init == ~declaring /\ declaration = <<>> /\ server = <<>>

DeclareService ==
    /\ ~declaring
    /\ declaring'
    /\ UNCHANGED <<declaration, server>>

DeclareCharacteristic ==
    /\ declaring
    /\ declaration' = WithCharacteristic(declaration, <<NewAttribute>>)
    /\ UNCHANGED <<declaring, server>>

DeclareDescriptor ==
    /\ declaring /\ declaration # <<>>
    /\ declaration' = [declaration EXCEPT ![Len(declaration)] =
                           WithDescriptor(@, NewAttribute)]
    /\ UNCHANGED <<declaring, server>>

(* The attributes that commands may set: the value of the last             *)
(* characteristic and its last descriptor.                                 *)
Settable(i) == i \in {1, Len(Last(declaration))}

SetValue(n) ==
    /\ declaring /\ declaration # <<>>
    /\ \E i \in DOMAIN Last(declaration) :
        /\ Settable(i)
        /\ declaration' = [declaration EXCEPT ![Len(declaration)][i] =
                              [len |-> n, max |-> IF @.max < n THEN n ELSE @.max]]
    /\ UNCHANGED <<declaring, server>>

(* Never below the length of the value.                                    *)
SetMaxLength(n) ==
    /\ declaring /\ declaration # <<>>
    /\ \E i \in DOMAIN Last(declaration) :
        /\ Settable(i)
        /\ Last(declaration)[i].len <= n
        /\ declaration' = [declaration EXCEPT ![Len(declaration)][i].max = n]
    /\ UNCHANGED <<declaring, server>>

CommitService ==
    /\ declaring
    /\ ~declaring' /\ declaration' = <<>>
    /\ server' = Append(server, declaration)

(* The command, or the stack that refuses the service.                     *)
CancelServiceDeclaration ==
    /\ declaring
    /\ ~declaring' /\ declaration' = <<>>
    /\ UNCHANGED server

Shutdown ==
    /\ ~declaring' /\ declaration' = <<>>
    /\ server' = <<>>

Next ==
    \/ DeclareService \/ DeclareCharacteristic \/ DeclareDescriptor
    \/ \E n \in 0..MaxSize : SetValue(n) \/ SetMaxLength(n)
    \/ CommitService \/ CancelServiceDeclaration \/ Shutdown

Spec == Init /\ [][Next]_vars
=============================================================================
