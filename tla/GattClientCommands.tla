-------------------------- MODULE GattClientCommands --------------------------
(***************************************************************************)
(* The commands of the suite "gattClient" (GattClientCommands.cpp): what   *)
(* they say, and how the procedures among them go. The BLE stack is        *)
(* external: its calls fail or not, and it reports any of the events a     *)
(* procedure handles. A procedure ignores what is reported of another      *)
(* connection or attribute.                                                *)
(***************************************************************************)
EXTENDS Commands

(* Discovery of services with their characteristics. A service stays open, *)
(* with the array of its characteristics, until the next one or the end.   *)
(* A disconnection or a timeout closes the service, not the array of the   *)
(* services. The destructor terminates the discovery.                      *)
CloseService == <<"]", "}">>
OpenService == <<"{", "k", "[">>
DiscoveryFails == <<"v", "err">>

DiscoverAllServicesAndCharacteristicsProcedure ==
    Procedure({Starts(<<"result", "[">>), Fails(<<"err+">>),
               Step("callback", "live", OpenService, "service"),
               Step("callback", "service", CloseService \o OpenService, "service"),
               Step("callback", "service", <<"v">>, "service"),
               Ends(<<"]", "ok">>),
               Step("callback", "service", CloseService \o <<"]", "ok">>, "end"),
               Ends(DiscoveryFails),
               Step("callback", "service", CloseService \o DiscoveryFails, "end"),
               TimesOut(DiscoveryFails),
               Step("timeout", "service", CloseService \o DiscoveryFails, "end")})

(* Discovery of services, all or by UUID. The destructor does not end the  *)
(* discovery: after a timeout the stack still calls whenServiceDiscovered. *)
DiscoverServicesProcedure ==
    Dangling(Procedure({Starts(<<"result", "[">>), Fails(<<"err+">>),
                        Goes(<<"v">>), Ends(<<"]", "ok">>), Ends(DiscoveryFails),
                        TimesOut(DiscoveryFails)}))

DiscoverAllServices == "discoverAllServices" :> DiscoverServicesProcedure
DiscoverPrimaryServicesByUUID == "discoverPrimaryServicesByUUID" :> DiscoverServicesProcedure

UnimplementedDiscoveries ==
    Each({"findIncludedServices", "discoverCharacteristicsOfService",
          "discoverCharacteristicsByUUID"}, NotImplemented)

(* Discovery of descriptors. No procedure starts when the range of handles *)
(* is not valid or has no room for a descriptor.                           *)
DiscoverAllCharacteristicsDescriptorsProcedure ==
    Or({<<"err+">>, <<"result", "[", "]", "ok">>},
       Procedure({Starts(<<"result", "[">>), Fails(<<"err+">>), Goes(<<"v">>),
                  Ends(<<"]", "ok">>), Ends(<<"v", "]", "err">>),
                  TimesOut(<<"v", "]", "err">>)}))

-----------------------------------------------------------------------------
(* Reads of a characteristic or of a descriptor.                           *)
ReadProcedure ==
    Procedure({Starts(<<>>), Fails(<<"err+">>), Ends(<<"ok+">>), DefaultTimeout})

ReadCommands ==
    [n \in {"readCharacteristicValue", "readCharacteristicDescriptor"} |-> ReadProcedure]
    @@ Each({"readUsingCharacteristicUUID", "readLongCharacteristicValue",
             "readMultipleCharacteristicValues"}, NotImplemented)

(* Writes. doStart of a write command, for which the server answers        *)
(* nothing, returns false on success too.                                  *)
WriteRequestProcedure ==
    Procedure({Starts(<<>>), Fails(<<"err+">>),
               Ends(<<"ok+">>), Ends(<<"err+">>), DefaultTimeout})

WriteCommandProcedure == Procedure({Fails(<<"err+">>), Fails(<<"ok">>)})

WriteCommands ==
    [n \in {"writeWithoutResponse", "signedWriteWithoutResponse"} |-> WriteCommandProcedure]
    @@ [n \in {"write", "writeCharacteristicDescriptor"} |-> WriteRequestProcedure]
    @@ Each({"writeLong", "reliableWrite", "readLongCharacteristicDescriptor",
             "writeLongCharacteristicDescriptor"}, NotImplemented)

-----------------------------------------------------------------------------
(* Notifications and indications. listenHVX succeeds at once, and lists    *)
(* what it received when it times out.                                     *)
ListenHVXProcedure ==
    Procedure({Starts(<<"ok", "ok", "result", "[">>), Goes(<<"v">>), TimesOut(<<"]">>)})

(* negotiateAttMtu gives its result before its status when it succeeds.    *)
NegotiateAttMtuProcedure ==
    Procedure({Starts(<<>>), Fails(<<"err", "result", "v">>),
               Ends(<<"result", "v", "ok">>), TimesOut(<<"err", "result", "v">>)})

GattClient ==
    "discoverAllServicesAndCharacteristics" :> DiscoverAllServicesAndCharacteristicsProcedure
    @@ DiscoverAllServices @@ DiscoverPrimaryServicesByUUID @@ UnimplementedDiscoveries
    @@ "discoverAllCharacteristicsDescriptors" :> DiscoverAllCharacteristicsDescriptorsProcedure
    @@ ReadCommands @@ WriteCommands
    @@ "listenHVX" :> ListenHVXProcedure
    @@ Each({"enableUnsolicitedHVX"}, Succeed)
    @@ "negotiateAttMtu" :> NegotiateAttMtuProcedure
=============================================================================
