----------------------------- MODULE GapCommands -----------------------------
(***************************************************************************)
(* The commands of the suite "gap" (Commands/GapCommands.cpp): what they   *)
(* say, and how the procedures among them go. The BLE stack is external:   *)
(* its calls fail or not, and the events it reports are any of those the   *)
(* procedure handles, or none. A procedure makes itself the event handler  *)
(* of Gap and its destructor restores the default one, which only prints   *)
(* events; an event that is not for the procedure changes nothing.         *)
(***************************************************************************)
EXTENDS Commands

(* Addresses and whitelists.                                               *)
WhitelistCommands ==
    Each({"getAddress"}, {<<"err+">>, <<"ok", "result", "v">>})
    @@ Each({"getMaxWhitelistSize"}, Fetch)
    @@ Each({"getWhitelist"}, {<<"err+">>, <<"ok", "result", "[", "]">>,
                               <<"ok", "result", "[", "v", "]">>})
    @@ Each({"setWhitelist"}, Report)

(* Privacy. doWhenTimeout calls terminate(), and is called by whenTimeout, *)
(* which does too.                                                         *)
EnablePrivacyProcedure ==
    Procedure({Starts(<<>>), Fails(<<"err+">>), Ends(<<"ok">>),
               Step("timeout", "live", <<"err+">>, "twice")})

PrivacyCommands ==
    "enablePrivacy" :> Or(Report, EnablePrivacyProcedure)
    @@ Each({"setPeripheralPrivacyConfiguration", "setCentralPrivacyConfiguration"}, Report)
    @@ Each({"getPeripheralPrivacyConfiguration", "getCentralPrivacyConfiguration"}, ReportResult)

(* Phys. onReadPhy asks for the result before it sets the status.          *)
ReadPhyProcedure ==
    Procedure({Starts(<<>>), Fails(<<"err+">>),
               Ends(<<"result", "ok", "v">>), DefaultTimeout})

PhyCommands ==
    "readPhy" :> ReadPhyProcedure
    @@ Each({"setPhy", "setPreferredPhys"}, Report)

-----------------------------------------------------------------------------
(* Advertising.                                                            *)
AdvertisingSetCommands ==
    Each({"getMaxAdvertisingSetNumber", "getMaxAdvertisingDataLength"}, Fetch)
    @@ Each({"createAdvertisingSet"}, ReportResult)
    @@ Each({"destroyAdvertisingSet", "setAdvertisingParameters", "setAdvertisingPayload",
             "applyAdvPayloadFromBuilder", "setAdvertisingScanResponse",
             "applyScanRespFromBuilder"}, Report)

(* StartAdvertisingProcedure and StopAdvertisingProcedure.                 *)
AdvertisingProcedure ==
    Procedure({Starts(<<>>), Fails(<<"err+">>),
               Ends(<<"ok", "result", "v">>), DefaultTimeout})

AdvertisingCommands ==
    [n \in {"startAdvertising", "stopAdvertising"} |-> AdvertisingProcedure]

AdvertisingStateCommands ==
    Each({"isAdvertisingActive", "isPeriodicAdvertisingActive"}, Fetch)
    @@ Each({"setPeriodicAdvertisingParameters", "setPeriodicAdvertisingPayload",
             "startPeriodicAdvertising", "stopPeriodicAdvertising",
             "setScanParameters", "startScan"}, Report)

-----------------------------------------------------------------------------
(* Scanning. When the stack refuses to scan, the constructor deletes the   *)
(* procedure and goes on to open the array of the results; startProcedure  *)
(* then starts it. The scan ends by its timeout.                           *)
ScanProcedure ==
    Procedure({Starts(<<"ok", "result", "[">>),
               Step("start", "new", <<"err+", "ok", "result", "[">>, "freed"),
               Goes(<<"v">>), TimesOut(<<"]">>)})

ScanForAddress == "scanForAddress" :> ScanProcedure
ScanForData == "scanForData" :> ScanProcedure

SyncCommands ==
    Each({"stopScan", "createSync", "createSyncFromList", "cancelCreateSync",
          "terminateSync", "addDeviceToPeriodicAdvertiserList",
          "removeDeviceFromPeriodicAdvertiserList", "clearPeriodicAdvertiserList",
          "startConnecting"}, Report)
    @@ Each({"getMaxPeriodicAdvertiserListSize"}, Fetch)

-----------------------------------------------------------------------------
(* Connection. When the stack refuses to connect, the constructor deletes  *)
(* the procedure.                                                          *)
ConnectionEnds == {Ends(<<"ok", "result", "v">>), Ends(<<"err+">>)}

ConnectProcedure ==
    Procedure({Starts(<<>>), Step("start", "new", <<"err+">>, "freed"), DefaultTimeout}
                \union ConnectionEnds)

WaitForConnectionProcedure ==
    Procedure({Starts(<<>>), DefaultTimeout} \union ConnectionEnds)

WaitForDisconnectionProcedure ==
    Procedure({Starts(<<>>), Ends(<<"ok", "result", "v">>), DefaultTimeout})

ConnectionCommands ==
    "connect" :> ConnectProcedure
    @@ "waitForConnection" :> WaitForConnectionProcedure
    @@ "waitForDisconnection" :> WaitForDisconnectionProcedure

ConnectionParametersCommands ==
    Each({"cancelConnect", "updateConnectionParameters",
          "manageConnectionParametersUpdateRequest", "acceptConnectionParametersUpdate",
          "rejectConnectionParametersUpdate", "disconnect"}, Report)
    @@ Each({"isFeatureSupported", "isRadioActive"}, Fetch)

Gap ==
    WhitelistCommands @@ PrivacyCommands @@ PhyCommands @@ AdvertisingSetCommands
    @@ AdvertisingCommands @@ AdvertisingStateCommands @@ ScanForAddress @@ ScanForData
    @@ SyncCommands @@ ConnectionCommands @@ ConnectionParametersCommands
=============================================================================
