---------------------------- MODULE OtherCommands ----------------------------
(***************************************************************************)
(* The commands of the suites that have few procedures or none: "ble"      *)
(* (BLECommands.cpp), "gattServer" (GattServerCommands.cpp, of which only  *)
(* what the commands say is modelled here), the suites of parameters       *)
(* (Commands/parameters), and list and help, which every suite has.        *)
(***************************************************************************)
EXTENDS Commands

(* The stack keeps the pointer to whenInit: nothing takes it back when the *)
(* procedure times out.                                                    *)
InitProcedure ==
    Dangling(Procedure({Starts(<<>>), Ends(<<"ok">>), Ends(<<"err+">>), DefaultTimeout}))

Ble ==
    "init" :> Or(Succeed, InitProcedure)
    @@ Each({"shutdown", "reset"}, Report)
    @@ Each({"getVersion"}, ReportResult)
    @@ Each({"createFilesystem"}, {<<"ok">>, <<"err">>})

(* Declaration of a service, of its characteristics and descriptors.       *)
DeclareService == Each({"declareService"}, Report)

CharacteristicCommands ==
    Each({"declareCharacteristic", "setCharacteristicValue",
          "setCharacteristicSecurity", "setCharacteristicProperties",
          "setCharacteristicVariableLength", "setCharacteristicMaxLength"}, Report)

DescriptorCommands ==
    Each({"declareDescriptor", "setDescriptorValue", "setDescriptorVariableLength",
          "setDescriptorMaxLength"}, Report)

CommitCommands ==
    Each({"commitService"}, {<<"err+">>, <<"ok", "result", "v">>})
    @@ Each({"cancelServiceDeclaration"}, Report)

(* read gives its result before its status.                                *)
AttributeCommands ==
    Each({"read"}, {<<"err+">>, <<"result", "v", "ok">>})
    @@ Each({"write"}, Report)

WaitForDataWrittenProcedure ==
    Procedure({Starts(<<>>), Ends(<<"ok+">>), DefaultTimeout})

GattServer ==
    DeclareService @@ CharacteristicCommands @@ DescriptorCommands
    @@ CommitCommands @@ AttributeCommands
    @@ "waitForDataWritten" :> WaitForDataWrittenProcedure

-----------------------------------------------------------------------------
AdvParams ==
    Each({"reset", "setType", "setPrimaryInterval", "setPrimaryChannels",
          "setOwnAddressType", "setFilter", "setPhy", "setTxPower", "setSecondaryMaxSkip",
          "setScanRequestNotification", "setUseLegacyPDU", "includeTxPowerInHeader",
          "setAnonymousAdvertising"}, Succeed)

ScanParams ==
    Each({"reset", "setOwnAddressType", "setFilter", "setPhys",
          "set1mPhyConfiguration", "setCodedPhyConfiguration"}, Succeed)

ConnectionParams ==
    Each({"reset", "setScanParameters", "setConnectionParameters", "setOwnAddressType",
          "setFilterPolicy", "togglePhy", "disablePhy", "enablePhy"}, Succeed)

DataCommands ==
    Each({"getAdvertisingData"}, Fetch)
    @@ Each({"clear"}, Succeed)
    @@ Each({"addData", "appendData", "removeData", "addOrReplaceData",
             "addOrAppendData"}, Report)

FieldCommands ==
    Each({"setAppearance", "setFlags", "setTxPowerAdvertised", "setName",
          "setManufacturerSpecificData", "setAdvertisingInterval",
          "setConnectionIntervalPreference", "setServiceData", "setLocalServiceList",
          "setRequestedServiceList"}, Report)

AdvDataBuilder == DataCommands @@ FieldCommands

(* list, and help without ENABLE_COMMAND_HELP.                             *)
Builtins ==
    Each({"list"}, {<<"ok", "result", "[", "v", "]">>})
    @@ Each({"help"}, ReportResult)
=============================================================================
