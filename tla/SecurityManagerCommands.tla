----------------------- MODULE SecurityManagerCommands -----------------------
(***************************************************************************)
(* The commands of the suite "securityManager"                             *)
(* (SecurityManagerCommands.cpp): what they say, and how the procedures    *)
(* among them go. A procedure is the event handler of the security manager *)
(* until it is destroyed; it ends with the first event of its connection,  *)
(* and ignores those of others.                                            *)
(***************************************************************************)
EXTENDS Commands

ConfigurationCommands ==
    Each({"init", "setDatabaseFilepath", "preserveBondingStateOnReset",
          "purgeAllBondingState"}, Report)

(* BLE_SM_TEST_ASSERT_RET, when the stack refuses: "Failure at", the file, *)
(* ":" and the line to the result, then the failure with the error.        *)
StackRefuses == Fails(<<"result", "v", "v", "v", "v", "err+">>)

(* doWhenTimeout calls terminate(), and is called by whenTimeout, which    *)
(* does too.                                                               *)
GenerateWhitelistFromBondTableProcedure ==
    Procedure({Starts(<<>>), Fails(<<"result", "v", "err">>), StackRefuses,
               Ends(<<"ok", "result", "[", "]">>), Ends(<<"ok", "result", "[", "v", "]">>),
               Step("timeout", "live", <<"result", "v", "err">>, "twice")})

(* BasePairingProcedure: any event of its connection ends it.              *)
PairingSteps ==
    {Starts(<<>>), Ends(<<"ok", "result", "v">>), TimesOut(<<"result", "v", "err">>)}

BasePairingProcedure == Procedure(PairingSteps)

(* The procedures that first tell the stack something.                     *)
PairingProcedure == Procedure(PairingSteps \union {StackRefuses})

WaitForEvent == "waitForEvent" :> BasePairingProcedure

PairingCommands ==
    Each({"setPairingRequestAuthorisation", "rejectPairingRequest"}, Report)
    @@ [n \in {"acceptPairingRequestAndWait", "enterConfirmationAndWait",
               "enterPasskeyAndWait", "requestPairingAndWait"} |-> PairingProcedure]

SettingCommands ==
    Each({"allowLegacyPairing", "setIoCapability", "setDisplayPasskey"}, Report)
    @@ Each({"getSecureConnectionsSupport"}, ReportResult)

SetLinkEncryption == "setLinkEncryptionAndWait" :> PairingProcedure

SecurityManager ==
    ConfigurationCommands
    @@ "generateWhitelistFromBondTable" :> GenerateWhitelistFromBondTableProcedure
    @@ WaitForEvent @@ PairingCommands @@ SettingCommands @@ SetLinkEncryption
=============================================================================
