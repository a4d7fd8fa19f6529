-------------------------- MODULE MCCommandExecution --------------------------
(***************************************************************************)
(* The commands of all the suites, for CommandExecution.                   *)
(***************************************************************************)
EXTENDS CommandExecution, GapCommands, GattClientCommands,
        SecurityManagerCommands, OtherCommands

Suite(name, commands) ==
    [c \in {name} \X DOMAIN commands |-> commands[c[2]]]

AllCommands ==
    Suite("gap", Gap) @@ Suite("gattClient", GattClient)
    @@ Suite("securityManager", SecurityManager)
    @@ Suite("ble", Ble) @@ Suite("gattServer", GattServer)
    @@ Suite("advParams", AdvParams) @@ Suite("scanParams", ScanParams)
    @@ Suite("connectionParams", ConnectionParams)
    @@ Suite("advDataBuilder", AdvDataBuilder) @@ Suite("any", Builtins)

(* A command is its record: one command stands for all that have the same. *)
Representatives ==
    {CHOOSE c \in DOMAIN AllCommands : AllCommands[c] = r :
        r \in {AllCommands[c] : c \in DOMAIN AllCommands}}

DistinctCommands == [c \in Representatives |-> AllCommands[c]]

(* readPhy alone.                                                          *)
ReadPhyOnly == [c \in {<<"gap", "readPhy">>} |-> AllCommands[c]]

(* The commands of which an answer is not what it should be: one that is   *)
(* never JSON (readPhy), an array that a disconnection or a timeout leaves *)
(* open, several values under one key when the stack refuses (the pairing  *)
(* procedures), or the error of a failure under the key of a result.       *)
NeverParses == {<<"gap", "readPhy">>}

LeavesArrayOpen ==
    {"gattClient"} \X {"discoverAllServicesAndCharacteristics", "discoverAllServices",
                       "discoverPrimaryServicesByUUID"}

ErrorAsResult ==
    {<<"gattClient", "discoverAllCharacteristicsDescriptors">>}
    \union {"securityManager"} \X
        {"generateWhitelistFromBondTable", "waitForEvent", "acceptPairingRequestAndWait",
         "enterConfirmationAndWait", "enterPasskeyAndWait", "requestPairingAndWait",
         "setLinkEncryptionAndWait"}

KnownMalformed ==
    (NeverParses \union LeavesArrayOpen \union ErrorAsResult) \intersect Representatives

(* The responses there may be in each state of the procedure of c, alone,  *)
(* after n of its steps or fewer.                                          *)
Partial(c, n) ==
    LET after[i \in 0..n] ==
          IF i = 0 THEN [p \in Lives \union {"new"} |-> IF p = "new" THEN {NewResponse} ELSE {}]
          ELSE [p \in Lives \union {"new"} |-> after[i - 1][p] \union
                 UNION { {Say(r, s.say) : r \in after[i - 1][s.from]} :
                           s \in {t \in AllCommands[c].steps : t.to = p} }]
    IN after[n]

(* Four steps are enough to meet them all: no command but those known to   *)
(* gives an answer that does not parse when nothing else happens.          *)
ASSUME HandlersAnswer ==
    \A c \in DOMAIN Table \ KnownMalformed : AnswersAlone(c, Partial(c, 4))
=============================================================================
