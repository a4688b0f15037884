-------------------------- MODULE EccProvisioning --------------------------
(***************************************************************************)
(* The provisioning of the ATECCx08A: its detection and configuration at   *)
(* power on (ecc_provisioning_task, ecc_configure.c) and the commands of   *)
(* the kit protocol that fill it (process_board_application_* of           *)
(* ecc_provisioning_task.c, in the ECC508 build).                          *)
(*                                                                         *)
(* A command is the sequence of its calls to cryptoauthlib.  A call may    *)
(* fail, with or without its effect (an answer of the chip that is lost),  *)
(* and ends the command with an error; power may fail between two calls.   *)
(* A write of slot 8 is three calls, because the library writes it block   *)
(* by block: the flag and the SSID are in the first blocks, then come the  *)
(* pass phrase and the host name.                                          *)
(*                                                                         *)
(* The chip is external: it is modelled from what the calls are used for.  *)
(* The transport is module UsbKit; here a command arrives when the board   *)
(* is free, and its answer is seen.  Abstracted: hex and JSON, LEDs, the   *)
(* texts of errors, keys and certificates but for what belongs together.   *)
(***************************************************************************)
EXTENDS Integers, Sequences

CONSTANTS
  Wifis,   \* networks setWifi may be given
  Keys,    \* device keys the chip may generate
  Offers,  \* what saveCredentials may be given
  None,    \* nothing stored
  Unknown  \* the host does not know what is stored

\* An offer has a name, the device key its certificate is for, and whether its
\* signer and device certificates are signed by its CA.
ASSUME ProvisioningAssumption ==
  /\ {None, Unknown} \cap (Wifis \cup Keys \cup Offers) = {}
  /\ None # Unknown
  /\ \A o \in Offers : o.key \in Keys /\ o.chained \in BOOLEAN

VARIABLES
  g_provisioning_state, \* g_provisioning_state
  inKit,                \* the kit loop of main() has been reached
  command,              \* the command in progress, or the pre-configuration
  todo,                 \* the calls it still has to make
  status,               \* g_aws_iot_status is AWS_STATUS_SUCCESS
  metadata,             \* the handler's copy of slot 8
  chip,                 \* the ATECCx08A
  told                  \* history: what the answers have told the host

vars == << g_provisioning_state, inKit, command, todo, status, metadata, chip, told >>

NoCommand == [method |-> "none", arg |-> None]
Preconfigure == [method |-> "preconfigure", arg |-> None]
Commands ==
  {[method |-> x, arg |-> None] : x \in {"init", "getStatus", "genKey", "genCsr",
                                         "resetKit", "getThingID", "unknown"}}
  \cup {[method |-> "setWifi", arg |-> w] : w \in Wifis}
  \cup {[method |-> "saveCredentials", arg |-> o] : o \in Offers}

\* struct Eccx08A_Slot8_Metadata
Metadata == [wifi_flag : BOOLEAN, aws_flag : BOOLEAN, ssid : Wifis \cup {None},
             wifi_password : Wifis \cup {None}, hostname : Offers \cup {None}]
Zeros == [wifi_flag |-> FALSE, aws_flag |-> FALSE, ssid |-> None,
          wifi_password |-> None, hostname |-> None]

\* The address the chip answers at and the one in its configuration; whether
\* the rest of the configuration is written; the locks; slot 0; the slots of
\* the signer's CA and of the certificates; slot 8.
Chip == [answersAt : {"default", "aws"}, address : {"default", "aws"},
         written : BOOLEAN, configLocked : BOOLEAN, dataLocked : BOOLEAN,
         deviceKey : Keys \cup {None}, signerCa : Offers \cup {None},
         signer : Offers \cup {None}, device : Offers \cup {None}, slot8 : Metadata]
BlankChip ==
  [answersAt |-> "default", address |-> "default", written |-> FALSE,
   configLocked |-> FALSE, dataLocked |-> FALSE, deviceKey |-> None,
   signerCa |-> None, signer |-> None, device |-> None, slot8 |-> Zeros]

States == {"UNKNOWN", "DETECT", "PRECONFIGURE", "INIT", "CONFIGURE",
           "PROVISION_RESET", "WINC1500_INIT"}

----------------------------------------------------------------------------
(* The calls of each command, in order. *)

\* Mutant: the configuration is locked before all of it is written.
PreconfigureCalls_LockEarly ==
  << "is_locked", "write_address", "lock_config", "write_config", "lock_data",
     "sleep", "genkey", "genkey_others" >>

PreconfigureCalls ==
  << "is_locked", "write_address", "write_config", "lock_config", "lock_data",
     "sleep", "genkey", "genkey_others" >>

WriteSlot8 == << "write_flag_ssid", "write_password", "write_hostname" >>

InitCalls     == << "serial_number", "public_key" >>
SetWifiCalls  == << "read_slot8" >> \o WriteSlot8
GenKeyCalls   == << "genkey" >> \o WriteSlot8
GenCsrCalls   == << "csr" >>
ResetKitCalls == WriteSlot8
ThingIdCalls  == << "public_key" >>

SaveSignerCalls == << "write_ca", "write_signer", "verify_signer" >>

\* Mutant: the device certificate is not verified.
SaveDeviceCalls_Unverified == << "write_device" >>

SaveDeviceCalls == << "write_device", "verify_device" >>
SaveHostCalls   == << "read_slot8" >> \o WriteSlot8

\* Mutant: slot 8 is written before the certificates.
SaveCredentialsCalls_FlagFirst == SaveHostCalls \o SaveSignerCalls \o SaveDeviceCalls

SaveCredentialsCalls == SaveSignerCalls \o SaveDeviceCalls \o SaveHostCalls

\* kit_board_application; getStatus makes no call.
Calls(c) ==
  CASE c.method = "init"            -> InitCalls
    [] c.method = "setWifi"         -> SetWifiCalls
    [] c.method = "genKey"          -> GenKeyCalls
    [] c.method = "genCsr"          -> GenCsrCalls
    [] c.method = "saveCredentials" -> SaveCredentialsCalls
    [] c.method = "resetKit"        -> ResetKitCalls
    [] c.method = "getThingID"      -> ThingIdCalls
    [] OTHER                        -> << >>

\* Mutant: the record is built afresh instead of from what was read.
Image_Fresh(c, old) ==
  IF c.method = "setWifi"
  THEN [Zeros EXCEPT !.wifi_flag = TRUE, !.ssid = c.arg, !.wifi_password = c.arg]
  ELSE [Zeros EXCEPT !.aws_flag = TRUE, !.hostname = c.arg]

\* What setWifi and saveCredentials make of the slot 8 they have read.
Image(c, old) ==
  IF c.method = "setWifi"
  THEN [old EXCEPT !.wifi_flag = TRUE, !.ssid = c.arg, !.wifi_password = c.arg]
  ELSE [old EXCEPT !.aws_flag = TRUE, !.hostname = c.arg]

----------------------------------------------------------------------------
(* The chip: the states a call may leave it in; none when it refuses. *)

Genkey == IF chip.configLocked THEN {[chip EXCEPT !.deviceKey = k] : k \in Keys} ELSE {}

Configured(field, value) ==
  IF chip.configLocked THEN {} ELSE {[chip EXCEPT ![field] = value]}
Written(field, value) ==
  IF chip.configLocked THEN {[chip EXCEPT ![field] = value]} ELSE {}

WrittenInSlot8(fields) ==
  IF chip.configLocked
  THEN {[chip EXCEPT !.slot8 = [f \in DOMAIN @ |-> IF f \in fields THEN metadata[f] ELSE @[f]]]}
  ELSE {}

\* atcacert_read_cert and atcacert_verify_cert_hw: the certificate is rebuilt
\* from what the chip holds, for the device with its present key.
SignerVerifies ==
  chip.dataLocked /\ chip.signer = command.arg /\ chip.signer.chained
DeviceVerifies ==
  chip.dataLocked /\ chip.device = command.arg /\ chip.device.chained
    /\ chip.device.key = chip.deviceKey

If(condition) == IF condition THEN {chip} ELSE {}

After(call) ==
  CASE call = "serial_number"   -> {chip}
    [] call = "public_key"      -> If(chip.deviceKey # None)
    [] call = "csr"             -> If(chip.deviceKey # None)
    [] call = "genkey"          -> Genkey
    [] call = "genkey_others"   -> If(chip.configLocked)
    [] call = "is_locked"       -> If(~chip.configLocked)
    [] call = "write_address"   -> Configured("address", "aws")
    [] call = "write_config"    -> Configured("written", TRUE)
    [] call = "lock_config"     -> {[chip EXCEPT !.configLocked = TRUE]}
    [] call = "lock_data"       -> {[chip EXCEPT !.dataLocked = TRUE]}
    [] call = "sleep"           -> {[chip EXCEPT !.answersAt = chip.address]}
    [] call = "read_slot8"      -> If(chip.dataLocked)
    [] call = "write_flag_ssid" -> WrittenInSlot8({"wifi_flag", "aws_flag", "ssid"})
    [] call = "write_password"  -> WrittenInSlot8({"wifi_password"})
    [] call = "write_hostname"  -> WrittenInSlot8({"hostname"})
    [] call = "write_ca"        -> Written("signerCa", command.arg)
    [] call = "write_signer"    -> Written("signer", command.arg)
    [] call = "write_device"    -> Written("device", command.arg)
    [] call = "verify_signer"   -> If(SignerVerifies)
    [] call = "verify_device"   -> If(DeviceVerifies)

Init ==
  /\ g_provisioning_state = "DETECT"
  /\ inKit = FALSE
  /\ command = NoCommand /\ todo = << >>
  /\ status = TRUE
  /\ metadata = Zeros
  /\ chip = BlankChip
  /\ told = [wifi |-> Unknown, cloud |-> Unknown]

----------------------------------------------------------------------------
(* Power on: ecc_provisioning_task. *)

\* Mutant: the status of the detection is taken for the state.
Detected_Status ==
  IF chip.answersAt = "aws" THEN {"INIT", "ATCA_NO_DEVICES"} ELSE {"PRECONFIGURE"}

\* detect_crypto_device and what DETECT makes of it: a chip at the board's own
\* address is taken for configured; a bus that fails stops the demo.
Detected ==
  {"UNKNOWN"} \cup (IF chip.answersAt = "aws" THEN {"INIT"} ELSE {"PRECONFIGURE"})

Detect ==
  /\ g_provisioning_state = "DETECT"
  /\ g_provisioning_state' \in Detected
  /\ status' = (status /\ g_provisioning_state' # "UNKNOWN")
  /\ UNCHANGED << inKit, command, todo, metadata, chip, told >>

\* PRECONFIGURE waits for SW1, then runs preconfigure_crypto_device.
Sw1Pressed ==
  /\ g_provisioning_state = "PRECONFIGURE"
  /\ command = NoCommand
  /\ command' = Preconfigure
  /\ todo' = PreconfigureCalls
  /\ UNCHANGED << g_provisioning_state, inKit, status, metadata, chip, told >>

\* Whatever became of it, the demo stops until the next power on.
PreconfigureReturns ==
  /\ command = Preconfigure
  /\ todo = << >>
  /\ command' = NoCommand
  /\ g_provisioning_state' = "UNKNOWN"
  /\ UNCHANGED << inKit, todo, status, metadata, chip, told >>

\* INIT: cryptoauthlib_init returns success for a chip that is not locked, too,
\* and fails only when the chip does not answer or is of another type.
InitDone ==
  /\ g_provisioning_state = "INIT"
  /\ \/ g_provisioning_state' = "CONFIGURE" /\ status' = TRUE
     \/ g_provisioning_state' = "UNKNOWN" /\ status' = FALSE
  /\ UNCHANGED << inKit, command, todo, metadata, chip, told >>

\* CONFIGURE only leaves the loop; main() goes on to the kit loop.
LeaveTask ==
  /\ g_provisioning_state = "CONFIGURE" /\ ~inKit
  /\ g_provisioning_state' = "WINC1500_INIT"
  /\ inKit' = TRUE
  /\ UNCHANGED << command, todo, status, metadata, chip, told >>

----------------------------------------------------------------------------
(* Commands. *)

Unset == {"genKey", "resetKit"}

\* While a command may be changing them, the host knows nothing of its fields.
Doubted(c) ==
  [wifi  |-> IF c.method \in Unset \cup {"setWifi"} THEN Unknown ELSE told.wifi,
   cloud |-> IF c.method \in Unset \cup {"saveCredentials"} THEN Unknown ELSE told.cloud]

\* A result, instead of an error, tells the host that the fields are stored.
Learnt(c) ==
  [wifi  |-> CASE c.method = "setWifi" -> c.arg [] c.method \in Unset -> None
               [] OTHER -> told.wifi,
   cloud |-> CASE c.method = "saveCredentials" -> c.arg [] c.method \in Unset -> None
               [] OTHER -> told.cloud]

\* The handler of a command first sets the status to success.
Receive(c) ==
  /\ inKit /\ command = NoCommand
  /\ command' = c
  /\ todo' = Calls(c)
  /\ status' = (c.method # "unknown")
  /\ metadata' = Zeros
  /\ told' = Doubted(c)
  /\ UNCHANGED << g_provisioning_state, inKit, chip >>

Call ==
  /\ todo # << >>
  /\ chip' \in After(Head(todo))
  /\ todo' = Tail(todo)
  /\ metadata' = IF Head(todo) = "read_slot8" THEN Image(command, chip.slot8) ELSE metadata
  /\ UNCHANGED << g_provisioning_state, inKit, command, status, told >>

\* The call returns an error: the handler sets the status and breaks;
\* preconfigure_crypto_device returns.
CallFails ==
  /\ todo # << >>
  /\ chip' \in {chip} \cup After(Head(todo))
  /\ todo' = << >>
  /\ status' = (status /\ command = Preconfigure)
  /\ UNCHANGED << g_provisioning_state, inKit, command, metadata, told >>

\* g_provisioning_state after a command; nothing looks at it any more.
StateAfter(c) ==
  CASE c.method \in Unset                       -> "PROVISION_RESET"
    [] c.method = "saveCredentials" /\ status   -> "CONFIGURE"
    [] OTHER                                    -> g_provisioning_state

\* The end of kit_board_application: a result, or an error.
Answer ==
  /\ inKit /\ command # NoCommand
  /\ todo = << >>
  /\ g_provisioning_state' = StateAfter(command)
  /\ told' = IF status THEN Learnt(command) ELSE told
  /\ command' = NoCommand
  /\ metadata' = Zeros
  /\ UNCHANGED << inKit, todo, status, chip >>

\* The board restarts; the chip reads its address from its configuration.
PowerCycle ==
  /\ g_provisioning_state' = "DETECT"
  /\ inKit' = FALSE
  /\ command' = NoCommand /\ todo' = << >>
  /\ status' = TRUE
  /\ metadata' = Zeros
  /\ chip' = [chip EXCEPT !.answersAt = chip.address]
  /\ UNCHANGED told

Next ==
  \/ Detect \/ Sw1Pressed \/ PreconfigureReturns \/ InitDone \/ LeaveTask
  \/ (\E c \in Commands : Receive(c)) \/ Call \/ CallFails \/ Answer \/ PowerCycle
Spec == Init /\ [][Next]_vars

----------------------------------------------------------------------------
TypeOK ==
  /\ g_provisioning_state \in States
  /\ inKit \in BOOLEAN /\ status \in BOOLEAN
  /\ command \in Commands \cup {NoCommand, Preconfigure}
  /\ command = NoCommand => todo = << >>
  /\ metadata \in Metadata
  /\ chip \in Chip
  /\ told.wifi \in Wifis \cup {None, Unknown}
  /\ told.cloud \in Offers \cup {None, Unknown}

\* What setWifi, saveCredentials, resetKit and genKey reported with a result
\* stays stored, whole and verified against the device's present key, until a
\* command that changes it is sent: over failing calls, power failures, half
\* written records and the other commands, which rewrite the same slot 8
\* (process_board_application_set_wifi and _save_credentials).
ToldIsKept ==
  /\ told.wifi \in Wifis =>
       /\ chip.slot8.wifi_flag
       /\ chip.slot8.ssid = told.wifi /\ chip.slot8.wifi_password = told.wifi
  /\ told.cloud \in Offers =>
       /\ chip.slot8.aws_flag /\ chip.slot8.hostname = told.cloud
       /\ chip.signerCa = told.cloud /\ chip.signer = told.cloud
       /\ chip.device = told.cloud
       /\ told.cloud.chained /\ told.cloud.key = chip.deviceKey
  /\ told.wifi = None => ~chip.slot8.wifi_flag /\ chip.slot8.ssid = None
  /\ told.cloud = None => ~chip.slot8.aws_flag /\ chip.slot8.hostname = None

\* saveCredentials sets the provisioned flag of slot 8 last: whenever power
\* fails, a chip with the flag has a CA key and both certificates.
FlagIsLast ==
  chip.slot8.aws_flag => None \notin {chip.signerCa, chip.signer, chip.device}

\* preconfigure_crypto_device locks the configuration, for good, only when all
\* of it is written, and the data zone only after it, whichever call fails and
\* however often the board is restarted and SW1 pressed.
LockIsLast ==
  [][ /\ ~chip.configLocked /\ chip'.configLocked => chip.address = "aws" /\ chip.written
      /\ ~chip.dataLocked /\ chip'.dataLocked => chip.configLocked
    ]_vars
=============================================================================
