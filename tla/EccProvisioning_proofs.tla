---------------------- MODULE EccProvisioning_proofs ----------------------
(***************************************************************************)
(* Proofs about EccProvisioning for every set of networks, device keys and *)
(* offers, with any call of any command failing, before or after its       *)
(* effect, and power failing between any two calls.                        *)
(***************************************************************************)
EXTENDS EccProvisioning, SequenceTheorems, TLAPS

----------------------------------------------------------------------------
(* The inductive invariant. *)

CallNames ==
  {"serial_number", "public_key", "csr", "genkey", "genkey_others", "is_locked",
   "write_address", "write_config", "lock_config", "lock_data", "sleep", "read_slot8",
   "write_flag_ssid", "write_password", "write_hostname", "write_ca", "write_signer",
   "write_device", "verify_signer", "verify_device"}

\* All the calls of a command or of the pre-configuration.
List(c) == IF c = Preconfigure THEN PreconfigureCalls ELSE Calls(c)

\* What is still to be done is the end of the list.
InOrder ==
  /\ todo \in Seq(CallNames) /\ Len(todo) <= Len(List(command))
  /\ todo = SubSeq(List(command), Len(List(command)) - Len(todo) + 1, Len(List(command)))

\* More than n calls of the list remain; or none, because one failed or all are made.
Before(n) == Len(todo) \notin 1 .. n

\* No more than n remain, and none has failed.
Within(n) == status /\ Len(todo) <= n

\* A chip that is used, or of which the host was told something, answers at the
\* board's own address, for good; so it is not configured again.
AddressIsKept ==
  /\ chip.answersAt = "aws" => chip.address = "aws"
  /\ inKit \/ g_provisioning_state \in {"INIT", "CONFIGURE"}
       \/ told.wifi # Unknown \/ told.cloud # Unknown
     => chip.answersAt = "aws" /\ g_provisioning_state # "PRECONFIGURE"
  /\ command = Preconfigure => g_provisioning_state = "PRECONFIGURE"
  /\ command \in Commands => inKit
  /\ inKit => g_provisioning_state \in {"CONFIGURE", "PROVISION_RESET", "WINC1500_INIT"}

\* How far the pre-configuration has come.
PreconfigureStage ==
  command = Preconfigure =>
    /\ Before(6) \/ chip.address = "aws"
    /\ Before(5) \/ chip.written
    /\ Before(4) \/ chip.configLocked

\* A record with the provisioned flag was made when the certificates were there.
FlagStage ==
  /\ metadata.aws_flag => None \notin {chip.signerCa, chip.signer, chip.device}
  /\ command.method = "saveCredentials" =>
       /\ Before(8) \/ chip.signerCa = command.arg
       /\ Before(7) \/ chip.signer = command.arg
       /\ Before(5) \/ chip.device = command.arg

\* What a command is changing is in doubt, and the rest of slot 8 is written
\* back as it was read.
Kept ==
  /\ command.method \in Unset \cup {"setWifi"} => told.wifi = Unknown
  /\ command.method \in Unset \cup {"saveCredentials"} => told.cloud = Unknown
  /\ command.method = "setWifi" =>
       Before(3) \/ (metadata.aws_flag = chip.slot8.aws_flag
                     /\ metadata.hostname = chip.slot8.hostname)
  /\ command.method = "saveCredentials" =>
       Before(3) \/ (metadata.wifi_flag = chip.slot8.wifi_flag
                     /\ metadata.ssid = chip.slot8.ssid
                     /\ metadata.wifi_password = chip.slot8.wifi_password)

\* How far setWifi has come, ...
WifiStage ==
  command.method = "setWifi" =>
    /\ Within(3) => metadata.wifi_flag /\ metadata.ssid = command.arg
                    /\ metadata.wifi_password = command.arg
    /\ Within(2) => chip.slot8.wifi_flag /\ chip.slot8.ssid = command.arg
    /\ Within(1) => chip.slot8.wifi_password = command.arg

\* ... resetKit and genKey, ...
UnsetStage ==
  command.method \in Unset =>
    /\ metadata = Zeros
    /\ Within(2) => ~chip.slot8.wifi_flag /\ chip.slot8.ssid = None /\ ~chip.slot8.aws_flag
    /\ Within(0) => chip.slot8.hostname = None

\* ... and saveCredentials.
CloudStage ==
  command.method = "saveCredentials" =>
    /\ Within(8) => chip.signerCa = command.arg
    /\ Within(7) => chip.signer = command.arg
    /\ Within(6) => command.arg.chained
    /\ Within(5) => chip.device = command.arg
    /\ Within(4) => command.arg.key = chip.deviceKey
    /\ Within(3) => metadata.aws_flag /\ metadata.hostname = command.arg
    /\ Within(2) => chip.slot8.aws_flag
    /\ Within(0) => chip.slot8.hostname = command.arg

Stages == WifiStage /\ UnsetStage /\ CloudStage

IInv ==
  /\ TypeOK /\ InOrder /\ AddressIsKept /\ PreconfigureStage
  /\ FlagIsLast /\ FlagStage /\ Kept /\ Stages /\ ToldIsKept

----------------------------------------------------------------------------
(* The lists of calls. *)

\* The end of a list that begins before its end: its first call, and what follows.
LEMMA NextCall ==
  ASSUME InOrder, todo # << >>, List(command) \in Seq(CallNames)
  PROVE  LET n == Len(List(command))
         IN /\ Len(todo) \in 1 .. n /\ Head(todo) \in CallNames
            /\ Head(todo) = List(command)[n - Len(todo) + 1]
            /\ Tail(todo) \in Seq(CallNames) /\ Len(Tail(todo)) = Len(todo) - 1
            /\ Tail(todo) = SubSeq(List(command), n - Len(Tail(todo)) + 1, n)
<1> DEFINE L == List(command)
           n == Len(L)
           m == n - Len(todo) + 1
<1>1. Len(todo) \in Nat /\ Len(todo) # 0
  BY EmptySeq DEF InOrder
<1>2. n \in Nat /\ m \in 1 .. n /\ n \in m .. n
  BY <1>1 DEF InOrder
<1>3. /\ Head(todo) \in CallNames /\ Tail(todo) \in Seq(CallNames)
      /\ Len(Tail(todo)) = Len(todo) - 1
  BY HeadTailProperties DEF InOrder
<1>4. todo = SubSeq(L, m, n)
  BY DEF InOrder
<1> HIDE DEF L, n, m
<1>5. Head(SubSeq(L, m, n)) = L[m] /\ Tail(SubSeq(L, m, n)) = SubSeq(L, m + 1, n)
  <2>1. L \in Seq(CallNames) /\ n = Len(L)
    BY DEF L, n
  <2> QED
    BY <1>2, <2>1, HeadTailOfSubSeq, Zenon
<1>6. m + 1 = n - Len(Tail(todo)) + 1
  BY <1>1, <1>2, <1>3 DEF m
<1>7. Head(todo) = L[m] /\ Tail(todo) = SubSeq(L, n - Len(Tail(todo)) + 1, n)
  BY <1>4, <1>5, <1>6
<1>8. Len(todo) \in 1 .. n
  BY <1>1, <1>2 DEF InOrder, L, n
<1> QED
  BY <1>3, <1>7, <1>8 DEF L, n, m

\* Two lists of calls, one behind the other.
LEMMA Joined ==
  ASSUME NEW s \in Seq(CallNames), NEW t \in Seq(CallNames), NEW l, l = s \o t
  PROVE  /\ l \in Seq(CallNames) /\ Len(l) = Len(s) + Len(t)
         /\ \A i \in 1 .. Len(s) + Len(t) : l[i] = IF i <= Len(s) THEN s[i] ELSE t[i - Len(s)]
BY ConcatProperties

\* A list behind one call.
LEMMA OneBefore ==
  ASSUME NEW x \in CallNames, NEW s \in Seq(CallNames)
  PROVE  /\ << x >> \o s \in Seq(CallNames) /\ Len(<< x >> \o s) = Len(s) + 1
         /\ (<< x >> \o s)[1] = x
         /\ \A i \in 1 .. Len(s) : (<< x >> \o s)[i + 1] = s[i]
<1>1. << x >> \in Seq(CallNames) /\ Len(<< x >>) = 1 /\ << x >>[1] = x
  OBVIOUS
<1>2. /\ << x >> \o s \in Seq(CallNames)
      /\ Len(<< x >> \o s) = 1 + Len(s)
      /\ \A i \in 1 .. 1 + Len(s) : (<< x >> \o s)[i] = IF i <= 1 THEN << x >>[i] ELSE s[i - 1]
  BY <1>1, ConcatProperties
<1> QED
  BY <1>1, <1>2

\* Slot 8 is read and then written in three parts, or only written.
LEMMA Slot8Calls ==
  /\ WriteSlot8 \in Seq(CallNames) /\ Len(WriteSlot8) = 3
  /\ WriteSlot8[1] = "write_flag_ssid" /\ WriteSlot8[2] = "write_password"
  /\ WriteSlot8[3] = "write_hostname"
  /\ SetWifiCalls \in Seq(CallNames) /\ Len(SetWifiCalls) = 4
  /\ SetWifiCalls[1] = "read_slot8" /\ SetWifiCalls[2] = "write_flag_ssid"
  /\ SetWifiCalls[3] = "write_password" /\ SetWifiCalls[4] = "write_hostname"
  /\ SaveHostCalls = SetWifiCalls
  /\ GenKeyCalls \in Seq(CallNames) /\ Len(GenKeyCalls) = 4
  /\ GenKeyCalls[1] = "genkey" /\ GenKeyCalls[2] = "write_flag_ssid"
  /\ GenKeyCalls[3] = "write_password" /\ GenKeyCalls[4] = "write_hostname"
<1>1. /\ WriteSlot8 \in Seq(CallNames) /\ Len(WriteSlot8) = 3
      /\ WriteSlot8[1] = "write_flag_ssid" /\ WriteSlot8[2] = "write_password"
      /\ WriteSlot8[3] = "write_hostname"
  BY DEF WriteSlot8, CallNames
<1>2. "read_slot8" \in CallNames /\ "genkey" \in CallNames
  BY DEF CallNames
<1>3. SaveHostCalls = SetWifiCalls
  BY DEF SaveHostCalls, SetWifiCalls
<1>4. ASSUME NEW x \in CallNames
      PROVE  /\ << x >> \o WriteSlot8 \in Seq(CallNames) /\ Len(<< x >> \o WriteSlot8) = 4
             /\ (<< x >> \o WriteSlot8)[1] = x
             /\ (<< x >> \o WriteSlot8)[2] = "write_flag_ssid"
             /\ (<< x >> \o WriteSlot8)[3] = "write_password"
             /\ (<< x >> \o WriteSlot8)[4] = "write_hostname"
  <2>1. /\ << x >> \o WriteSlot8 \in Seq(CallNames)
        /\ Len(<< x >> \o WriteSlot8) = Len(WriteSlot8) + 1
        /\ (<< x >> \o WriteSlot8)[1] = x
        /\ \A i \in 1 .. Len(WriteSlot8) : (<< x >> \o WriteSlot8)[i + 1] = WriteSlot8[i]
    BY <1>1, OneBefore
  <2>2. 1 \in 1 .. Len(WriteSlot8) /\ 2 \in 1 .. Len(WriteSlot8) /\ 3 \in 1 .. Len(WriteSlot8)
    BY <1>1
  <2>3. /\ (<< x >> \o WriteSlot8)[1 + 1] = WriteSlot8[1]
        /\ (<< x >> \o WriteSlot8)[2 + 1] = WriteSlot8[2]
        /\ (<< x >> \o WriteSlot8)[3 + 1] = WriteSlot8[3]
    BY <2>1, <2>2
  <2> QED
    BY <1>1, <2>1, <2>3
<1>5. SetWifiCalls = << "read_slot8" >> \o WriteSlot8 /\ GenKeyCalls = << "genkey" >> \o WriteSlot8
  BY DEF SetWifiCalls, GenKeyCalls
<1> QED
  BY <1>1, <1>2, <1>3, <1>4, <1>5

\* saveCredentials writes the certificates, verifies them and then writes slot 8.
LEMMA SaveCalls ==
  /\ SaveCredentialsCalls \in Seq(CallNames) /\ Len(SaveCredentialsCalls) = 9
  /\ SaveCredentialsCalls[1] = "write_ca" /\ SaveCredentialsCalls[2] = "write_signer"
  /\ SaveCredentialsCalls[3] = "verify_signer" /\ SaveCredentialsCalls[4] = "write_device"
  /\ SaveCredentialsCalls[5] = "verify_device" /\ SaveCredentialsCalls[6] = "read_slot8"
  /\ SaveCredentialsCalls[7] = "write_flag_ssid" /\ SaveCredentialsCalls[8] = "write_password"
  /\ SaveCredentialsCalls[9] = "write_hostname"
<1> DEFINE certs == SaveSignerCalls \o SaveDeviceCalls
<1>1. /\ SaveSignerCalls \in Seq(CallNames) /\ Len(SaveSignerCalls) = 3
      /\ SaveSignerCalls[1] = "write_ca" /\ SaveSignerCalls[2] = "write_signer"
      /\ SaveSignerCalls[3] = "verify_signer"
  BY DEF SaveSignerCalls, CallNames
<1>2. /\ SaveDeviceCalls \in Seq(CallNames) /\ Len(SaveDeviceCalls) = 2
      /\ SaveDeviceCalls[1] = "write_device" /\ SaveDeviceCalls[2] = "verify_device"
  BY DEF SaveDeviceCalls, CallNames
<1> HIDE DEF certs
<1>10. certs = SaveSignerCalls \o SaveDeviceCalls
  BY DEF certs
<1>11. /\ certs \in Seq(CallNames) /\ Len(certs) = Len(SaveSignerCalls) + Len(SaveDeviceCalls)
      /\ \A i \in 1 .. Len(SaveSignerCalls) + Len(SaveDeviceCalls) :
           certs[i] = IF i <= Len(SaveSignerCalls) THEN SaveSignerCalls[i]
                      ELSE SaveDeviceCalls[i - Len(SaveSignerCalls)]
  BY <1>1, <1>2, <1>10, Joined
<1>3. /\ certs \in Seq(CallNames) /\ Len(certs) = 5
      /\ \A i \in 1 .. 5 : certs[i] = IF i <= 3 THEN SaveSignerCalls[i] ELSE SaveDeviceCalls[i - 3]
  BY <1>1, <1>2, <1>11
<1>4. /\ Len(certs) = 5
      /\ certs[1] = "write_ca" /\ certs[2] = "write_signer" /\ certs[3] = "verify_signer"
      /\ certs[4] = "write_device" /\ certs[5] = "verify_device"
  BY <1>1, <1>2, <1>3
<1>5. /\ SaveHostCalls \in Seq(CallNames) /\ Len(SaveHostCalls) = 4
      /\ SaveHostCalls[1] = "read_slot8" /\ SaveHostCalls[2] = "write_flag_ssid"
      /\ SaveHostCalls[3] = "write_password" /\ SaveHostCalls[4] = "write_hostname"
  BY Slot8Calls
<1>6. SaveCredentialsCalls = certs \o SaveHostCalls
  BY DEF SaveCredentialsCalls, certs
<1>12. /\ SaveCredentialsCalls \in Seq(CallNames) /\ Len(SaveCredentialsCalls) = Len(certs) + Len(SaveHostCalls)
      /\ \A i \in 1 .. Len(certs) + Len(SaveHostCalls) :
           SaveCredentialsCalls[i] = IF i <= Len(certs) THEN certs[i] ELSE SaveHostCalls[i - Len(certs)]
  BY <1>3, <1>5, <1>6, Joined
<1>7. /\ SaveCredentialsCalls \in Seq(CallNames) /\ Len(SaveCredentialsCalls) = 5 + 4
      /\ \A i \in 1 .. 5 + 4 :
           SaveCredentialsCalls[i] = IF i <= 5 THEN certs[i] ELSE SaveHostCalls[i - 5]
  BY <1>3, <1>5, <1>12
<1>8. /\ \A i \in 1 .. 5 : SaveCredentialsCalls[i] = certs[i]
      /\ SaveCredentialsCalls[6] = SaveHostCalls[6 - 5]
      /\ SaveCredentialsCalls[7] = SaveHostCalls[7 - 5]
      /\ SaveCredentialsCalls[8] = SaveHostCalls[8 - 5]
      /\ SaveCredentialsCalls[9] = SaveHostCalls[9 - 5]
  BY <1>7
<1>9. /\ SaveCredentialsCalls[6] = SaveHostCalls[1] /\ SaveCredentialsCalls[7] = SaveHostCalls[2]
      /\ SaveCredentialsCalls[8] = SaveHostCalls[3] /\ SaveCredentialsCalls[9] = SaveHostCalls[4]
      /\ Len(SaveCredentialsCalls) = 9 /\ 1 \in 1 .. 5 /\ 2 \in 1 .. 5 /\ 3 \in 1 .. 5
      /\ 4 \in 1 .. 5 /\ 5 \in 1 .. 5
  BY <1>7, <1>8
<1> QED
  BY <1>4, <1>5, <1>7, <1>8, <1>9, Zenon

\* The n-th call from the end of a list of three, four, eight and nine.
LEMMA LastOf3 ==
  ASSUME NEW n \in 1 .. 3, NEW L, NEW h, h = L[3 - n + 1]
  PROVE  \/ n = 1 /\ h = L[3]
         \/ n = 2 /\ h = L[2]
         \/ n = 3 /\ h = L[1]
<1>1. n \in {1, 2, 3}
  OBVIOUS
<1>2. \A m \in {1, 2, 3} : n = m => h = L[4 - m]
  OBVIOUS
<1> QED
  BY <1>1, <1>2

LEMMA LastOf4 ==
  ASSUME NEW n \in 1 .. 4, NEW L, NEW h, h = L[4 - n + 1]
  PROVE  \/ n = 1 /\ h = L[4]
         \/ n = 2 /\ h = L[3]
         \/ n = 3 /\ h = L[2]
         \/ n = 4 /\ h = L[1]
<1>1. n \in {1, 2, 3, 4}
  OBVIOUS
<1>2. \A m \in {1, 2, 3, 4} : n = m => h = L[5 - m]
  OBVIOUS
<1> QED
  BY <1>1, <1>2

LEMMA LastOf8 ==
  ASSUME NEW n \in 1 .. 8, NEW L, NEW h, h = L[8 - n + 1]
  PROVE  \/ n = 1 /\ h = L[8]
         \/ n = 2 /\ h = L[7]
         \/ n = 3 /\ h = L[6]
         \/ n = 4 /\ h = L[5]
         \/ n = 5 /\ h = L[4]
         \/ n = 6 /\ h = L[3]
         \/ n = 7 /\ h = L[2]
         \/ n = 8 /\ h = L[1]
<1>1. n \in {1, 2, 3, 4, 5, 6, 7, 8}
  OBVIOUS
<1>2. \A m \in {1, 2, 3, 4, 5, 6, 7, 8} : n = m => h = L[9 - m]
  OBVIOUS
<1> QED
  BY <1>1, <1>2

LEMMA LastOf9 ==
  ASSUME NEW n \in 1 .. 9, NEW L, NEW h, h = L[9 - n + 1]
  PROVE  \/ n = 1 /\ h = L[9]
         \/ n = 2 /\ h = L[8]
         \/ n = 3 /\ h = L[7]
         \/ n = 4 /\ h = L[6]
         \/ n = 5 /\ h = L[5]
         \/ n = 6 /\ h = L[4]
         \/ n = 7 /\ h = L[3]
         \/ n = 8 /\ h = L[2]
         \/ n = 9 /\ h = L[1]
<1>1. n \in {1, 2, 3, 4, 5, 6, 7, 8, 9}
  OBVIOUS
<1>2. \A m \in {1, 2, 3, 4, 5, 6, 7, 8, 9} : n = m => h = L[10 - m]
  OBVIOUS
<1> QED
  BY <1>1, <1>2

Callers == Commands \cup {NoCommand, Preconfigure}

\* Every command's list is a list of calls.
LEMMA ListType ==
  ASSUME NEW c \in Callers
  PROVE  List(c) \in Seq(CallNames)
<1>1. PreconfigureCalls \in Seq(CallNames)
  BY DEF PreconfigureCalls, CallNames
<1>2. /\ InitCalls \in Seq(CallNames) /\ GenCsrCalls \in Seq(CallNames)
      /\ ThingIdCalls \in Seq(CallNames) /\ << >> \in Seq(CallNames)
  BY DEF InitCalls, GenCsrCalls, ThingIdCalls, CallNames
<1> QED
  <2>1. Calls(c) \in {InitCalls, SetWifiCalls, GenKeyCalls, GenCsrCalls, SaveCredentialsCalls,
                      ResetKitCalls, ThingIdCalls, << >>}
    BY Zenon DEF Calls
  <2> QED
    BY <1>1, <1>2, <2>1, Slot8Calls, SaveCalls DEF List, ResetKitCalls

At(call, n) == Head(todo) = call /\ Len(todo) = n
WritesSlot8 == At("write_flag_ssid", 3) \/ At("write_password", 2) \/ At("write_hostname", 1)

Preconfigures ==
  /\ command = Preconfigure
  /\ \/ At("is_locked", 8) \/ At("write_address", 7) \/ At("write_config", 6)
     \/ At("lock_config", 5) \/ At("lock_data", 4) \/ At("sleep", 3)
     \/ At("genkey", 2) \/ At("genkey_others", 1)
SetsWifi == command.method = "setWifi" /\ (At("read_slot8", 4) \/ WritesSlot8)
Unsets ==
  /\ command.method \in Unset
  /\ (command.method = "genKey" /\ At("genkey", 4)) \/ WritesSlot8
Saves ==
  /\ command.method = "saveCredentials"
  /\ \/ At("write_ca", 9) \/ At("write_signer", 8) \/ At("verify_signer", 7)
     \/ At("write_device", 6) \/ At("verify_device", 5) \/ At("read_slot8", 4)
     \/ WritesSlot8
Asks ==
  /\ command.method \in {"init", "genCsr", "getThingID"}
  /\ Head(todo) \in {"serial_number", "public_key", "csr"}

\* Where in its list a command is tells which call is next.
LEMMA WhereCallsAre ==
  ASSUME TypeOK, InOrder, todo # << >>
  PROVE  /\ Len(todo) \in Nat \ {0} /\ Head(todo) \in CallNames
         /\ Tail(todo) \in Seq(CallNames) /\ Len(Tail(todo)) = Len(todo) - 1
         /\ command \in Commands \cup {Preconfigure}
         /\ Preconfigures \/ SetsWifi \/ Unsets \/ Saves \/ Asks
<1> DEFINE L == List(command)
<1>1. command \in Callers
  BY DEF TypeOK, Callers
<1>2. L \in Seq(CallNames)
  BY <1>1, ListType
<1>3. /\ Len(todo) \in 1 .. Len(L) /\ Head(todo) \in CallNames
      /\ Head(todo) = L[Len(L) - Len(todo) + 1]
      /\ Tail(todo) \in Seq(CallNames) /\ Len(Tail(todo)) = Len(todo) - 1
  BY <1>2, NextCall
<1>4. command # NoCommand
  BY DEF TypeOK
<1>5. ASSUME command = Preconfigure PROVE Preconfigures
  <2>1. L = PreconfigureCalls /\ Len(L) = 8
    BY <1>5 DEF List, PreconfigureCalls
  <2>2. Len(todo) \in 1 .. 8 /\ Head(todo) = L[8 - Len(todo) + 1]
    BY <1>3, <2>1, Zenon
  <2>9. /\ L[1] = "is_locked"
        /\ L[2] = "write_address"
        /\ L[3] = "write_config"
        /\ L[4] = "lock_config"
        /\ L[5] = "lock_data"
        /\ L[6] = "sleep"
        /\ L[7] = "genkey"
        /\ L[8] = "genkey_others"
    BY <2>1 DEF PreconfigureCalls
  <2> HIDE DEF L
  <2>3. \/ Len(todo) = 1 /\ Head(todo) = L[8]
        \/ Len(todo) = 2 /\ Head(todo) = L[7]
        \/ Len(todo) = 3 /\ Head(todo) = L[6]
        \/ Len(todo) = 4 /\ Head(todo) = L[5]
        \/ Len(todo) = 5 /\ Head(todo) = L[4]
        \/ Len(todo) = 6 /\ Head(todo) = L[3]
        \/ Len(todo) = 7 /\ Head(todo) = L[2]
        \/ Len(todo) = 8 /\ Head(todo) = L[1]
    BY <2>2, LastOf8
  <2> QED
    BY <1>3, <1>5, <2>3, <2>9, Zenon DEF Preconfigures, At
<1>6. ASSUME command # Preconfigure PROVE SetsWifi \/ Unsets \/ Saves \/ Asks
  <2>1. L = Calls(command) /\ command \in Commands
    BY <1>1, <1>4, <1>6 DEF List, Callers
  <2>2. command.method \in {"init", "getStatus", "genKey", "genCsr", "resetKit",
                            "getThingID", "unknown", "setWifi", "saveCredentials"}
    BY <2>1 DEF Commands
  <2>3. CASE command.method = "setWifi"
    <3>1. L = SetWifiCalls
      BY <2>1, <2>3 DEF Calls
    <3>2. Len(L) = 4
      BY <3>1, Slot8Calls
    <3>3. Len(todo) \in 1 .. 4 /\ Head(todo) = L[4 - Len(todo) + 1]
      BY <1>3, <3>2, Zenon
    <3> HIDE DEF L
    <3>4. \/ Len(todo) = 1 /\ Head(todo) = L[4]
          \/ Len(todo) = 2 /\ Head(todo) = L[3]
          \/ Len(todo) = 3 /\ Head(todo) = L[2]
          \/ Len(todo) = 4 /\ Head(todo) = L[1]
      BY <3>3, LastOf4
    <3>5. /\ L[1] = "read_slot8"
          /\ L[2] = "write_flag_ssid"
          /\ L[3] = "write_password"
          /\ L[4] = "write_hostname"
      BY <3>1, Slot8Calls, Zenon
    <3> QED
      BY <1>3, <1>6, <2>1, <2>3, <3>4, <3>5, Zenon DEF SetsWifi, WritesSlot8, At
  <2>4. CASE command.method = "genKey"
    <3>1. L = GenKeyCalls
      BY <2>1, <2>4 DEF Calls
    <3>2. Len(L) = 4
      BY <3>1, Slot8Calls
    <3>3. Len(todo) \in 1 .. 4 /\ Head(todo) = L[4 - Len(todo) + 1]
      BY <1>3, <3>2, Zenon
    <3> HIDE DEF L
    <3>4. \/ Len(todo) = 1 /\ Head(todo) = L[4]
          \/ Len(todo) = 2 /\ Head(todo) = L[3]
          \/ Len(todo) = 3 /\ Head(todo) = L[2]
          \/ Len(todo) = 4 /\ Head(todo) = L[1]
      BY <3>3, LastOf4
    <3>5. /\ L[1] = "genkey"
          /\ L[2] = "write_flag_ssid"
          /\ L[3] = "write_password"
          /\ L[4] = "write_hostname"
      BY <3>1, Slot8Calls, Zenon
    <3> QED
      BY <1>3, <1>6, <2>1, <2>4, <3>4, <3>5, Zenon DEF Unsets, Unset, WritesSlot8, At
  <2>5. CASE command.method = "resetKit"
    <3>1. L = WriteSlot8
      BY <2>1, <2>5 DEF Calls, ResetKitCalls
    <3>2. Len(L) = 3
      BY <3>1, Slot8Calls
    <3>3. Len(todo) \in 1 .. 3 /\ Head(todo) = L[3 - Len(todo) + 1]
      BY <1>3, <3>2, Zenon
    <3> HIDE DEF L
    <3>4. \/ Len(todo) = 1 /\ Head(todo) = L[3]
          \/ Len(todo) = 2 /\ Head(todo) = L[2]
          \/ Len(todo) = 3 /\ Head(todo) = L[1]
      BY <3>3, LastOf3
    <3>5. /\ L[1] = "write_flag_ssid"
          /\ L[2] = "write_password"
          /\ L[3] = "write_hostname"
      BY <3>1, Slot8Calls, Zenon
    <3> QED
      BY <1>3, <1>6, <2>1, <2>5, <3>4, <3>5, Zenon DEF Unsets, Unset, WritesSlot8, At
  <2>6. CASE command.method = "saveCredentials"
    <3>1. L = SaveCredentialsCalls
      BY <2>1, <2>6 DEF Calls
    <3>2. Len(L) = 9
      BY <3>1, SaveCalls
    <3>3. Len(todo) \in 1 .. 9 /\ Head(todo) = L[9 - Len(todo) + 1]
      BY <1>3, <3>2, Zenon
    <3> HIDE DEF L
    <3>4. \/ Len(todo) = 1 /\ Head(todo) = L[9]
          \/ Len(todo) = 2 /\ Head(todo) = L[8]
          \/ Len(todo) = 3 /\ Head(todo) = L[7]
          \/ Len(todo) = 4 /\ Head(todo) = L[6]
          \/ Len(todo) = 5 /\ Head(todo) = L[5]
          \/ Len(todo) = 6 /\ Head(todo) = L[4]
          \/ Len(todo) = 7 /\ Head(todo) = L[3]
          \/ Len(todo) = 8 /\ Head(todo) = L[2]
          \/ Len(todo) = 9 /\ Head(todo) = L[1]
      BY <3>3, LastOf9
    <3>5. /\ L[1] = "write_ca"
          /\ L[2] = "write_signer"
          /\ L[3] = "verify_signer"
          /\ L[4] = "write_device"
          /\ L[5] = "verify_device"
          /\ L[6] = "read_slot8"
          /\ L[7] = "write_flag_ssid"
          /\ L[8] = "write_password"
          /\ L[9] = "write_hostname"
      BY <3>1, SaveCalls, Zenon
    <3> QED
      BY <1>3, <1>6, <2>1, <2>6, <3>4, <3>5, Zenon DEF Saves, WritesSlot8, At
  <2>7. CASE command.method \in {"init", "genCsr", "getThingID"}
    <3>1. L \in {InitCalls, GenCsrCalls, ThingIdCalls}
      BY <2>1, <2>7 DEF Calls
    <3> QED
      BY <1>3, <2>7, <3>1 DEF Asks, InitCalls, GenCsrCalls, ThingIdCalls
  <2>8. CASE command.method \in {"getStatus", "unknown"}
    <3>1. L = << >>
      BY <2>1, <2>8 DEF Calls
    <3> QED
      BY <1>3, <3>1
  <2> QED
    BY <2>2, <2>3, <2>4, <2>5, <2>6, <2>7, <2>8
<1>7. Len(todo) \in Nat \ {0}
  BY <1>2, <1>3, LenProperties
<1>8. command \in Commands \cup {Preconfigure}
  BY <1>1, <1>4 DEF Callers
<1> QED
  BY <1>3, <1>5, <1>6, <1>7, <1>8, Zenon

----------------------------------------------------------------------------
(* What a call does to the chip. *)

SameConfiguration(c) ==
  /\ c.answersAt = chip.answersAt /\ c.address = chip.address /\ c.written = chip.written
  /\ c.configLocked = chip.configLocked /\ c.dataLocked = chip.dataLocked
SameKey(c)  == c.deviceKey = chip.deviceKey
SameCerts(c) == c.signerCa = chip.signerCa /\ c.signer = chip.signer /\ c.device = chip.device
SameWifi(c) ==
  /\ c.slot8.wifi_flag = chip.slot8.wifi_flag /\ c.slot8.ssid = chip.slot8.ssid
  /\ c.slot8.wifi_password = chip.slot8.wifi_password
SameCloud(c) ==
  c.slot8.aws_flag = chip.slot8.aws_flag /\ c.slot8.hostname = chip.slot8.hostname
Same(c) == SameConfiguration(c) /\ SameKey(c) /\ SameCerts(c) /\ SameWifi(c) /\ SameCloud(c)

\* Calls that ask leave the chip alone, and two of them tell something of it.
LEMMA AskEffect ==
  ASSUME NEW c \in After(Head(todo)),
         Head(todo) \in {"serial_number", "public_key", "csr", "genkey_others", "is_locked",
                         "read_slot8", "verify_signer", "verify_device"}
  PROVE  /\ c = chip
         /\ Head(todo) = "verify_signer" => chip.signer = command.arg /\ chip.signer.chained
         /\ Head(todo) = "verify_device" =>
              chip.device = command.arg /\ chip.device.key = chip.deviceKey
BY DEF After, If, SignerVerifies, DeviceVerifies

\* The calls of the pre-configuration change one part of the configuration each,
\* and need it unlocked but for the locks.
LEMMA ConfigureEffect ==
  ASSUME TypeOK, NEW c \in After(Head(todo)),
         Head(todo) \in {"write_address", "write_config", "lock_config", "lock_data", "sleep"}
  PROVE  /\ c \in Chip /\ SameKey(c) /\ SameCerts(c) /\ SameWifi(c) /\ SameCloud(c)
         /\ c.answersAt = IF Head(todo) = "sleep" THEN chip.address ELSE chip.answersAt
         /\ c.address = IF Head(todo) = "write_address" THEN "aws" ELSE chip.address
         /\ c.written = IF Head(todo) = "write_config" THEN TRUE ELSE chip.written
         /\ c.configLocked = IF Head(todo) = "lock_config" THEN TRUE ELSE chip.configLocked
         /\ c.dataLocked = IF Head(todo) = "lock_data" THEN TRUE ELSE chip.dataLocked
<1>1. chip \in Chip
  BY DEF TypeOK
<1>2. CASE Head(todo) = "write_address"
  <2>1. c = [chip EXCEPT !["address"] = "aws"]
    BY <1>2 DEF After, Configured
  <2> QED
    BY <1>1, <1>2, <2>1 DEF Chip, SameKey, SameCerts, SameWifi, SameCloud
<1>3. CASE Head(todo) = "write_config"
  <2>1. c = [chip EXCEPT !["written"] = TRUE]
    BY <1>3 DEF After, Configured
  <2> QED
    BY <1>1, <1>3, <2>1 DEF Chip, SameKey, SameCerts, SameWifi, SameCloud
<1>4. CASE Head(todo) = "lock_config"
  <2>1. c = [chip EXCEPT !.configLocked = TRUE]
    BY <1>4 DEF After
  <2> QED
    BY <1>1, <1>4, <2>1 DEF Chip, SameKey, SameCerts, SameWifi, SameCloud
<1>5. CASE Head(todo) = "lock_data"
  <2>1. c = [chip EXCEPT !.dataLocked = TRUE]
    BY <1>5 DEF After
  <2> QED
    BY <1>1, <1>5, <2>1 DEF Chip, SameKey, SameCerts, SameWifi, SameCloud
<1>6. CASE Head(todo) = "sleep"
  <2>1. c = [chip EXCEPT !.answersAt = chip.address]
    BY <1>6 DEF After
  <2> QED
    BY <1>1, <1>6, <2>1 DEF Chip, SameKey, SameCerts, SameWifi, SameCloud
<1> QED
  BY <1>2, <1>3, <1>4, <1>5, <1>6

\* A generated key replaces the device's.
LEMMA GenkeyEffect ==
  ASSUME TypeOK, NEW c \in After(Head(todo)), Head(todo) = "genkey"
  PROVE  c \in Chip /\ SameConfiguration(c) /\ SameCerts(c) /\ SameWifi(c) /\ SameCloud(c)
<1>1. PICK k \in Keys : c = [chip EXCEPT !.deviceKey = k]
  BY DEF After, Genkey
<1> QED
  BY <1>1 DEF TypeOK, Chip, SameConfiguration, SameCerts, SameWifi, SameCloud

\* A certificate is written to its slot.
LEMMA CertificateEffect ==
  ASSUME TypeOK, NEW c \in After(Head(todo)), command.arg \in Offers,
         Head(todo) \in {"write_ca", "write_signer", "write_device"}
  PROVE  /\ c \in Chip /\ SameConfiguration(c) /\ SameKey(c) /\ SameWifi(c) /\ SameCloud(c)
         /\ c.signerCa = IF Head(todo) = "write_ca" THEN command.arg ELSE chip.signerCa
         /\ c.signer = IF Head(todo) = "write_signer" THEN command.arg ELSE chip.signer
         /\ c.device = IF Head(todo) = "write_device" THEN command.arg ELSE chip.device
<1>1. chip \in Chip
  BY DEF TypeOK
<1>2. CASE Head(todo) = "write_ca"
  <2>1. c = [chip EXCEPT !["signerCa"] = command.arg]
    BY <1>2 DEF After, Written
  <2> QED
    BY <1>1, <1>2, <2>1 DEF Chip, SameConfiguration, SameKey, SameWifi, SameCloud
<1>3. CASE Head(todo) = "write_signer"
  <2>1. c = [chip EXCEPT !["signer"] = command.arg]
    BY <1>3 DEF After, Written
  <2> QED
    BY <1>1, <1>3, <2>1 DEF Chip, SameConfiguration, SameKey, SameWifi, SameCloud
<1>4. CASE Head(todo) = "write_device"
  <2>1. c = [chip EXCEPT !["device"] = command.arg]
    BY <1>4 DEF After, Written
  <2> QED
    BY <1>1, <1>4, <2>1 DEF Chip, SameConfiguration, SameKey, SameWifi, SameCloud
<1> QED
  BY <1>2, <1>3, <1>4

\* A part of slot 8 is written from the handler's copy.
LEMMA Slot8Effect ==
  ASSUME TypeOK, NEW c \in After(Head(todo)),
         Head(todo) \in {"write_flag_ssid", "write_password", "write_hostname"}
  PROVE  /\ c \in Chip /\ SameConfiguration(c) /\ SameKey(c) /\ SameCerts(c)
         /\ Head(todo) = "write_flag_ssid" =>
              /\ c.slot8.wifi_flag = metadata.wifi_flag
              /\ c.slot8.aws_flag = metadata.aws_flag /\ c.slot8.ssid = metadata.ssid
         /\ Head(todo) # "write_flag_ssid" =>
              /\ c.slot8.wifi_flag = chip.slot8.wifi_flag
              /\ c.slot8.aws_flag = chip.slot8.aws_flag /\ c.slot8.ssid = chip.slot8.ssid
         /\ c.slot8.wifi_password =
              IF Head(todo) = "write_password" THEN metadata.wifi_password
              ELSE chip.slot8.wifi_password
         /\ c.slot8.hostname =
              IF Head(todo) = "write_hostname" THEN metadata.hostname ELSE chip.slot8.hostname
<1> DEFINE fields == CASE Head(todo) = "write_flag_ssid" -> {"wifi_flag", "aws_flag", "ssid"}
                       [] Head(todo) = "write_password" -> {"wifi_password"}
                       [] OTHER -> {"hostname"}
           image == [f \in DOMAIN chip.slot8 |->
                       IF f \in fields THEN metadata[f] ELSE chip.slot8[f]]
<1>1. c = [chip EXCEPT !.slot8 = image]
  BY DEF After, WrittenInSlot8
<1>2. chip \in Chip /\ metadata \in Metadata /\ chip.slot8 \in Metadata
  BY DEF TypeOK, Chip
<1>3. DOMAIN chip.slot8 = {"wifi_flag", "aws_flag", "ssid", "wifi_password", "hostname"}
  BY <1>2 DEF Metadata
<1>4. /\ image.wifi_flag = IF "wifi_flag" \in fields THEN metadata.wifi_flag ELSE chip.slot8.wifi_flag
      /\ image.aws_flag = IF "aws_flag" \in fields THEN metadata.aws_flag ELSE chip.slot8.aws_flag
      /\ image.ssid = IF "ssid" \in fields THEN metadata.ssid ELSE chip.slot8.ssid
      /\ image.wifi_password =
           IF "wifi_password" \in fields THEN metadata.wifi_password ELSE chip.slot8.wifi_password
      /\ image.hostname = IF "hostname" \in fields THEN metadata.hostname ELSE chip.slot8.hostname
  BY <1>3
<1>5. image \in Metadata
  <2>1. image = [wifi_flag |-> image.wifi_flag, aws_flag |-> image.aws_flag, ssid |-> image.ssid,
                 wifi_password |-> image.wifi_password, hostname |-> image.hostname]
    BY <1>3
  <2> HIDE DEF image
  <2> QED
    BY <1>2, <1>4, <2>1 DEF Metadata
<1> HIDE DEF image
<1>6. c \in Chip /\ c.slot8 = image /\ SameConfiguration(c) /\ SameKey(c) /\ SameCerts(c)
  BY <1>1, <1>2, <1>5 DEF Chip, SameConfiguration, SameKey, SameCerts
<1> QED
  BY <1>4, <1>6

----------------------------------------------------------------------------
(* Type correctness, and the order of the calls. *)

\* A call leaves the chip in one of its states.
LEMMA ChipType ==
  ASSUME TypeOK, InOrder, todo # << >>, NEW c \in After(Head(todo))
  PROVE  c \in Chip
<1>1. chip \in Chip
  BY DEF TypeOK
<1>2. Saves => command.arg \in Offers
  BY WhereCallsAre DEF Saves, Commands, Preconfigure
<1> QED
  BY <1>1, <1>2, WhereCallsAre, AskEffect, ConfigureEffect, GenkeyEffect, CertificateEffect,
     Slot8Effect
     DEF Preconfigures, SetsWifi, Unsets, Saves, Asks, WritesSlot8, At

\* Every step keeps the types.
LEMMA TypeStep ==
  ASSUME TypeOK, InOrder, [Next]_vars
  PROVE  TypeOK'
<1>1. CASE Detect \/ Sw1Pressed \/ PreconfigureReturns \/ InitDone \/ LeaveTask
  <2>1. g_provisioning_state' \in States /\ inKit' \in BOOLEAN /\ status' \in BOOLEAN
    BY <1>1 DEF Detect, Detected, Sw1Pressed, PreconfigureReturns, InitDone, LeaveTask, TypeOK,
                States
  <2>2. /\ command' \in Commands \cup {NoCommand, Preconfigure}
        /\ command' = NoCommand => todo' = << >>
    BY <1>1 DEF Detect, Sw1Pressed, PreconfigureReturns, InitDone, LeaveTask, TypeOK,
                Preconfigure, NoCommand
  <2>3. UNCHANGED << metadata, chip, told >>
    BY <1>1 DEF Detect, Sw1Pressed, PreconfigureReturns, InitDone, LeaveTask
  <2> QED
    BY <2>1, <2>2, <2>3 DEF TypeOK
<1>2. ASSUME NEW c \in Commands, Receive(c)
      PROVE  TypeOK'
  <2>1. c # NoCommand
    BY DEF Commands, NoCommand
  <2>2. Zeros \in Metadata
    BY DEF Zeros, Metadata
  <2>3. told'.wifi \in Wifis \cup {None, Unknown} /\ told'.cloud \in Offers \cup {None, Unknown}
    BY <1>2 DEF Receive, Doubted, TypeOK
  <2> QED
    BY <1>2, <2>1, <2>2, <2>3 DEF Receive, TypeOK
<1>3. CASE Call
  <2>1. todo # << >> /\ chip' \in Chip
    BY <1>3, ChipType DEF Call
  <2>2. metadata' \in Metadata
    <3>1. CASE Head(todo) # "read_slot8"
      BY <1>3, <3>1 DEF Call, TypeOK
    <3>2. CASE Head(todo) = "read_slot8"
      <4>1. chip.slot8 \in Metadata /\ metadata' = Image(command, chip.slot8)
        BY <1>3, <3>2 DEF Call, TypeOK, Chip
      <4>2. \/ command.method = "setWifi" /\ command.arg \in Wifis
            \/ command.method = "saveCredentials" /\ command.arg \in Offers
        BY <2>1, <3>2, WhereCallsAre
           DEF Preconfigures, SetsWifi, Unsets, Saves, Asks, WritesSlot8, At, Commands, Preconfigure
      <4> QED
        BY <4>1, <4>2 DEF Image, Metadata
    <3> QED
      BY <3>1, <3>2
  <2>3. command # NoCommand
    BY <2>1 DEF TypeOK
  <2> QED
    BY <1>3, <2>1, <2>2, <2>3 DEF Call, TypeOK
<1>4. CASE CallFails
  <2>1. chip' \in Chip
    BY <1>4, ChipType DEF CallFails, TypeOK
  <2> QED
    BY <1>4, <2>1 DEF CallFails, TypeOK
<1>5. CASE Answer
  <2>1. Zeros \in Metadata /\ command \in Commands \cup {Preconfigure}
    BY <1>5 DEF Zeros, Metadata, TypeOK, Answer
  <2>2. told'.wifi \in Wifis \cup {None, Unknown} /\ told'.cloud \in Offers \cup {None, Unknown}
    BY <1>5, <2>1 DEF Answer, Learnt, TypeOK, Commands, Preconfigure
  <2>3. g_provisioning_state' \in States
    BY <1>5 DEF Answer, StateAfter, TypeOK, States
  <2> QED
    BY <1>5, <2>1, <2>2, <2>3 DEF Answer, TypeOK
<1>6. CASE PowerCycle
  <2>1. Zeros \in Metadata /\ chip' \in Chip
    BY <1>6 DEF PowerCycle, Zeros, Metadata, TypeOK, Chip
  <2> QED
    BY <1>6, <2>1 DEF PowerCycle, TypeOK, States
<1>7. CASE UNCHANGED vars
  BY <1>7 DEF vars, TypeOK
<1> QED
  BY <1>1, <1>2, <1>3, <1>4, <1>5, <1>6, <1>7 DEF Next

\* A list with nothing done, and one with nothing left.
LEMMA Ends ==
  ASSUME NEW L \in Seq(CallNames)
  PROVE  /\ L = SubSeq(L, Len(L) - Len(L) + 1, Len(L)) /\ Len(L) \in Nat
         /\ << >> = SubSeq(L, Len(L) - 0 + 1, Len(L))
<1>1. Len(L) \in Nat
  BY LenProperties
<1>2. SubSeq(L, Len(L) - 0 + 1, Len(L)) = << >>
  BY <1>1, SubSeqEmpty
<1>3. Len(L) - Len(L) + 1 = 1
  BY <1>1
<1> QED
  BY <1>1, <1>2, <1>3, SubSeqFull

\* Every step keeps the calls in their order.
LEMMA OrderStep ==
  ASSUME TypeOK, InOrder, [Next]_vars
  PROVE  InOrder'
<1>1. command' \in Callers
  BY TypeStep DEF TypeOK, Callers
<1>2. List(command') \in Seq(CallNames)
  BY <1>1, ListType
<1>3. CASE todo' = << >>
  <2>1. << >> \in Seq(CallNames) /\ Len(<< >>) = 0
    OBVIOUS
  <2> QED
    BY <1>2, <1>3, <2>1, Ends DEF InOrder
<1>4. CASE todo' = List(command')
  BY <1>2, <1>4, Ends DEF InOrder
<1>5. CASE Call
  <2>1. command' = command /\ todo' = Tail(todo) /\ todo # << >>
    BY <1>5 DEF Call
  <2>2. LET n == Len(List(command))
        IN /\ Tail(todo) \in Seq(CallNames) /\ Len(Tail(todo)) = Len(todo) - 1
           /\ Tail(todo) = SubSeq(List(command), n - Len(Tail(todo)) + 1, n)
           /\ Len(todo) \in 1 .. n
    BY <1>2, <2>1, NextCall
  <2> QED
    BY <1>2, <2>1, <2>2, LenProperties DEF InOrder
<1>6. CASE UNCHANGED << command, todo >>
  BY <1>6 DEF InOrder
<1>7. ASSUME NEW c \in Commands, Receive(c)
      PROVE  todo' = List(command')
  BY <1>7 DEF Receive, List, Commands, Preconfigure
<1>8. Sw1Pressed => todo' = List(command')
  BY DEF Sw1Pressed, List
<1>9. \/ UNCHANGED << command, todo >> \/ todo' = << >> \/ todo' = List(command') \/ Call
  BY <1>7, <1>8
     DEF Next, vars, Detect, PreconfigureReturns, InitDone, LeaveTask, CallFails, Answer, PowerCycle
<1> QED
  BY <1>3, <1>4, <1>5, <1>6, <1>9

----------------------------------------------------------------------------
(* The address, the pre-configuration and the locks. *)

\* What a call makes of the configuration, with what the call needs.
LEMMA ConfigurationAfter ==
  ASSUME TypeOK, InOrder, todo # << >>, NEW c \in After(Head(todo))
  PROVE  /\ command # Preconfigure => SameConfiguration(c)
         /\ c.answersAt = chip.answersAt \/ (command = Preconfigure /\ c.answersAt = chip.address)
         /\ c.address = chip.address \/ (command = Preconfigure /\ c.address = "aws")
         /\ At("write_address", 7) => c.address = "aws"
         /\ At("write_config", 6) => c.written
         /\ At("lock_config", 5) => c.configLocked
         /\ chip.written => c.written
         /\ chip.configLocked => c.configLocked
         /\ ~chip.configLocked /\ c.configLocked => command = Preconfigure /\ At("lock_config", 5)
         /\ ~chip.dataLocked /\ c.dataLocked => command = Preconfigure /\ At("lock_data", 4)
<1>1. Saves => command.arg \in Offers
  BY WhereCallsAre DEF Saves, Commands, Preconfigure
<1>2. CASE SameConfiguration(c)
  <2>1. /\ ~At("write_address", 7) \/ c.address = "aws"
        /\ ~At("write_config", 6) \/ c.written
        /\ ~At("lock_config", 5) \/ c.configLocked
    BY ConfigureEffect DEF At
  <2> QED
    BY <1>2, <2>1 DEF SameConfiguration
<1>3. CASE Head(todo) \in {"write_address", "write_config", "lock_config", "lock_data", "sleep"}
  <2>1. Preconfigures
    BY <1>3, WhereCallsAre DEF SetsWifi, Unsets, Saves, Asks, WritesSlot8, At
  <2> QED
    BY <1>3, <2>1, ConfigureEffect DEF Preconfigures, At
<1>4. c = chip => SameConfiguration(c)
  BY DEF SameConfiguration
<1> QED
  BY <1>1, <1>2, <1>3, <1>4, WhereCallsAre, AskEffect, GenkeyEffect, CertificateEffect, Slot8Effect
     DEF Preconfigures, SetsWifi, Unsets, Saves, Asks, WritesSlot8, At

\* The chip answers at the board's address whenever it is used.
LEMMA AddressStep ==
  ASSUME TypeOK, InOrder, AddressIsKept, [Next]_vars
  PROVE  AddressIsKept'
<1>1. CASE Detect \/ Sw1Pressed \/ PreconfigureReturns \/ InitDone \/ LeaveTask
  BY <1>1 DEF Detect, Detected, Sw1Pressed, PreconfigureReturns, InitDone, LeaveTask, AddressIsKept,
              Commands, NoCommand, Preconfigure
<1>2. ASSUME NEW c \in Commands, Receive(c)
      PROVE  AddressIsKept'
  BY <1>2 DEF Receive, AddressIsKept, Commands, Preconfigure
<1>3. CASE Call \/ CallFails
  <2>1. todo # << >> /\ chip' \in {chip} \cup After(Head(todo))
    BY <1>3 DEF Call, CallFails
  <2>2. UNCHANGED << g_provisioning_state, inKit, command, told >>
    BY <1>3 DEF Call, CallFails
  <2>3. /\ chip'.answersAt = chip.answersAt
             \/ (command = Preconfigure /\ chip'.answersAt = chip.address)
        /\ chip'.address = chip.address \/ (command = Preconfigure /\ chip'.address = "aws")
    BY <2>1, ConfigurationAfter
  <2> QED
    BY <2>2, <2>3 DEF AddressIsKept
<1>4. CASE Answer
  <2>1. command \in Commands \cup {Preconfigure} /\ inKit
    BY <1>4 DEF Answer, TypeOK
  <2>2. command # Preconfigure
    BY <2>1 DEF AddressIsKept
  <2>3. g_provisioning_state' \in {"CONFIGURE", "PROVISION_RESET", "WINC1500_INIT"}
    BY <1>4, <2>1 DEF Answer, StateAfter, AddressIsKept
  <2> QED
    BY <1>4, <2>1, <2>3 DEF Answer, AddressIsKept, Commands, NoCommand, Preconfigure
<1>5. CASE PowerCycle
  <2>1. chip'.answersAt = chip.address /\ chip'.address = chip.address
    BY <1>5 DEF PowerCycle, TypeOK, Chip
  <2> QED
    BY <1>5, <2>1 DEF PowerCycle, AddressIsKept, TypeOK, Chip, NoCommand, Preconfigure, Commands
<1>6. CASE UNCHANGED vars
  BY <1>6 DEF vars, AddressIsKept
<1> QED
  BY <1>1, <1>2, <1>3, <1>4, <1>5, <1>6 DEF Next

\* The pre-configuration writes what it locks before it does.
LEMMA PreconfigureStep ==
  ASSUME TypeOK, InOrder, PreconfigureStage, [Next]_vars
  PROVE  PreconfigureStage'
<1>1. CASE Sw1Pressed
  <2>1. todo' = PreconfigureCalls /\ Len(PreconfigureCalls) = 8
    BY <1>1 DEF Sw1Pressed, PreconfigureCalls
  <2> QED
    BY <2>1 DEF PreconfigureStage, Before
<1>2. CASE Call /\ command = Preconfigure
  <2>1. todo # << >> /\ chip' \in After(Head(todo)) /\ todo' = Tail(todo) /\ command' = command
    BY <1>2 DEF Call
  <2>2. Preconfigures /\ Len(todo) \in Nat \ {0} /\ Len(Tail(todo)) = Len(todo) - 1
    BY <1>2, <2>1, WhereCallsAre
       DEF SetsWifi, Unsets, Saves, Asks, Preconfigure, Unset
  <2>3. /\ chip'.address = chip.address \/ chip'.address = "aws"
        /\ At("write_address", 7) => chip'.address = "aws"
        /\ At("write_config", 6) => chip'.written
        /\ At("lock_config", 5) => chip'.configLocked
        /\ chip.written => chip'.written
        /\ chip.configLocked => chip'.configLocked
    BY <2>1, ConfigurationAfter
  <2>4. /\ Before(6)' \/ ~Before(6) \/ At("write_address", 7)
        /\ Before(5)' \/ ~Before(5) \/ At("write_config", 6)
        /\ Before(4)' \/ ~Before(4) \/ At("lock_config", 5)
    <3>1. /\ Len(todo) = 7 => At("write_address", 7)
          /\ Len(todo) = 6 => At("write_config", 6)
          /\ Len(todo) = 5 => At("lock_config", 5)
      <4>1. Preconfigures
        BY <2>2
      <4> QED
        BY <4>1 DEF Preconfigures, At
    <3>2. Len(todo') = Len(todo) - 1 /\ Len(todo) \in Nat
      BY <2>1, <2>2
    <3>3. \A n \in {4, 5, 6} : Before(n)' \/ ~Before(n) \/ Len(todo) = n + 1
      BY <3>2 DEF Before
    <3> QED
      BY <3>1, <3>3
  <2> QED
    BY <1>2, <2>1, <2>3, <2>4, Zenon DEF PreconfigureStage
<1>3. CASE todo' = << >>
  BY <1>3 DEF PreconfigureStage, Before
<1>4. CASE command' # Preconfigure
  BY <1>4 DEF PreconfigureStage
<1>5. CASE UNCHANGED << command, todo, chip >>
  BY <1>5 DEF PreconfigureStage, Before
<1>6. ASSUME NEW c \in Commands, Receive(c)
      PROVE  command' # Preconfigure
  BY <1>6 DEF Receive, Commands, Preconfigure
<1>7. \/ Sw1Pressed \/ (Call /\ command = Preconfigure) \/ todo' = << >>
      \/ command' # Preconfigure \/ UNCHANGED << command, todo, chip >>
  BY <1>6 DEF Next, vars, Detect, PreconfigureReturns, InitDone, LeaveTask, Call, CallFails, Answer,
              PowerCycle, NoCommand, Preconfigure
<1> QED
  BY <1>1, <1>2, <1>3, <1>4, <1>5, <1>7

\* The locks are closed by the calls for it, after what they lock.
LEMMA LockStep ==
  ASSUME TypeOK, InOrder, PreconfigureStage, [Next]_vars
  PROVE  /\ ~chip.configLocked /\ chip'.configLocked => chip.address = "aws" /\ chip.written
         /\ ~chip.dataLocked /\ chip'.dataLocked => chip.configLocked
<1>1. CASE Call \/ CallFails
  <2>1. todo # << >> /\ chip' \in {chip} \cup After(Head(todo))
    BY <1>1 DEF Call, CallFails
  <2>2. /\ ~chip.configLocked /\ chip'.configLocked => command = Preconfigure /\ At("lock_config", 5)
        /\ ~chip.dataLocked /\ chip'.dataLocked => command = Preconfigure /\ At("lock_data", 4)
    BY <2>1, ConfigurationAfter
  <2>3. /\ At("lock_config", 5) => ~Before(6) /\ ~Before(5)
        /\ At("lock_data", 4) => ~Before(4)
    BY <2>1 DEF At, Before
  <2> QED
    BY <2>2, <2>3, Zenon DEF PreconfigureStage
<1>2. CASE PowerCycle
  BY <1>2 DEF PowerCycle, TypeOK, Chip
<1>3. Call \/ CallFails \/ PowerCycle \/ chip' = chip
  BY DEF Next, vars, Detect, Sw1Pressed, PreconfigureReturns, InitDone, LeaveTask, Receive, Answer
<1> QED
  BY <1>1, <1>2, <1>3

----------------------------------------------------------------------------
(* The credentials. *)

\* The certificates after a call, ...
CertsFrom(c) ==
  /\ c.signerCa = IF At("write_ca", 9) THEN command.arg ELSE chip.signerCa
  /\ c.signer = IF At("write_signer", 8) THEN command.arg ELSE chip.signer
  /\ c.device = IF At("write_device", 6) THEN command.arg ELSE chip.device

\* ... and slot 8.
Slot8From(c) ==
  /\ c.slot8.wifi_flag =
       IF At("write_flag_ssid", 3) THEN metadata.wifi_flag ELSE chip.slot8.wifi_flag
  /\ c.slot8.aws_flag =
       IF At("write_flag_ssid", 3) THEN metadata.aws_flag ELSE chip.slot8.aws_flag
  /\ c.slot8.ssid = IF At("write_flag_ssid", 3) THEN metadata.ssid ELSE chip.slot8.ssid
  /\ c.slot8.wifi_password =
       IF At("write_password", 2) THEN metadata.wifi_password ELSE chip.slot8.wifi_password
  /\ c.slot8.hostname =
       IF At("write_hostname", 1) THEN metadata.hostname ELSE chip.slot8.hostname

\* Every call changes one thing: a key, a certificate or a part of slot 8.
LEMMA CallMoves ==
  ASSUME TypeOK, InOrder, todo # << >>, NEW c \in After(Head(todo))
  PROVE  /\ CertsFrom(c) /\ Slot8From(c)
         /\ SameKey(c) \/ command = Preconfigure \/ command.method = "genKey"
         /\ Saves => command.arg \in Offers
         /\ At("verify_signer", 7) => chip.signer = command.arg /\ chip.signer.chained
         /\ At("verify_device", 5) => chip.device.key = chip.deviceKey /\ chip.device = command.arg
<1>1. Saves => command.arg \in Offers
  BY WhereCallsAre DEF Saves, Commands, Preconfigure
<1>2. /\ At("verify_signer", 7) => chip.signer = command.arg /\ chip.signer.chained
      /\ At("verify_device", 5) => chip.device.key = chip.deviceKey /\ chip.device = command.arg
  BY AskEffect DEF At
<1>3. CASE Head(todo) \in {"serial_number", "public_key", "csr", "genkey_others", "is_locked",
                           "read_slot8", "verify_signer", "verify_device"}
  BY <1>1, <1>2, <1>3, AskEffect DEF At, CertsFrom, Slot8From, SameKey
<1>4. CASE Head(todo) \in {"write_address", "write_config", "lock_config", "lock_data", "sleep"}
  BY <1>1, <1>2, <1>4, ConfigureEffect
     DEF At, CertsFrom, Slot8From, SameKey, SameCerts, SameWifi, SameCloud
<1>5. CASE Head(todo) = "genkey"
  <2>1. CertsFrom(c) /\ Slot8From(c)
    BY <1>5, GenkeyEffect DEF At, CertsFrom, Slot8From, SameCerts, SameWifi, SameCloud
  <2>2. command = Preconfigure \/ command.method = "genKey"
    BY <1>5, WhereCallsAre DEF Preconfigures, SetsWifi, Unsets, Saves, Asks, WritesSlot8, At
  <2> QED
    BY <1>1, <1>2, <2>1, <2>2
<1>6. CASE Head(todo) \in {"write_ca", "write_signer", "write_device"}
  <2>1. Saves
    BY <1>6, WhereCallsAre DEF Preconfigures, SetsWifi, Unsets, Asks, WritesSlot8, At
  <2>2. /\ Head(todo) = "write_ca" => At("write_ca", 9)
        /\ Head(todo) = "write_signer" => At("write_signer", 8)
        /\ Head(todo) = "write_device" => At("write_device", 6)
    BY <2>1 DEF Saves, WritesSlot8, At
  <2>3. /\ SameKey(c) /\ SameWifi(c) /\ SameCloud(c)
        /\ c.signerCa = IF Head(todo) = "write_ca" THEN command.arg ELSE chip.signerCa
        /\ c.signer = IF Head(todo) = "write_signer" THEN command.arg ELSE chip.signer
        /\ c.device = IF Head(todo) = "write_device" THEN command.arg ELSE chip.device
    BY <1>1, <1>6, <2>1, CertificateEffect
  <2>4. CertsFrom(c)
    BY <2>2, <2>3 DEF CertsFrom, At
  <2>5. Slot8From(c)
    BY <1>6, <2>3 DEF Slot8From, At, SameWifi, SameCloud
  <2> QED
    BY <1>1, <1>2, <2>3, <2>4, <2>5
<1>7. CASE Head(todo) \in {"write_flag_ssid", "write_password", "write_hostname"}
  <2>1. WritesSlot8
    BY <1>7, WhereCallsAre DEF Preconfigures, SetsWifi, Unsets, Saves, Asks, WritesSlot8, At
  <2>2. /\ Head(todo) = "write_flag_ssid" => At("write_flag_ssid", 3)
        /\ Head(todo) = "write_password" => At("write_password", 2)
        /\ Head(todo) = "write_hostname" => At("write_hostname", 1)
    BY <2>1 DEF WritesSlot8, At
  <2>3. CertsFrom(c)
    BY <1>7, Slot8Effect DEF CertsFrom, At, SameCerts
  <2>4. Slot8From(c)
    BY <1>7, <2>2, Slot8Effect DEF Slot8From, At
  <2> QED
    BY <1>1, <1>2, <1>7, <2>3, <2>4, Slot8Effect
<1> QED
  BY <1>3, <1>4, <1>5, <1>6, <1>7, WhereCallsAre DEF CallNames

\* While calls remain, the step that makes one takes the command one call further.
LEMMA OneCallFurther ==
  ASSUME TypeOK, InOrder, Call
  PROVE  /\ Len(todo) \in Nat \ {0} /\ Len(todo') = Len(todo) - 1
         /\ \A n \in Nat : Before(n)' \/ ~Before(n) \/ Len(todo) = n + 1
         /\ \A n \in Nat : Within(n)' => Within(n) \/ (status /\ Len(todo) = n + 1)
<1>1. todo # << >> /\ todo' = Tail(todo) /\ status' = status
  BY DEF Call
<1>2. Len(todo) \in Nat \ {0} /\ Len(todo') = Len(todo) - 1
  BY <1>1, WhereCallsAre
<1>3. ASSUME NEW n \in Nat
      PROVE  Before(n)' \/ ~Before(n) \/ Len(todo) = n + 1
  BY <1>2 DEF Before
<1>4. ASSUME NEW n \in Nat
      PROVE  Within(n)' => Within(n) \/ (status /\ Len(todo) = n + 1)
  <2>1. Len(todo') <= n => Len(todo) <= n \/ Len(todo) = n + 1
    BY <1>2
  <2> QED
    BY <1>1, <2>1, Zenon DEF Within
<1> QED
  BY <1>2, <1>3, <1>4

\* A failing call ends its command, and no stage is left to reach.
LEMMA FailureEnds ==
  ASSUME TypeOK, InOrder, CallFails
  PROVE  /\ \A n \in Nat : Before(n)'
         /\ command \in Commands => \A n \in Nat : ~Within(n)'
<1>1. todo' = << >> /\ status' = (status /\ command = Preconfigure)
  BY DEF CallFails
<1>2. Preconfigure \notin Commands
  BY DEF Preconfigure, Commands
<1>3. Len(todo') = 0
  BY <1>1
<1>4. ASSUME NEW n \in Nat PROVE Before(n)'
  BY <1>3 DEF Before
<1>5. ASSUME command \in Commands, NEW n \in Nat PROVE ~Within(n)'
  BY <1>1, <1>2, <1>5 DEF Within
<1> QED
  BY <1>4, <1>5

\* Where saveCredentials is.
LEMMA WhereSaveIs ==
  ASSUME TypeOK, InOrder, todo # << >>, command.method = "saveCredentials"
  PROVE  /\ Saves /\ Len(todo) \in 1 .. 9
         /\ Len(todo) = 9 => At("write_ca", 9)
         /\ Len(todo) = 8 => At("write_signer", 8)
         /\ Len(todo) = 7 => At("verify_signer", 7)
         /\ Len(todo) = 6 => At("write_device", 6)
         /\ Len(todo) = 5 => At("verify_device", 5)
         /\ Len(todo) = 4 => At("read_slot8", 4)
         /\ Len(todo) = 3 => At("write_flag_ssid", 3)
         /\ Len(todo) = 2 => At("write_password", 2)
         /\ Len(todo) = 1 => At("write_hostname", 1)
<1>1. Saves
  BY WhereCallsAre DEF Preconfigures, SetsWifi, Unsets, Asks, Preconfigure, Unset
<1>2. \/ At("write_ca", 9) \/ At("write_signer", 8) \/ At("verify_signer", 7)
      \/ At("write_device", 6) \/ At("verify_device", 5) \/ At("read_slot8", 4)
      \/ At("write_flag_ssid", 3) \/ At("write_password", 2) \/ At("write_hostname", 1)
  BY <1>1 DEF Saves, WritesSlot8
<1>3. /\ Len(todo) \in 1 .. 9
      /\ (Len(todo) = 9 => Head(todo) = "write_ca")
      /\ (Len(todo) = 8 => Head(todo) = "write_signer")
      /\ (Len(todo) = 7 => Head(todo) = "verify_signer")
      /\ (Len(todo) = 6 => Head(todo) = "write_device")
      /\ (Len(todo) = 5 => Head(todo) = "verify_device")
      /\ (Len(todo) = 4 => Head(todo) = "read_slot8")
      /\ (Len(todo) = 3 => Head(todo) = "write_flag_ssid")
      /\ (Len(todo) = 2 => Head(todo) = "write_password")
      /\ (Len(todo) = 1 => Head(todo) = "write_hostname")
  <2> DEFINE h == Head(todo)
             n == Len(todo)
  <2>1. \/ h = "write_ca" /\ n = 9
        \/ h = "write_signer" /\ n = 8
        \/ h = "verify_signer" /\ n = 7
        \/ h = "write_device" /\ n = 6
        \/ h = "verify_device" /\ n = 5
        \/ h = "read_slot8" /\ n = 4
        \/ h = "write_flag_ssid" /\ n = 3
        \/ h = "write_password" /\ n = 2
        \/ h = "write_hostname" /\ n = 1
    BY <1>2 DEF At
  <2> HIDE DEF h, n
  <2>2. /\ n \in 1 .. 9
        /\ (n = 9 => h = "write_ca") /\ (n = 8 => h = "write_signer")
        /\ (n = 7 => h = "verify_signer") /\ (n = 6 => h = "write_device")
        /\ (n = 5 => h = "verify_device") /\ (n = 4 => h = "read_slot8")
        /\ (n = 3 => h = "write_flag_ssid") /\ (n = 2 => h = "write_password")
        /\ (n = 1 => h = "write_hostname")
    BY <2>1
  <2> QED
    BY <2>2, Zenon DEF h, n
<1> QED
  BY <1>1, <1>3, Zenon DEF At

CertsThere(c) == None \notin {c.signerCa, c.signer, c.device}

\* An offer is something, and it is known.
LEMMA OffersAreSome ==
  ASSUME NEW x \in Offers \cup Wifis
  PROVE  x # None /\ x # Unknown
BY ProvisioningAssumption

\* Only saveCredentials writes certificates, and it writes some.
LEMMA CertsStay ==
  ASSUME TypeOK, InOrder, todo # << >>, NEW c \in {chip} \cup After(Head(todo))
  PROVE  CertsThere(chip) => CertsThere(c)
<1>1. CASE c = chip
  BY <1>1
<1>2. CASE c \in After(Head(todo))
  <2>1. CertsFrom(c) /\ (Saves => command.arg \in Offers)
    BY <1>2, CallMoves
  <2>2. At("write_ca", 9) \/ At("write_signer", 8) \/ At("write_device", 6) => Saves
    BY WhereCallsAre DEF Preconfigures, SetsWifi, Unsets, Saves, Asks, WritesSlot8, At
  <2> QED
    BY <2>1, <2>2, OffersAreSome DEF CertsFrom, CertsThere
<1> QED
  BY <1>1, <1>2

\* saveCredentials writes its certificates first.
LEMMA FlagStageStep ==
  ASSUME TypeOK, InOrder, FlagIsLast, FlagStage, [Next]_vars
  PROVE  FlagIsLast' /\ FlagStage'
<1>1. CASE Call
  <2>1. /\ todo # << >> /\ chip' \in After(Head(todo)) /\ command' = command
        /\ metadata' = IF Head(todo) = "read_slot8" THEN Image(command, chip.slot8) ELSE metadata
    BY <1>1 DEF Call
  <2>2. /\ CertsFrom(chip') /\ Slot8From(chip') /\ (Saves => command.arg \in Offers)
        /\ CertsThere(chip) => CertsThere(chip')
    BY <2>1, CallMoves, CertsStay
  <2>3. chip.slot8.aws_flag => CertsThere(chip)
    BY DEF FlagIsLast, CertsThere
  <2>4. metadata.aws_flag => CertsThere(chip)
    BY DEF FlagStage, CertsThere
  <2>5. FlagIsLast'
    <3>1. chip'.slot8.aws_flag => metadata.aws_flag \/ chip.slot8.aws_flag
      BY <2>2 DEF Slot8From
    <3> QED
      BY <3>1, <2>2, <2>3, <2>4 DEF FlagIsLast, CertsThere
  <2>6. command'.method = "saveCredentials" =>
          /\ Before(8)' \/ chip'.signerCa = command'.arg
          /\ Before(7)' \/ chip'.signer = command'.arg
          /\ Before(5)' \/ chip'.device = command'.arg
    <3> SUFFICES ASSUME command.method = "saveCredentials"
                 PROVE  /\ Before(8)' \/ chip'.signerCa = command.arg
                        /\ Before(7)' \/ chip'.signer = command.arg
                        /\ Before(5)' \/ chip'.device = command.arg
      BY <2>1
    <3>1. \A n \in {8, 7, 5} : Before(n)' \/ ~Before(n) \/ Len(todo) = n + 1
      BY <1>1, OneCallFurther
    <3>2. /\ Before(8)' \/ ~Before(8) \/ At("write_ca", 9)
          /\ Before(7)' \/ ~Before(7) \/ At("write_signer", 8)
          /\ Before(5)' \/ ~Before(5) \/ At("write_device", 6)
      BY <3>1, <2>1, WhereSaveIs
    <3>3. /\ ~Before(8) => chip.signerCa = command.arg
          /\ ~Before(7) => chip.signer = command.arg
          /\ ~Before(5) => chip.device = command.arg
      BY DEF FlagStage
    <3> QED
      BY <2>2, <3>2, <3>3, Zenon DEF CertsFrom
  <2>7. metadata'.aws_flag => CertsThere(chip')
    <3>1. CASE Head(todo) # "read_slot8"
      BY <3>1, <2>1, <2>2, <2>4
    <3>2. CASE Head(todo) = "read_slot8"
      <4>1. chip.slot8 \in Metadata /\ metadata' = Image(command, chip.slot8)
        BY <2>1, <3>2 DEF TypeOK, Chip
      <4>2. SetsWifi \/ (Saves /\ At("read_slot8", 4))
        BY <2>1, <3>2, WhereCallsAre
           DEF Preconfigures, SetsWifi, Unsets, Saves, Asks, WritesSlot8, At
      <4>3. CASE SetsWifi
        <5>1. metadata'.aws_flag = chip.slot8.aws_flag
          BY <4>1, <4>3 DEF SetsWifi, Image, Metadata
        <5> QED
          BY <5>1, <2>2, <2>3
      <4>4. CASE Saves /\ At("read_slot8", 4)
        <5>1. ~Before(8) /\ ~Before(7) /\ ~Before(5)
          BY <4>4 DEF At, Before
        <5>2. chip.signerCa = command.arg /\ chip.signer = command.arg /\ chip.device = command.arg
          BY <4>4, <5>1, Zenon DEF FlagStage, Saves
        <5> QED
          BY <2>2, <4>4, <5>2, OffersAreSome DEF CertsThere
      <4> QED
        BY <4>2, <4>3, <4>4
    <3> QED
      BY <3>1, <3>2
  <2> QED
    BY <2>5, <2>6, <2>7 DEF FlagStage, CertsThere
<1>2. CASE CallFails
  <2>1. /\ todo # << >> /\ chip' \in {chip} \cup After(Head(todo)) /\ UNCHANGED << command, metadata >>
    BY <1>2 DEF CallFails
  <2>2. CertsThere(chip) => CertsThere(chip')
    BY <2>1, CertsStay
  <2>3. chip'.slot8.aws_flag => metadata.aws_flag \/ chip.slot8.aws_flag
    BY <2>1, CallMoves DEF Slot8From
  <2>4. Before(8)' /\ Before(7)' /\ Before(5)'
    BY <1>2, FailureEnds
  <2> QED
    BY <2>1, <2>2, <2>3, <2>4 DEF FlagIsLast, FlagStage, CertsThere
<1>3. ASSUME NEW c \in Commands, Receive(c)
      PROVE  FlagIsLast' /\ FlagStage'
  <2>1. c.method = "saveCredentials" => Len(todo') = 9
    BY <1>3, SaveCalls DEF Receive, Calls
  <2>2. c.method = "saveCredentials" => Before(8)' /\ Before(7)' /\ Before(5)'
    BY <2>1 DEF Before
  <2> QED
    BY <1>3, <2>2 DEF Receive, FlagIsLast, FlagStage, Zeros
<1>4. CASE Answer \/ PowerCycle
  <2>1. ~metadata'.aws_flag /\ command'.method # "saveCredentials"
    BY <1>4 DEF Answer, PowerCycle, Zeros, NoCommand
  <2>2. /\ chip'.slot8 = chip.slot8 /\ chip'.signerCa = chip.signerCa
        /\ chip'.signer = chip.signer /\ chip'.device = chip.device
    BY <1>4 DEF Answer, PowerCycle, TypeOK, Chip
  <2> QED
    BY <2>1, <2>2 DEF FlagIsLast, FlagStage
<1>5. CASE Sw1Pressed \/ PreconfigureReturns
  <2>1. command'.method # "saveCredentials" /\ UNCHANGED << chip, metadata >>
    BY <1>5 DEF Sw1Pressed, PreconfigureReturns, Preconfigure, NoCommand
  <2> QED
    BY <2>1 DEF FlagIsLast, FlagStage
<1>6. CASE UNCHANGED << command, todo, metadata, chip >>
  BY <1>6 DEF FlagIsLast, FlagStage, Before
<1>7. \/ Call \/ CallFails \/ (\E c \in Commands : Receive(c)) \/ Answer \/ PowerCycle
      \/ Sw1Pressed \/ PreconfigureReturns \/ UNCHANGED << command, todo, metadata, chip >>
  BY DEF Next, vars, Detect, InitDone, LeaveTask
<1> QED
  BY <1>1, <1>2, <1>3, <1>4, <1>5, <1>6, <1>7

\* Where setWifi, genKey and resetKit are.
LEMMA WhereRecordIs ==
  ASSUME TypeOK, InOrder, todo # << >>, command.method \in Unset \cup {"setWifi"}
  PROVE  /\ SetsWifi \/ Unsets
         /\ command.method = "setWifi" => SetsWifi
         /\ command.method \in Unset => Unsets /\ Head(todo) # "read_slot8"
         /\ Len(todo) \in 1 .. 4
         /\ Len(todo) = 4 => Head(todo) \in {"read_slot8", "genkey"}
         /\ Len(todo) = 3 => At("write_flag_ssid", 3)
         /\ Len(todo) = 2 => At("write_password", 2)
         /\ Len(todo) = 1 => At("write_hostname", 1)
<1>1. SetsWifi \/ Unsets
  BY WhereCallsAre DEF Preconfigures, Saves, Asks, Preconfigure, Unset
<1>2. \/ At("read_slot8", 4) \/ At("genkey", 4)
      \/ At("write_flag_ssid", 3) \/ At("write_password", 2) \/ At("write_hostname", 1)
  BY <1>1 DEF SetsWifi, Unsets, WritesSlot8
<1>3. /\ Len(todo) \in 1 .. 4
      /\ Len(todo) = 4 => Head(todo) \in {"read_slot8", "genkey"}
      /\ Len(todo) = 3 => Head(todo) = "write_flag_ssid"
      /\ Len(todo) = 2 => Head(todo) = "write_password"
      /\ Len(todo) = 1 => Head(todo) = "write_hostname"
  <2> DEFINE h == Head(todo)
             n == Len(todo)
  <2>1. \/ h = "read_slot8" /\ n = 4
        \/ h = "genkey" /\ n = 4
        \/ h = "write_flag_ssid" /\ n = 3
        \/ h = "write_password" /\ n = 2
        \/ h = "write_hostname" /\ n = 1
    BY <1>2 DEF At
  <2> HIDE DEF h, n
  <2>2. /\ n \in 1 .. 4
        /\ n = 4 => h \in {"read_slot8", "genkey"}
        /\ n = 3 => h = "write_flag_ssid"
        /\ n = 2 => h = "write_password"
        /\ n = 1 => h = "write_hostname"
    BY <2>1
  <2> QED
    BY <2>2, Zenon DEF h, n
<1>4. /\ command.method = "setWifi" => SetsWifi
      /\ command.method \in Unset => Unsets
  BY <1>1 DEF SetsWifi, Unsets, Unset
<1>5. Unsets => Head(todo) # "read_slot8"
  BY DEF Unsets, WritesSlot8, At
<1> QED
  BY <1>1, <1>3, <1>4, <1>5, Zenon DEF At

\* A call changes nothing the host has been told of.
LEMMA ToldStays ==
  ASSUME TypeOK, InOrder, AddressIsKept, Kept, todo # << >>,
         NEW c \in {chip} \cup After(Head(todo))
  PROVE  /\ told.wifi # Unknown => SameWifi(c)
         /\ told.cloud # Unknown => SameCloud(c) /\ SameCerts(c) /\ SameKey(c)
<1>1. CASE c = chip
  BY <1>1 DEF SameWifi, SameCloud, SameCerts, SameKey
<1>2. CASE c \in After(Head(todo))
  <2>1. /\ CertsFrom(c) /\ Slot8From(c)
        /\ SameKey(c) \/ command = Preconfigure \/ command.method = "genKey"
    BY <1>2, CallMoves
  <2>2. ASSUME told.wifi # Unknown
        PROVE  SameWifi(c)
    <3>1. ~SetsWifi /\ ~Unsets
      BY <2>2 DEF Kept, SetsWifi, Unsets
    <3>2. CASE WritesSlot8
      <4>1. Saves
        BY <3>1, <3>2, WhereCallsAre DEF Preconfigures, Asks, WritesSlot8, At
      <4>2. ~Before(3)
        BY <3>2 DEF WritesSlot8, At, Before
      <4>3. /\ metadata.wifi_flag = chip.slot8.wifi_flag /\ metadata.ssid = chip.slot8.ssid
            /\ metadata.wifi_password = chip.slot8.wifi_password
        BY <4>1, <4>2, Zenon DEF Kept, Saves
      <4> QED
        BY <2>1, <4>3 DEF Slot8From, SameWifi
    <3>3. CASE ~WritesSlot8
      BY <2>1, <3>3 DEF Slot8From, SameWifi, WritesSlot8
    <3> QED
      BY <3>2, <3>3
  <2>3. ASSUME told.cloud # Unknown
        PROVE  SameCloud(c) /\ SameCerts(c) /\ SameKey(c)
    <3>1. ~Saves /\ ~Unsets /\ ~Preconfigures /\ command # Preconfigure /\ command.method # "genKey"
      BY <2>3 DEF Kept, Saves, Unsets, Unset, AddressIsKept, Preconfigures
    <3>2. SetsWifi \/ Asks
      BY <3>1, WhereCallsAre
    <3>3. SameCerts(c)
      BY <2>1, <3>2 DEF CertsFrom, SameCerts, SetsWifi, Asks, WritesSlot8, At
    <3>4. CASE WritesSlot8
      <4>1. SetsWifi
        BY <3>2, <3>4 DEF Asks, WritesSlot8, At
      <4>2. ~Before(3)
        BY <3>4 DEF WritesSlot8, At, Before
      <4>3. metadata.aws_flag = chip.slot8.aws_flag /\ metadata.hostname = chip.slot8.hostname
        BY <4>1, <4>2, Zenon DEF Kept, SetsWifi
      <4> QED
        BY <2>1, <3>1, <3>3, <4>3 DEF Slot8From, SameCloud
    <3>5. CASE ~WritesSlot8
      BY <2>1, <3>1, <3>3, <3>5 DEF Slot8From, SameCloud, WritesSlot8
    <3> QED
      BY <3>4, <3>5
  <2> QED
    BY <2>2, <2>3
<1> QED
  BY <1>1, <1>2

\* Commands keep out of the way of what they do not change.
LEMMA KeptStep ==
  ASSUME TypeOK, InOrder, Kept, [Next]_vars
  PROVE  Kept'
<1>1. CASE Call
  <2>1. /\ todo # << >> /\ chip' \in After(Head(todo)) /\ UNCHANGED << command, told >>
        /\ metadata' = IF Head(todo) = "read_slot8" THEN Image(command, chip.slot8) ELSE metadata
    BY <1>1 DEF Call
  <2>2. Slot8From(chip')
    BY <2>1, CallMoves
  <2>3. Before(3)' \/ ~Before(3) \/ Len(todo) = 4
    BY <1>1, OneCallFurther
  <2>4. chip.slot8 \in Metadata
    BY DEF TypeOK, Chip
  <2>5. ASSUME command.method = "setWifi"
        PROVE  Before(3)' \/ (metadata'.aws_flag = chip'.slot8.aws_flag
                              /\ metadata'.hostname = chip'.slot8.hostname)
    <3>1. SetsWifi
      BY <2>1, <2>5, WhereRecordIs
    <3>2. CASE ~Before(3)
      <4>1. metadata.aws_flag = chip.slot8.aws_flag /\ metadata.hostname = chip.slot8.hostname
        BY <2>5, <3>2 DEF Kept
      <4>2. Head(todo) # "read_slot8"
        BY <3>1, <3>2 DEF SetsWifi, WritesSlot8, At, Before
      <4> QED
        BY <2>1, <2>2, <4>1, <4>2 DEF Slot8From
    <3>3. CASE Len(todo) = 4
      <4>1. At("read_slot8", 4)
        BY <3>1, <3>3 DEF SetsWifi, WritesSlot8, At
      <4>2. metadata'.aws_flag = chip.slot8.aws_flag /\ metadata'.hostname = chip.slot8.hostname
        BY <2>1, <2>4, <2>5, <4>1 DEF At, Image, Metadata
      <4> QED
        BY <2>2, <4>1, <4>2 DEF Slot8From, At
    <3> QED
      BY <2>3, <3>2, <3>3
  <2>6. ASSUME command.method = "saveCredentials"
        PROVE  Before(3)' \/ (metadata'.wifi_flag = chip'.slot8.wifi_flag
                              /\ metadata'.ssid = chip'.slot8.ssid
                              /\ metadata'.wifi_password = chip'.slot8.wifi_password)
    <3>1. Saves
      BY <2>1, <2>6, WhereSaveIs
    <3>2. CASE ~Before(3)
      <4>1. /\ metadata.wifi_flag = chip.slot8.wifi_flag /\ metadata.ssid = chip.slot8.ssid
            /\ metadata.wifi_password = chip.slot8.wifi_password
        BY <2>6, <3>2 DEF Kept
      <4>2. Head(todo) # "read_slot8"
        BY <3>1, <3>2 DEF Saves, WritesSlot8, At, Before
      <4> QED
        BY <2>1, <2>2, <4>1, <4>2 DEF Slot8From
    <3>3. CASE Len(todo) = 4
      <4>1. At("read_slot8", 4)
        BY <2>1, <2>6, <3>3, WhereSaveIs
      <4>2. /\ metadata'.wifi_flag = chip.slot8.wifi_flag /\ metadata'.ssid = chip.slot8.ssid
            /\ metadata'.wifi_password = chip.slot8.wifi_password
        BY <2>1, <2>4, <2>6, <4>1 DEF At, Image, Metadata
      <4> QED
        BY <2>2, <4>1, <4>2 DEF Slot8From, At
    <3> QED
      BY <2>3, <3>2, <3>3
  <2> QED
    BY <2>1, <2>5, <2>6 DEF Kept
<1>2. CASE CallFails
  <2>1. Before(3)' /\ UNCHANGED << command, told >>
    BY <1>2, FailureEnds DEF CallFails
  <2> QED
    BY <2>1 DEF Kept
<1>3. ASSUME NEW c \in Commands, Receive(c)
      PROVE  Kept'
  <2>1. /\ c.method = "setWifi" => Len(todo') = 4
        /\ c.method = "saveCredentials" => Len(todo') = 9
    BY <1>3, SaveCalls, Slot8Calls DEF Receive, Calls
  <2>2. c.method \in {"setWifi", "saveCredentials"} => Before(3)'
    BY <2>1 DEF Before
  <2> QED
    BY <1>3, <2>2 DEF Receive, Kept, Doubted
<1>4. CASE Answer \/ PowerCycle \/ Sw1Pressed \/ PreconfigureReturns
  <2>1. command' \in {NoCommand, Preconfigure}
    BY <1>4 DEF Answer, PowerCycle, Sw1Pressed, PreconfigureReturns
  <2> QED
    BY <2>1 DEF Kept, NoCommand, Preconfigure, Unset
<1>5. CASE UNCHANGED << command, todo, metadata, chip, told >>
  BY <1>5 DEF Kept, Before
<1>6. \/ Call \/ CallFails \/ (\E c \in Commands : Receive(c)) \/ Answer \/ PowerCycle
      \/ Sw1Pressed \/ PreconfigureReturns \/ UNCHANGED << command, todo, metadata, chip, told >>
  BY DEF Next, vars, Detect, InitDone, LeaveTask
<1> QED
  BY <1>1, <1>2, <1>3, <1>4, <1>5, <1>6

\* Where no command is in progress, no stage is reached.
LEMMA NoCommandNoStage ==
  ASSUME command \in {NoCommand, Preconfigure}
  PROVE  Stages
BY DEF Stages, WifiStage, UnsetStage, CloudStage, NoCommand, Preconfigure, Unset

\* A call of setWifi reaches the next stage, ...
LEMMA WifiStageCall ==
  ASSUME TypeOK, InOrder, WifiStage, Call
  PROVE  WifiStage'
<1>1. /\ todo # << >> /\ chip' \in After(Head(todo)) /\ UNCHANGED command
      /\ metadata' = IF Head(todo) = "read_slot8" THEN Image(command, chip.slot8) ELSE metadata
  BY DEF Call
<1>2. Slot8From(chip')
  BY <1>1, CallMoves
<1> SUFFICES ASSUME command.method = "setWifi"
             PROVE  /\ Within(3)' => metadata'.wifi_flag /\ metadata'.ssid = command.arg
                                     /\ metadata'.wifi_password = command.arg
                    /\ Within(2)' => chip'.slot8.wifi_flag /\ chip'.slot8.ssid = command.arg
                    /\ Within(1)' => chip'.slot8.wifi_password = command.arg
  BY <1>1 DEF WifiStage
<1>3. SetsWifi
  BY <1>1, WhereRecordIs
<1>4. \A n \in Nat : Within(n)' => Within(n) \/ (status /\ Len(todo) = n + 1)
  BY OneCallFurther
<1>5. /\ Within(3)' => Within(3) \/ At("read_slot8", 4)
      /\ Within(2)' => Within(2) \/ (status /\ At("write_flag_ssid", 3))
      /\ Within(1)' => Within(1) \/ (status /\ At("write_password", 2))
  <2>1. /\ Within(3)' => Within(3) \/ (status /\ Len(todo) = 3 + 1)
        /\ Within(2)' => Within(2) \/ (status /\ Len(todo) = 2 + 1)
        /\ Within(1)' => Within(1) \/ (status /\ Len(todo) = 1 + 1)
    BY <1>4
  <2>2. /\ Len(todo) = 3 + 1 => At("read_slot8", 4)
        /\ Len(todo) = 2 + 1 => At("write_flag_ssid", 3)
        /\ Len(todo) = 1 + 1 => At("write_password", 2)
    <3>1. /\ Len(todo) = 4 => At("read_slot8", 4)
          /\ Len(todo) = 3 => At("write_flag_ssid", 3)
          /\ Len(todo) = 2 => At("write_password", 2)
      BY <1>3 DEF SetsWifi, WritesSlot8, At
    <3> QED
      BY <3>1
  <2> QED
    BY <2>1, <2>2
<1>6. At("read_slot8", 4) =>
        metadata'.wifi_flag /\ metadata'.ssid = command.arg /\ metadata'.wifi_password = command.arg
  <2>1. chip.slot8 \in Metadata
    BY DEF TypeOK, Chip
  <2> QED
    BY <1>1, <2>1 DEF At, Image, Metadata
<1>7. Within(3) => Head(todo) # "read_slot8"
  BY <1>3 DEF SetsWifi, WritesSlot8, At, Within
<1>8. /\ Within(2) => Within(3) /\ ~At("write_flag_ssid", 3)
      /\ Within(1) => Within(3) /\ ~At("write_password", 2)
      /\ status /\ At("write_flag_ssid", 3) => Within(3)
      /\ status /\ At("write_password", 2) => Within(3)
  BY <1>3 DEF SetsWifi, WritesSlot8, At, Within
<1>9. /\ Within(3) => metadata.wifi_flag /\ metadata.ssid = command.arg
                      /\ metadata.wifi_password = command.arg
      /\ Within(2) => chip.slot8.wifi_flag /\ chip.slot8.ssid = command.arg
      /\ Within(1) => chip.slot8.wifi_password = command.arg
  BY DEF WifiStage
<1> QED
  BY <1>1, <1>2, <1>5, <1>6, <1>7, <1>8, <1>9 DEF Slot8From

\* ... so does one of genKey and resetKit, ...
LEMMA UnsetStageCall ==
  ASSUME TypeOK, InOrder, UnsetStage, Call
  PROVE  UnsetStage'
<1>1. /\ todo # << >> /\ chip' \in After(Head(todo)) /\ UNCHANGED command
      /\ metadata' = IF Head(todo) = "read_slot8" THEN Image(command, chip.slot8) ELSE metadata
  BY DEF Call
<1>2. Slot8From(chip')
  BY <1>1, CallMoves
<1> SUFFICES ASSUME command.method \in Unset
             PROVE  /\ metadata' = Zeros
                    /\ Within(2)' => /\ ~chip'.slot8.wifi_flag /\ chip'.slot8.ssid = None
                                     /\ ~chip'.slot8.aws_flag
                    /\ Within(0)' => chip'.slot8.hostname = None
  BY <1>1 DEF UnsetStage
<1>3. Unsets /\ Head(todo) # "read_slot8"
  BY <1>1, WhereRecordIs
<1>4. metadata = Zeros /\ metadata' = Zeros
  BY <1>1, <1>3 DEF UnsetStage
<1>5. /\ Within(2)' => Within(2) \/ (status /\ Len(todo) = 2 + 1)
      /\ Within(0)' => Within(0) \/ (status /\ Len(todo) = 0 + 1)
  BY OneCallFurther
<1>6. /\ Len(todo) = 3 => At("write_flag_ssid", 3)
      /\ Len(todo) = 1 => At("write_hostname", 1)
  BY <1>1, WhereRecordIs
<1>7. Within(2) => ~At("write_flag_ssid", 3)
  <2>1. Len(todo) <= 2 => Len(todo) # 3
    OBVIOUS
  <2> QED
    BY <2>1, Zenon DEF At, Within
<1>8. ~Within(0)
  BY OneCallFurther DEF Within
<1>9. Within(2) => ~chip.slot8.wifi_flag /\ chip.slot8.ssid = None /\ ~chip.slot8.aws_flag
  BY DEF UnsetStage
<1> QED
  BY <1>2, <1>4, <1>5, <1>6, <1>7, <1>8, <1>9 DEF Slot8From, Zeros

\* ... and one of saveCredentials.
LEMMA CloudStageCall ==
  ASSUME TypeOK, InOrder, CloudStage, Call
  PROVE  CloudStage'
<1>1. /\ todo # << >> /\ chip' \in After(Head(todo)) /\ UNCHANGED command
      /\ metadata' = IF Head(todo) = "read_slot8" THEN Image(command, chip.slot8) ELSE metadata
  BY DEF Call
<1>2. /\ CertsFrom(chip') /\ Slot8From(chip')
      /\ SameKey(chip') \/ command = Preconfigure \/ command.method = "genKey"
      /\ At("verify_signer", 7) => chip.signer = command.arg /\ chip.signer.chained
      /\ At("verify_device", 5) => chip.device.key = chip.deviceKey /\ chip.device = command.arg
  BY <1>1, CallMoves
<1> SUFFICES ASSUME command.method = "saveCredentials"
             PROVE  /\ Within(8)' => chip'.signerCa = command.arg
                    /\ Within(7)' => chip'.signer = command.arg
                    /\ Within(6)' => command.arg.chained
                    /\ Within(5)' => chip'.device = command.arg
                    /\ Within(4)' => command.arg.key = chip'.deviceKey
                    /\ Within(3)' => metadata'.aws_flag /\ metadata'.hostname = command.arg
                    /\ Within(2)' => chip'.slot8.aws_flag
                    /\ Within(0)' => chip'.slot8.hostname = command.arg
  BY <1>1 DEF CloudStage
<1>3. SameKey(chip')
  BY <1>2 DEF Preconfigure
<1>4. /\ Within(8)' => Within(8) \/ (status /\ Len(todo) = 8 + 1)
      /\ Within(7)' => Within(7) \/ (status /\ Len(todo) = 7 + 1)
      /\ Within(6)' => Within(6) \/ (status /\ Len(todo) = 6 + 1)
      /\ Within(5)' => Within(5) \/ (status /\ Len(todo) = 5 + 1)
      /\ Within(4)' => Within(4) \/ (status /\ Len(todo) = 4 + 1)
      /\ Within(3)' => Within(3) \/ (status /\ Len(todo) = 3 + 1)
      /\ Within(2)' => Within(2) \/ (status /\ Len(todo) = 2 + 1)
      /\ Within(0)' => Within(0) \/ (status /\ Len(todo) = 0 + 1)
  BY OneCallFurther
<1>5. /\ Len(todo) = 9 => At("write_ca", 9)
      /\ Len(todo) = 8 => At("write_signer", 8)
      /\ Len(todo) = 7 => At("verify_signer", 7)
      /\ Len(todo) = 6 => At("write_device", 6)
      /\ Len(todo) = 5 => At("verify_device", 5)
      /\ Len(todo) = 4 => At("read_slot8", 4)
      /\ Len(todo) = 3 => At("write_flag_ssid", 3)
      /\ Len(todo) = 1 => At("write_hostname", 1)
  BY <1>1, WhereSaveIs
<1>6. /\ At("write_flag_ssid", 3) => Len(todo) = 3
      /\ At("write_hostname", 1) => Len(todo) = 1
      /\ Len(todo) \in Nat \ {0}
  BY OneCallFurther DEF At
<1>15. ASSUME NEW n \in Nat \ {0}
      PROVE  /\ n = 3 => n <= 3
             /\ n = 1 => n <= 3
             /\ ~(n <= 0)
             /\ n <= 2 => n # 3
             /\ n <= 3 => n # 4
  OBVIOUS
<1>7. /\ status /\ Len(todo) = 3 => Within(3)
      /\ status /\ Len(todo) = 1 => Within(3)
      /\ ~Within(0)
      /\ Within(2) => ~At("write_flag_ssid", 3)
  <2>1. /\ Len(todo) = 3 => Len(todo) <= 3
        /\ Len(todo) = 1 => Len(todo) <= 3
        /\ ~(Len(todo) <= 0)
        /\ Len(todo) <= 2 => Len(todo) # 3
    BY <1>6, <1>15, Zenon
  <2> QED
    BY <1>6, <2>1, Zenon DEF Within
<1>8. Within(3) => Head(todo) # "read_slot8"
  <2>1. Within(3) => Len(todo) # 4
    <3>1. Len(todo) <= 3 => Len(todo) # 4
      BY <1>6, <1>15, Zenon
    <3> QED
      BY <3>1, Zenon DEF Within
  <2>2. Head(todo) = "read_slot8" => Len(todo) = 4
    BY <1>1, WhereSaveIs DEF Saves, WritesSlot8, At
  <2> QED
    BY <2>1, <2>2
<1>9. At("read_slot8", 4) => metadata'.aws_flag /\ metadata'.hostname = command.arg
  <2>1. chip.slot8 \in Metadata
    BY DEF TypeOK, Chip
  <2> QED
    BY <1>1, <2>1 DEF At, Image, Metadata
<1>10. /\ Within(8) => chip.signerCa = command.arg
       /\ Within(7) => chip.signer = command.arg
       /\ Within(6) => command.arg.chained
       /\ Within(5) => chip.device = command.arg
       /\ Within(4) => command.arg.key = chip.deviceKey
       /\ Within(3) => metadata.aws_flag /\ metadata.hostname = command.arg
       /\ Within(2) => chip.slot8.aws_flag
  BY DEF CloudStage
<1>11. /\ Within(8)' => chip'.signerCa = command.arg
       /\ Within(7)' => chip'.signer = command.arg
       /\ Within(6)' => command.arg.chained
       /\ Within(5)' => chip'.device = command.arg
  BY <1>2, <1>4, <1>5, <1>10 DEF CertsFrom
<1>12. Within(4)' => command.arg.key = chip'.deviceKey
  BY <1>2, <1>3, <1>4, <1>5, <1>10 DEF SameKey
<1>13. Within(3)' => metadata'.aws_flag /\ metadata'.hostname = command.arg
  BY <1>1, <1>4, <1>5, <1>8, <1>9, <1>10
<1>14. /\ Within(2)' => chip'.slot8.aws_flag
       /\ Within(0)' => chip'.slot8.hostname = command.arg
  BY <1>2, <1>4, <1>5, <1>7, <1>10 DEF Slot8From
<1> QED
  BY <1>11, <1>12, <1>13, <1>14

\* A command reaches its stages one call after the other, and none when it fails.
LEMMA StagesStep ==
  ASSUME TypeOK, InOrder, AddressIsKept, Stages, [Next]_vars
  PROVE  Stages'
<1>1. CASE Call
  BY <1>1, WifiStageCall, UnsetStageCall, CloudStageCall DEF Stages
<1>2. CASE CallFails
  <2>1. UNCHANGED << command, metadata >>
    BY <1>2 DEF CallFails
  <2>2. CASE command \in Commands
    <3>1. \A n \in Nat : ~Within(n)'
      BY <1>2, <2>2, FailureEnds
    <3>2. UnsetStage => (command.method \in Unset => metadata = Zeros)
      BY DEF UnsetStage
    <3> QED
      BY <2>1, <3>1, <3>2 DEF Stages, WifiStage, UnsetStage, CloudStage
  <2>3. CASE command \notin Commands
    <3>1. command' \in {NoCommand, Preconfigure}
      BY <2>1, <2>3 DEF TypeOK
    <3> QED
      BY <3>1 DEF Stages, WifiStage, UnsetStage, CloudStage, NoCommand, Preconfigure, Unset
  <2> QED
    BY <2>2, <2>3
<1>3. ASSUME NEW c \in Commands, Receive(c)
      PROVE  Stages'
  <2>1. /\ c.method = "setWifi" => Len(todo') = 4
        /\ c.method = "genKey" => Len(todo') = 4
        /\ c.method = "resetKit" => Len(todo') = 3
        /\ c.method = "saveCredentials" => Len(todo') = 9
    BY <1>3, SaveCalls, Slot8Calls DEF Receive, Calls, ResetKitCalls
  <2>2. /\ c.method = "setWifi" => \A n \in 0 .. 3 : ~Within(n)'
        /\ c.method \in Unset => \A n \in 0 .. 2 : ~Within(n)'
        /\ c.method = "saveCredentials" => \A n \in 0 .. 8 : ~Within(n)'
    <3>1. /\ c.method = "setWifi" => \A n \in 0 .. 3 : ~(Len(todo') <= n)
          /\ c.method \in Unset => \A n \in 0 .. 2 : ~(Len(todo') <= n)
          /\ c.method = "saveCredentials" => \A n \in 0 .. 8 : ~(Len(todo') <= n)
      <4>1. ASSUME NEW k
            PROVE  /\ k = 3 \/ k = 4 => \A n \in 0 .. 2 : ~(k <= n)
                   /\ k = 4 => \A n \in 0 .. 3 : ~(k <= n)
                   /\ k = 9 => \A n \in 0 .. 8 : ~(k <= n)
        OBVIOUS
      <4>2. c.method \in Unset => Len(todo') = 3 \/ Len(todo') = 4
        BY <2>1, Zenon DEF Unset
      <4> QED
        BY <2>1, <4>1, <4>2, Zenon
    <3>2. ASSUME NEW n, ~(Len(todo') <= n)
          PROVE  ~Within(n)'
      BY <3>2, Zenon DEF Within
    <3> QED
      BY <3>1, <3>2
  <2> QED
    BY <1>3, <2>2 DEF Receive, Stages, WifiStage, UnsetStage, CloudStage
<1>4. CASE command' \in {NoCommand, Preconfigure}
  BY <1>4 DEF Stages, WifiStage, UnsetStage, CloudStage, NoCommand, Preconfigure, Unset
<1>5. CASE UNCHANGED << command, todo, status, metadata, chip >>
  BY <1>5 DEF Stages, WifiStage, UnsetStage, CloudStage, Within
<1>6. Detect \/ InitDone => command' \in {NoCommand, Preconfigure}
  <2>1. Detect \/ InitDone => ~inKit /\ command' = command
    BY DEF Detect, InitDone, AddressIsKept
  <2> QED
    BY <2>1 DEF AddressIsKept, TypeOK
<1>7. \/ Call \/ CallFails \/ (\E c \in Commands : Receive(c))
      \/ command' \in {NoCommand, Preconfigure}
      \/ UNCHANGED << command, todo, status, metadata, chip >>
  BY <1>6 DEF Next, vars, Sw1Pressed, PreconfigureReturns, LeaveTask, Answer, PowerCycle
<1> QED
  BY <1>1, <1>2, <1>3, <1>4, <1>5, <1>7

\* What the host was told stays true.
LEMMA ToldStep ==
  ASSUME TypeOK, InOrder, AddressIsKept, Kept, Stages, ToldIsKept, [Next]_vars
  PROVE  ToldIsKept'
<1>1. CASE Call \/ CallFails
  <2>1. todo # << >> /\ chip' \in {chip} \cup After(Head(todo)) /\ told' = told
    BY <1>1 DEF Call, CallFails
  <2>2. /\ told.wifi # Unknown => SameWifi(chip')
        /\ told.cloud # Unknown => SameCloud(chip') /\ SameCerts(chip') /\ SameKey(chip')
    BY <2>1, ToldStays
  <2>3. /\ told.wifi \in Wifis \cup {None} => told.wifi # Unknown
        /\ told.cloud \in Offers \cup {None} => told.cloud # Unknown
    BY ProvisioningAssumption
  <2> QED
    BY <2>1, <2>2, <2>3 DEF ToldIsKept, SameWifi, SameCloud, SameCerts, SameKey
<1>2. ASSUME NEW c \in Commands, Receive(c)
      PROVE  ToldIsKept'
  <2>1. told'.wifi \in {told.wifi, Unknown} /\ told'.cloud \in {told.cloud, Unknown} /\ chip' = chip
    BY <1>2 DEF Receive, Doubted
  <2> QED
    BY <2>1, ProvisioningAssumption DEF ToldIsKept
<1>3. CASE Answer
  <2>1. /\ command \in Commands /\ chip' = chip
        /\ status => \A n \in Nat : Within(n)
    <3>1. command \in Commands
      BY <1>3 DEF Answer, TypeOK, AddressIsKept
    <3>2. chip' = chip /\ todo = << >>
      BY <1>3 DEF Answer
    <3>3. \A n \in Nat : Len(todo) <= n
      BY <3>2
    <3> QED
      BY <3>1, <3>2, <3>3, Zenon DEF Within
  <2>2. CASE ~status
    BY <1>3, <2>1, <2>2 DEF Answer, ToldIsKept
  <2>3. CASE status
    <3>1. told' = Learnt(command)
      BY <1>3, <2>3 DEF Answer
    <3>2. CASE command.method = "setWifi"
      <4>1. command.arg \in Wifis
        BY <2>1, <3>2 DEF Commands
      <4>2. told'.wifi = command.arg /\ told'.cloud = told.cloud
        BY <3>1, <3>2 DEF Learnt, Unset
      <4>3. /\ chip.slot8.wifi_flag /\ chip.slot8.ssid = command.arg
            /\ chip.slot8.wifi_password = command.arg
        BY <2>1, <2>3, <3>2 DEF Stages, WifiStage
      <4> QED
        BY <2>1, <4>1, <4>2, <4>3, ProvisioningAssumption DEF ToldIsKept
    <3>3. CASE command.method \in Unset
      <4>1. told'.wifi = None /\ told'.cloud = None
        BY <3>1, <3>3 DEF Learnt, Unset
      <4>2. /\ ~chip.slot8.wifi_flag /\ chip.slot8.ssid = None
            /\ ~chip.slot8.aws_flag /\ chip.slot8.hostname = None
        BY <2>1, <2>3, <3>3 DEF Stages, UnsetStage
      <4> QED
        BY <2>1, <4>1, <4>2, ProvisioningAssumption DEF ToldIsKept
    <3>4. CASE command.method = "saveCredentials"
      <4>1. command.arg \in Offers
        BY <2>1, <3>4 DEF Commands
      <4>2. told'.cloud = command.arg /\ told'.wifi = told.wifi
        BY <3>1, <3>4 DEF Learnt, Unset
      <4>3. /\ chip.slot8.aws_flag /\ chip.slot8.hostname = command.arg
            /\ chip.signerCa = command.arg /\ chip.signer = command.arg
            /\ chip.device = command.arg
            /\ command.arg.chained /\ command.arg.key = chip.deviceKey
        BY <2>1, <2>3, <3>4 DEF Stages, CloudStage
      <4> QED
        BY <2>1, <4>1, <4>2, <4>3, ProvisioningAssumption DEF ToldIsKept
    <3>5. CASE command.method \notin Unset \cup {"setWifi", "saveCredentials"}
      <4>1. told'.wifi = told.wifi /\ told'.cloud = told.cloud
        BY <3>1, <3>5 DEF Learnt
      <4> QED
        BY <2>1, <4>1 DEF ToldIsKept
    <3> QED
      BY <3>2, <3>3, <3>4, <3>5
  <2> QED
    BY <2>2, <2>3
<1>4. CASE PowerCycle
  <2>1. /\ chip'.slot8 = chip.slot8 /\ chip'.signerCa = chip.signerCa /\ told' = told
        /\ chip'.signer = chip.signer /\ chip'.device = chip.device
        /\ chip'.deviceKey = chip.deviceKey
    BY <1>4 DEF PowerCycle, TypeOK, Chip
  <2> QED
    BY <2>1 DEF ToldIsKept
<1>5. CASE UNCHANGED << chip, told >>
  BY <1>5 DEF ToldIsKept
<1>6. \/ Call \/ CallFails \/ (\E c \in Commands : Receive(c)) \/ Answer \/ PowerCycle
      \/ UNCHANGED << chip, told >>
  BY DEF Next, vars, Detect, Sw1Pressed, PreconfigureReturns, InitDone, LeaveTask
<1> QED
  BY <1>1, <1>2, <1>3, <1>4, <1>5, <1>6

----------------------------------------------------------------------------
(* The theorems. *)

\* The initial states satisfy the inductive invariant.
LEMMA InitInv ==
  Init => IInv
<1> SUFFICES ASSUME Init PROVE IInv
  OBVIOUS
<1>1. TypeOK
  BY DEF Init, TypeOK, States, NoCommand, Zeros, Metadata, BlankChip, Chip
<1>2. InOrder
  <2>1. List(command) \in Seq(CallNames)
    BY ListType DEF Init, Callers
  <2>2. todo = << >> /\ << >> \in Seq(CallNames) /\ Len(<< >>) = 0
    BY DEF Init
  <2> QED
    BY <2>1, <2>2, Ends DEF InOrder
<1>3. AddressIsKept
  BY DEF Init, AddressIsKept, BlankChip, NoCommand, Preconfigure, Commands
<1>4. PreconfigureStage /\ FlagIsLast /\ FlagStage /\ Kept
  BY DEF Init, PreconfigureStage, FlagIsLast, FlagStage, Kept, BlankChip, NoCommand, Preconfigure,
         Zeros, Unset
<1>5. Stages
  BY NoCommandNoStage DEF Init
<1>6. ToldIsKept
  BY ProvisioningAssumption DEF Init, ToldIsKept
<1> QED
  BY <1>1, <1>2, <1>3, <1>4, <1>5, <1>6 DEF IInv

\* The inductive invariant: where a command is in the order of its calls says
\* what of its credentials is stored, and nothing else moves.
THEOREM Invariance ==
  Spec => []IInv
<1>1. ASSUME IInv, [Next]_vars
      PROVE  IInv'
  BY <1>1, TypeStep, OrderStep, AddressStep, PreconfigureStep, FlagStageStep, KeptStep, StagesStep,
     ToldStep DEF IInv
<1> QED
  BY InitInv, <1>1, PTL DEF Spec

\* The types of the provisioning hold for every set of networks, keys and
\* offers.
THEOREM TypeCorrect ==
  Spec => []TypeOK
<1>1. IInv => TypeOK
  BY DEF IInv
<1> QED
  BY Invariance, <1>1, PTL

\* What a command has reported as stored stays stored, whole and verified,
\* over failing calls, power failures, half written records and the other
\* commands, which rewrite the same slot 8.
THEOREM ToldIsKeptAlways ==
  Spec => []ToldIsKept
<1>1. IInv => ToldIsKept
  BY DEF IInv
<1> QED
  BY Invariance, <1>1, PTL

\* A chip whose slot 8 says that it is provisioned has a CA key and both
\* certificates, wherever saveCredentials was cut short.
THEOREM FlagIsLastAlways ==
  Spec => []FlagIsLast
<1>1. IInv => FlagIsLast
  BY DEF IInv
<1> QED
  BY Invariance, <1>1, PTL

\* The configuration is locked only when all of it is written, and the data
\* zone only after it.
THEOREM LockIsLastAlways ==
  Spec => LockIsLast
<1>1. IInv /\ [Next]_vars =>
        [ /\ ~chip.configLocked /\ chip'.configLocked => chip.address = "aws" /\ chip.written
          /\ ~chip.dataLocked /\ chip'.dataLocked => chip.configLocked ]_vars
  BY LockStep DEF IInv
<1> QED
  BY Invariance, <1>1, PTL DEF Spec, LockIsLast
=============================================================================
