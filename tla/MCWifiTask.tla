----------------------------- MODULE MCWifiTask -----------------------------
(* Small instances of WifiTask for TLC. *)
EXTENDS WifiTask

\* Like MAIN_WLAN_*, a network with a pass phrase.
MCDefault == [ssid |-> "home", key |-> "pass", auth |-> "WPA_PSK"]
\* An open network the phone may offer, and an offer that fails the check.
MCOffers  == { [ssid |-> "home", key |-> "",     auth |-> "OPEN"],
               [ssid |-> "home", key |-> "pass", auth |-> "OPEN"] }
\* What a USB host may write.
MCUsbOffers == { [ssid |-> "home", key |-> "pass"] }
=============================================================================
