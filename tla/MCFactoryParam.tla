--------------------------- MODULE MCFactoryParam ---------------------------
(* A device of three fields for TLC. *)
EXTENDS FactoryParam

CONSTANTS v1, v2
MCOrder  == <<"device_id", "xmpp_jid", "wlan_mac">>
MCValues == {v1, v2}
=============================================================================
