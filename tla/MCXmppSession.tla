---------------------------- MODULE MCXmppSession ----------------------------
(* Small instances of XmppSession for TLC: two pings may overlap. *)
EXTENDS XmppSession

CONSTANTS id1, id2
MCPingIds == {id1, id2}
=============================================================================
