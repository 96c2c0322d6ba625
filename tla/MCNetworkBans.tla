---------------------------- MODULE MCNetworkBans ----------------------------
EXTENDS NetworkBans

Element(protocol, version, ip, port) ==
    [set |-> SetOf(protocol, version), ip |-> ip, port |-> port]

(* A remote address that scans with any two of its three TCP ports, which    *)
(* take two batches to delete, with both its UDP ports, but not with one of  *)
(* each, and one of a local network whose two ports would be a scan if it    *)
(* were remote.                                                              *)
SomeElements ==
    {Element("tcp", 4, "remote", port) : port \in {21, 23, 53}}
    \cup {Element("udp", 4, "remote", port) : port \in {137, 5060}}
    \cup {Element("tcp", 6, "local", port) : port \in {23, 25}}

(* Two remote scanners.                                                      *)
TwoScanners ==
    {Element("tcp", 4, ip, port) : ip \in {"remote", "other"}, port \in {21, 23}}

LocalIps == {"local"}
=============================================================================
