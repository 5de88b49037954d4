---------------------------- MODULE MCProxyNetwork ----------------------------
(***************************************************************************)
(* Small instances of ProxyNetwork for TLC: a server and two clients with  *)
(* one host each.                                                          *)
(***************************************************************************)
EXTENDS ProxyNetwork, TLC

CONSTANTS s, a, b,              \* the nodes
          hs, ha, hb, nobody,   \* addresses: one host each, and 0.0.0.0
          macS, macA, macB,     \* MACs of the nodes ...
          mhs, mha, mhb, bcMac  \* ... and of the hosts

MCNodeMac == (s :> macS) @@ (a :> macA) @@ (b :> macB)
MCHome    == (hs :> s) @@ (ha :> a) @@ (hb :> b)
MCHostMac == (hs :> mhs) @@ (ha :> mha) @@ (hb :> mhb)
MCMacs    == {macS, macA, macB, mhs, mha, mhb, bcMac}
MCConns   == UNION {IDs(c) : c \in {a, b}}

F(type, op, src, dst) ==
  [type |-> type, op |-> op, src |-> src, dst |-> dst, target |-> src,
   shost |-> MCHostMac[src], dhost |-> bcMac, sha |-> MCHostMac[src], lla |-> {}]

\* A host of each client and the server's talk to each other, one asks first.
Segmented == {F("ip4", "data", ha, hs), F("ip4", "data", hs, ha), F("ip4", "data", hb, ha)}

=============================================================================
