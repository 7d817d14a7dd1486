------------------------ MODULE MC_NetworkServerHelper ------------------------
(***************************************************************************)
(* A simulation script using NetworkServerHelper: after building the       *)
(* point-to-point links between the server and its gateways, it calls the  *)
(* helper's configuration methods in any order, any number of times, and   *)
(* Install, on one node or on a container of nodes, at most MaxInstalls    *)
(* times.                                                                  *)
(***************************************************************************)
EXTENDS NetworkServerHelper, FiniteSets

CONSTANTS
  Servers,       \* nodes the script may install the network server on
  Containers,    \* NodeContainers the script may pass to SetEndDevices
  MaxInstalls    \* bound on Install calls

VARIABLE installs

vars == <<nsVars, installs>>

Init == HelperInit /\ installs = 0

DoInstall(c) ==
  /\ installs < MaxInstalls
  /\ Install(c)
  /\ installs' = installs + 1

Next ==
  \/ \E n \in AttrNames : SetAttribute(n) /\ UNCHANGED installs
  \/ \E c \in Containers : SetEndDevices(c) /\ UNCHANGED installs
  \/ \E b \in BOOLEAN : EnableAdr(b) /\ UNCHANGED installs
  \/ \E t \in AdrTypes : SetAdr(t) /\ UNCHANGED installs
  \/ \E n \in Servers : DoInstall(<<n>>)
  \/ DoInstall(SetToSeq(Servers))

Spec == Init /\ [][Next]_vars

-----------------------------------------------------------------------------
\* The example scripts' topology: server 0 linked to gateways 1 and 2 with
\* p2p.Install (server, gw); a second server node 5 linked to gateway 1.
MCLinks == <<<<0, 1>>, <<0, 2>>, <<5, 1>>>>

\* The gateways a server node is linked to.
LinkedGateways(node) ==
  {Links[l][2] : l \in {l \in DOMAIN Links : Links[l][1] = node}}
    \cup {Links[l][1] : l \in {l \in DOMAIN Links : Links[l][2] = node}}

\* Every network server application registers exactly the gateways its
\* node is linked to, each with the device of that link, and never its
\* own node: InstallPriv's loop skips the server's own end of the channel,
\* which p2p.Install (server, gw) puts first.
GatewaysAreLinkedPeers ==
  \A i \in DOMAIN apps :
    LET gs == apps[i].gateways
    IN  /\ {g[1] : g \in Range(gs)} = LinkedGateways(apps[i].node)
        /\ \A g \in Range(gs) : NodeOf(g[2]) = apps[i].node /\ g[1] # apps[i].node
        /\ Cardinality(Range(gs)) = Len(gs)

\* Every network server application receives what its gateways forward:
\* the receive callback of each device it registered a gateway with calls
\* that application ("Link the NetworkServer app to its NetDevices").
EveryServerReceives ==
  \A i \in DOMAIN apps :
    \A g \in Range(apps[i].gateways) : rxCallback[g[2]] = i

=============================================================================
