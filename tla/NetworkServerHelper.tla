-------------------------- MODULE NetworkServerHelper --------------------------
(***************************************************************************)
(* src/helper/network-server-helper.{h,cc}: the helper that installs the   *)
(* NetworkServer application on server nodes.                              *)
(*                                                                         *)
(* The helper keeps configuration (the factory's attributes, the end       *)
(* devices, whether ADR is on and its type) and each Install reads it to   *)
(* create one application per node: the application becomes the receive   *)
(* callback of every net device of the node, registers, for each device,   *)
(* the first node at the other end of its point-to-point channel as a      *)
(* gateway, takes the end devices and gets its components.                 *)
(*                                                                         *)
(* The topology is fixed before the helper runs, as in the example         *)
(* scripts: Links is the sequence of PointToPointHelper::Install (a, b)    *)
(* calls; each creates a device on a (channel index 0) and then on b       *)
(* (index 1), so a node's devices are numbered in link order.  A device    *)
(* is <<link, index>>.  Applications are numbered in creation order.       *)
(***************************************************************************)
EXTENDS Integers, Sequences, SequencesExt

CONSTANTS
  Links,        \* sequence of <<a, b>>: the point-to-point links, in creation order
  AttrNames,    \* attribute names SetAttribute may be given
  AdrTypes      \* ADR component type names; "ns3::AdrComponent" is the default

VARIABLES
  factoryAttrs, \* m_factory: the attributes set so far
  endDevices,   \* m_endDevices
  adrEnabled,   \* m_adrEnabled
  adrType,      \* m_adrSupportFactory's type id
  apps,         \* the NetworkServer applications created, in order
  rxCallback    \* device -> index of the application its receive callback calls (0: none)

helperVars == <<factoryAttrs, endDevices, adrEnabled, adrType>>
nsVars == <<helperVars, apps, rxCallback>>

\* Every device, in creation order.
AllDevices == [i \in 1..2 * Len(Links) |-> <<(i + 1) \div 2, (i + 1) % 2>>]

NodeOf(d) == Links[d[1]][d[2] + 1]

\* node->GetDevice (i) for i in 0 .. GetNDevices () - 1.
DevicesOf(node) == SelectSeq(AllDevices, LAMBDA d : NodeOf(d) = node)

\* Mutant: the gateway taken as the channel's first device, whoever it is.
PeerOfFirst(node, d) == <<Links[d[1]][1]>>

\* The loop over the channel's devices: the first whose node is not this
\* node, then break; <<>> when there is none.
PeerOf(node, d) ==
  LET others == SelectSeq(Links[d[1]], LAMBDA n : n # node)
  IN  IF others = <<>> THEN <<>> ELSE <<Head(others)>>

\* NetworkServerHelper (): m_adrEnabled false, SetAdr ("ns3::AdrComponent").
HelperInit ==
  /\ factoryAttrs = {}
  /\ endDevices = {}
  /\ adrEnabled = FALSE
  /\ adrType = "ns3::AdrComponent"
  /\ apps = <<>>
  /\ rxCallback = [d \in Range(AllDevices) |-> 0]

SetAttribute(name) ==
  /\ factoryAttrs' = factoryAttrs \cup {name}
  /\ UNCHANGED <<endDevices, adrEnabled, adrType, apps, rxCallback>>

SetEndDevices(c) ==
  /\ endDevices' = c
  /\ UNCHANGED <<factoryAttrs, adrEnabled, adrType, apps, rxCallback>>

EnableAdr(b) ==
  /\ adrEnabled' = b
  /\ UNCHANGED <<factoryAttrs, endDevices, adrType, apps, rxCallback>>

SetAdr(type) ==
  /\ adrType' = type
  /\ UNCHANGED <<factoryAttrs, endDevices, adrEnabled, apps, rxCallback>>

\* InstallComponents: ACK and LinkCheck support, then ADR when enabled.
InstallComponents ==
  <<"ConfirmedMessagesComponent", "LinkCheckComponent">>
    \o (IF adrEnabled THEN <<adrType>> ELSE <<>>)

\* The gateways the loop over the node's devices registers: AddGateway
\* (peer, device) for each device whose channel has another node.
RegisteredGateways(node) ==
  FoldLeft(LAMBDA gs, d : IF PeerOf(node, d) = <<>> THEN gs
                          ELSE Append(gs, <<Head(PeerOf(node, d)), d>>),
           <<>>, DevicesOf(node))

\* The application InstallPriv (node) creates from the helper's state.
NewApp(node) ==
  [node |-> node, attrs |-> factoryAttrs, nodes |-> endDevices,
   gateways |-> RegisteredGateways(node), components |-> InstallComponents]

\* Mutant: only the node's first device gets the receive callback.
InstallPrivFirstOnly(st, node) ==
  LET devs == DevicesOf(node)
  IN  [apps |-> Append(st.apps, NewApp(node)),
       rxCallback |-> [d \in DOMAIN st.rxCallback |->
                         IF devs # <<>> /\ d = Head(devs) THEN Len(st.apps) + 1
                         ELSE st.rxCallback[d]]]

\* InstallPriv (node) on <<apps, rxCallback>>: the new application becomes
\* the receive callback of every device of the node.
InstallPriv(st, node) ==
  [apps |-> Append(st.apps, NewApp(node)),
   rxCallback |-> [d \in DOMAIN st.rxCallback |->
                     IF d \in Range(DevicesOf(node)) THEN Len(st.apps) + 1
                     ELSE st.rxCallback[d]]]

\* Install (NodeContainer c): InstallPriv on each node in order;
\* Install (Ptr<Node>) is the one-node container.
Install(c) ==
  LET st == FoldLeft(InstallPriv, [apps |-> apps, rxCallback |-> rxCallback], c)
  IN  /\ apps' = st.apps
      /\ rxCallback' = st.rxCallback
      /\ UNCHANGED helperVars

=============================================================================
