----------------------------- MODULE DongleParts -----------------------------
(***************************************************************************)
(* Parts of a dongle that share no state: the SRAM ring, the filter of seen  *)
(* frames, the table of peers, the gate of BLE pairing, and the two           *)
(* directions of its serial port.  A behaviour exercises one of them, chosen  *)
(* at the start: nothing is missed, and their states do not multiply.         *)
(***************************************************************************)
EXTENDS SramRing, Dedup, PeerTable, BleGate, UsbFramer, LineBuffer

VARIABLE part

core == <<ringVars, filterVars>>
dashboard == <<peerVars, gateVars>>
port == <<framerVars, lineVars>>
partVars == <<core, dashboard, port, part>>
Parts == {"ring", "filter", "peers", "gate", "to dongle", "to host"}

Init ==
  /\ RingInit /\ FilterInit /\ PeerInit /\ GateInit /\ FramerInit /\ LineInit
  /\ part \in Parts

Ring == part = "ring" /\ RingNext /\ UNCHANGED <<filterVars, dashboard, port, part>>
Filter == part = "filter" /\ FilterNext /\ UNCHANGED <<ringVars, dashboard, port, part>>
PeerList == part = "peers" /\ PeerNext /\ UNCHANGED <<core, gateVars, port, part>>
Gate == part = "gate" /\ GateNext /\ UNCHANGED <<core, peerVars, port, part>>
ToDongle == part = "to dongle" /\ FramerNext /\ UNCHANGED <<core, dashboard, lineVars, part>>
ToHost == part = "to host" /\ LineNext /\ UNCHANGED <<core, dashboard, framerVars, part>>

Next == Ring \/ Filter \/ PeerList \/ Gate \/ ToDongle \/ ToHost

Spec == Init /\ [][Next]_partVars

\* Every part has its types and keeps within its bounds.
TypeOK ==
  /\ RingTypeOK /\ FilterTypeOK /\ PeerTypeOK /\ GateTypeOK /\ FramerTypeOK /\ LineTypeOK
  /\ part \in Parts
=============================================================================
