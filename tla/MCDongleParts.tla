---------------------------- MODULE MCDongleParts ----------------------------
(* The bits of key 3 are covered by those of 1 and 2 together.                *)
EXTENDS DongleParts, MCUsbFramer
SomeBits == [k \in Keys |-> CASE k = 1 -> {1, 2} [] k = 2 -> {3, 4} [] k = 3 -> {2, 3}
                              [] OTHER -> {2 * k, 2 * k + 1}]
=============================================================================
