----------------------------- MODULE MCUsbFramer -----------------------------
(* Packets whose bytes may be those of a header but its length, and with all   *)
(* three bytes of a header.                                                    *)
EXTENDS UsbFramer
Bytes == {"AA", "55", "other"}
NoHeader == {<<a, b, c>> : a \in {"AA", "other"}, b, c \in Bytes}
AnyBytes == {<<a, b, c>> : a, b, c \in Bytes \cup {"72"}}
=============================================================================
