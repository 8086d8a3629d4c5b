------------------------------- MODULE BleGate -------------------------------
(***************************************************************************)
(* The gate in front of BLE pairing                                          *)
(* (apps/gibberish-firmware/src/radio/ble_gate.rs): a request shows a PIN and *)
(* waits for the button until it times out.  The firmware's loop presses and  *)
(* ticks it once in every turn, in that order; a BLE stack that would call    *)
(* request_pairing and reset is not in the repository, so they may come       *)
(* between any two turns.                                                     *)
(***************************************************************************)
EXTENDS Naturals

CONSTANTS
  Pins,         \* the PINs 100000..999999
  NoPin,        \* no request yet
  AuthTimeout,  \* BLE_AUTH_TIMEOUT_MS
  GateDelta     \* delta_ms of a turn

ASSUME GateAssumption ==
  /\ NoPin \notin Pins
  /\ AuthTimeout \in Nat \ {0} /\ GateDelta \in Nat \ {0}

VARIABLES
  auth,       \* BleAuthState
  pin,        \* the PIN on the display while pairing is requested
  remaining,  \* remaining_ms
  bonded,
  asked,      \* history: PIN and age of the last request, or NoPin once it was reset
  grants      \* history: the last request at each press that was granted

gateVars == <<auth, pin, remaining, bonded, asked, grants>>

GateInit ==
  /\ auth = "idle" /\ pin = NoPin /\ remaining = 0 /\ bonded = FALSE
  /\ asked = [pin |-> NoPin, age |-> 0] /\ grants = {}

\* request_pairing: whatever the state, the request before is replaced.
RequestPairing(p) ==
  /\ auth' = "requested" /\ pin' = p /\ remaining' = AuthTimeout
  /\ asked' = [pin |-> p, age |-> 0]
  /\ UNCHANGED <<bonded, grants>>

ResetGate ==
  /\ auth' = "idle" /\ pin' = NoPin /\ remaining' = 0
  /\ asked' = [pin |-> NoPin, age |-> 0]
  /\ UNCHANGED <<bonded, grants>>

\* on_button_press is true only while a request waits.
Granted(pressed) == pressed /\ auth = "requested"

\* Faulty variant: the last moment does not count as the end.
ExpiredLate == GateDelta > remaining

Expired == GateDelta >= remaining

\* tick: a request that is left waiting times out, or has less time left.
Press(pressed) ==
  /\ Granted(pressed)
  /\ auth' = "authorized" /\ bonded' = TRUE /\ pin' = NoPin /\ remaining' = 0
  /\ grants' = {asked}
TickGate(pressed) ==
  /\ ~Granted(pressed)
  /\ IF auth = "requested" /\ Expired
       THEN auth' = "rejected" /\ pin' = NoPin /\ remaining' = 0
       ELSE /\ remaining' = IF auth = "requested" THEN remaining - GateDelta ELSE remaining
            /\ UNCHANGED <<auth, pin>>
  /\ UNCHANGED <<bonded, grants>>

Older(n) == IF n < AuthTimeout THEN n + GateDelta ELSE n

GateTurn(pressed) ==
  /\ Press(pressed) \/ TickGate(pressed)
  /\ asked' = [asked EXCEPT !.age = IF asked.pin = NoPin THEN 0 ELSE Older(asked.age)]

GateNext ==
  \/ \E p \in Pins : RequestPairing(p)
  \/ \E pressed \in BOOLEAN : GateTurn(pressed)
  \/ ResetGate

GateSpec == GateInit /\ [][GateNext]_gateVars

-----------------------------------------------------------------------------
(* Properties *)

GateTypeOK ==
  /\ auth \in {"idle", "requested", "authorized", "rejected"}
  /\ pin \in Pins \cup {NoPin} /\ remaining \in 0..AuthTimeout
  /\ bonded \in BOOLEAN
  /\ asked \in [pin : Pins \cup {NoPin}, age : 0..(AuthTimeout + GateDelta)]
  /\ grants \subseteq [pin : Pins, age : Nat]

\* A bond comes of a press alone, within the timeout of a request that was not reset
\* since (ble_gate.rs:7); and while a request waits, its own PIN is on the display.
GrantedInTime ==
  /\ bonded <=> grants # {}
  /\ \A g \in grants : g.pin # NoPin /\ g.age < AuthTimeout
  /\ auth = "requested" => pin = asked.pin /\ asked.age < AuthTimeout
=============================================================================
