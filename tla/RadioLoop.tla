------------------------------ MODULE RadioLoop ------------------------------
(***************************************************************************)
(* The radio of a dongle in turns of the firmware's main loop: the arbiter   *)
(* (TdmArbiter in apps/gibberish-firmware/src/radio/coex.rs) moves its clock  *)
(* and says whose slot it is, and only in the mesh slot are the transmit      *)
(* queue, telemetry and received frames looked at.  The host and the button   *)
(* schedule packets in any slot.                                              *)
(***************************************************************************)
EXTENDS TxQueue

CONSTANTS
  Delta,      \* delta_ms of a turn
  Cycle,      \* TDM_CYCLE_MS
  SlotAEnd, Guard1End, SlotBEnd

ASSUME TdmAssumption ==
  /\ {Delta, Cycle, SlotAEnd, Guard1End, SlotBEnd} \subseteq Nat \ {0}
  /\ SlotAEnd <= Guard1End /\ Guard1End <= SlotBEnd /\ SlotBEnd <= Cycle

VARIABLES
  tdmTime,  \* current_time_ms
  desktop,  \* usb_desktop_mode
  slot      \* current_slot

vars == <<queueVars, tdmTime, desktop, slot>>

RadioSlots == {"mesh", "guard", "ble"}

Init == QueueInit /\ tdmTime = 0 /\ desktop = FALSE /\ slot = "mesh"

\* The slots of a cycle.
SlotAt(t) ==
  CASE t < SlotAEnd -> "mesh"
    [] SlotAEnd <= t /\ t < Guard1End -> "guard"
    [] Guard1End <= t /\ t < SlotBEnd -> "ble"
    [] OTHER -> "guard"

AdvancedTime == (tdmTime + Delta) % Cycle

\* advance: in desktop mode the clock stands still and the mesh has every turn.
Advance ==
  /\ tdmTime' = IF desktop THEN tdmTime ELSE AdvancedTime
  /\ slot' = IF desktop THEN "mesh" ELSE SlotAt(tdmTime')
  /\ UNCHANGED desktop

\* A turn outside of the mesh slot leaves the queue and its timer alone.
Elsewhere ==
  /\ sinceSent' = Older(sinceSent)
  /\ UNCHANGED <<slots, head, tail, count, backoff, sent>>

\* The clock, then the queue (main.rs:200, 251-275).
Turn ==
  /\ Advance
  /\ \/ slot' = "mesh" /\ (Wait \/ TakePending)
     \/ slot' # "mesh" /\ Elsewhere

\* The rest of a turn: a frame to relay, telemetry and a frame overheard in the mesh
\* slot only (main.rs:278-463); the button and the host in any slot (main.rs:227, 524).
FromHost ==
  /\ \E key \in Keys, jitter \in Jitters : ScheduleUser(key, jitter)
  /\ UNCHANGED <<tdmTime, desktop, slot>>
FromMesh ==
  /\ slot = "mesh"
  /\ \/ \E key \in Keys, jitter \in Jitters : ScheduleTelemetry(key, jitter)
     \/ \E key \in Keys : Overhear(key)
  /\ UNCHANGED <<tdmTime, desktop, slot>>

\* set_desktop_mode, at any time; the firmware of this repository never calls it.
SetDesktopMode ==
  /\ desktop' \in BOOLEAN
  /\ UNCHANGED <<queueVars, tdmTime, slot>>

Next == Turn \/ FromHost \/ FromMesh \/ SetDesktopMode

Spec == Init /\ [][Next]_vars

\* The loop never ends (main.rs:194): it takes one turn after the other.
FairSpec == Spec /\ WF_vars(Turn)

-----------------------------------------------------------------------------
(* Properties *)

\* The queue has its types, and the slot is that of the clock unless desktop mode
\* has just been left or entered.
TypeOK ==
  /\ QueueTypeOK
  /\ tdmTime \in 0..(Cycle - 1) /\ desktop \in BOOLEAN /\ slot \in RadioSlots
  /\ slot \in {"mesh", SlotAt(tdmTime)}

\* What coex.rs:3-9 says: between the slots of the two radios there is a guard band
\* in which the synthesizer is tuned.
GuardBetweenSlots ==
  [][~desktop /\ slot' # slot => "guard" \in {slot, slot'}]_vars
=============================================================================
