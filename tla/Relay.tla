------------------------------- MODULE Relay --------------------------------
(***************************************************************************)
(* The mailbox relay (app/api/mailbox: handlers.ts, pinata.ts, sweep.ts)   *)
(* and its client (packages/mailbox: client.ts, retention.ts): sealed      *)
(* envelopes, pinned under the slot they are addressed by.                 *)
(*                                                                         *)
(* The relay keeps nothing itself.  A delivery first asks the pinning      *)
(* service whether the slot is taken and then pins, in two calls, so a     *)
(* slot may end up with two pins; a read or a drop takes the first it      *)
(* finds.  Which service answers which call, sizes and headers are left    *)
(* out: a call fails, or it does what it says, with or without an answer   *)
(* that reaches the caller.                                                *)
(***************************************************************************)
EXTENDS Naturals

CONSTANTS
  LastDay,    \* days are 0..LastDay
  KeepDays,   \* how long a dated pin is kept, RECEIPT_KEEP_DAYS
  Undated     \* no keep-until day

ASSUME KeepAssumption == LastDay \in Nat /\ KeepDays \in Nat /\ Undated \notin Nat

VARIABLES
  pins,    \* what is pinned: the slot, what was sealed, the day it is kept until
  today

RelayInit == pins = {} /\ today = 0

Slot(box, seq) == [box |-> box, seq |-> seq]

PinsAt(slot) == {p \in pins : p.slot = slot}

\* PinStore.find, as POST uses it.
Taken(slot) == PinsAt(slot) # {}

Pinned(slot, body, until) == [slot |-> slot, body |-> body, until |-> until]

\* POST, once find has said that the slot is free.
Deliver(slot, body, until) == pins' = pins \cup {Pinned(slot, body, until)}

\* DELETE: one of the pins of the slot goes, or none when there is none.
Drop(slot) ==
  IF Taken(slot) THEN \E p \in PinsAt(slot) : pins' = pins \ {p}
                 ELSE UNCHANGED pins

\* isPastKeep: the whole day has passed.
Expired(p) == p.until # Undated /\ p.until < today

\* The daily sweep takes what has expired, up to its limit or its first failure.
Sweep ==
  /\ \E gone \in SUBSET {p \in pins : Expired(p)} : gone # {} /\ pins' = pins \ gone
  /\ UNCHANGED today

NextDay ==
  /\ today < LastDay
  /\ today' = today + 1
  /\ UNCHANGED pins
=============================================================================
