------------------------------- MODULE Slots --------------------------------
(***************************************************************************)
(* The slot spaces of a graph and what they hold: the abstract graph and   *)
(* the store that implements it have them in common.                       *)
(***************************************************************************)
EXTENDS Integers, FiniteSets

CONSTANTS Payload,        \* the consumer's node and edge payloads
          MaxNodeSlots,   \* MAX_SLOTS of the code, for the node slots
          MaxEdgeSlots    \* MAX_SLOTS of the code, for the edge slots

ASSUME SlotAssumption == MaxNodeSlots \in Nat /\ MaxEdgeSlots \in Nat
=============================================================================
