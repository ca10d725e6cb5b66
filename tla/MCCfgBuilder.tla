---------------------------- MODULE MCCfgBuilder ----------------------------
(***************************************************************************)
(* Both builders; a behaviour is about one.  Structured: every stream up   *)
(* to ShortStream, and longer ones of fewer effects, that can still be     *)
(* closed within the bound.  Addressed: the streams of AddressBuilder.     *)
(***************************************************************************)
EXTENDS CfgBuilder

CONSTANTS ShortStream,   \* the longest stream of any effects
          LongEffects,   \* the effects of longer ones
          ShortCode, LongCode              \* of AddressBuilder

VARIABLES part,                            \* which builder
          code, request, graph, routed     \* of AddressBuilder

Addresses == INSTANCE AddressBuilder
addressVars == <<code, request, graph, routed>>

Fits(bound) == Len(stream) + Len(scopes) <= bound

BoundedStream ==
    \/ Fits(ShortStream)
    \/ Fits(MaxStream) /\ \A p \in Positions : Effect(p) \in LongEffects

MCInit ==
    /\ Init
    /\ \/ part = "structured" /\ code = 0 /\ request = 0 /\ graph = 0 /\ routed = 0
       \/ part = "addressed" /\ Addresses!AddressInit
MCNext ==
    /\ \/ part = "structured" /\ Next /\ BoundedStream' /\ UNCHANGED addressVars
       \/ part = "addressed" /\ Addresses!AddressNext /\ UNCHANGED vars
    /\ UNCHANGED part
MCSpec == MCInit /\ [][MCNext]_<<part, vars, addressVars>>
-----------------------------------------------------------------------------
(* The graph of an instruction stream with addresses runs as the stream    *)
(* does, reports what leads nowhere, reaches and nests handlers, refuses   *)
(* nothing sound, and lets the runtime take the ways its unwind routes     *)
(* state (builder/address.rs and its parts).                               *)
AddressesAsWritten ==
    part = "addressed" => Addresses!AddressesAsWritten /\ Addresses!WaysAsWritten
=============================================================================
