----------------------------- MODULE MCServices -----------------------------
(***************************************************************************)
(* NetworkServices, Certificates, BrokerPins and DeviceName for TLC.  They *)
(* share no variable, so that the states of one say nothing of the others: *)
(* a behaviour moves in one part and leaves the others as they began, and  *)
(* TLC looks at the sum of the four instead of their product.              *)
(***************************************************************************)
EXTENDS TLC, NetworkServices, Certificates, BrokerPins, DeviceName

CONSTANTS short, long, longCut, spaced

\* A name that fits, one that is cut, one with a blank, and an ID of an older firmware.
MCCut == [n \in Typed |-> IF n = long THEN longCut ELSE n]

\* Neither a key nor a caller is named anywhere.
MCSymmetry == Permutations(BrokerKey) \cup Permutations(Caller)

\* The pin stores to begin with: empty or full, and strict or not at all.
MCPinStore ==
    {config \in PinConfig : Len(config.pins) \in {0, MaxPins} /\ config.fallback # config.enforce}

VARIABLE part

allVars == <<servicesVars, certVars, pinVars, nameVars, part>>

MCInit ==
    /\ ServicesInit /\ CertInit /\ PinInit /\ NameInit
    /\ part \in {"network", "certificates", "pins", "name"}
    /\ pinStore \in IF part = "pins" THEN MCPinStore ELSE {NoPins}
    /\ part # "name" => nameStore.now = NoName

MCNext ==
    \/ part = "network" /\ ServicesNext /\ UNCHANGED <<certVars, pinVars, nameVars, part>>
    \/ part = "certificates" /\ CertNext /\ UNCHANGED <<servicesVars, pinVars, nameVars, part>>
    \/ part = "pins" /\ PinNext /\ UNCHANGED <<servicesVars, certVars, nameVars, part>>
    \/ part = "name" /\ NameNext /\ UNCHANGED <<servicesVars, certVars, pinVars, part>>

MCSpec == MCInit /\ [][MCNext]_allVars

=============================================================================
