SPECIFICATION Spec
CONSTANT RampTime <- MCRampTime
INVARIANTS TypeOK EngageInv
PROPERTIES EngagesGently TareWaits TaredAfterRamp
