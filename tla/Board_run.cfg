SPECIFICATION Spec
CONSTANTS
  Period = 8
INVARIANTS TypeOK PulsesApart PulsesInv HeldIsSeen HeldInv
