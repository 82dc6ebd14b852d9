CONSTANTS
    DIALOG_BOUNDS = 9
SPECIFICATION Spec
INVARIANT ShownEnough
INVARIANT StimuliFit
INVARIANT MainsRun
PROPERTY NoNewHit
PROPERTY Patience
