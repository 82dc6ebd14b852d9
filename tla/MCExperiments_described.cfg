CONSTANT DIALOG_BOUNDS = 3
SPECIFICATION Spec
INVARIANT Described
