SPECIFICATION Spec
INVARIANT
    ResumeOnlyIfAllowed
