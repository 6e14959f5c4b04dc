SPECIFICATION Spec
INVARIANT CodeNamesOutcome
