SPECIFICATION Spec
PROPERTIES
    FinishReturns
