SPECIFICATION Spec
CONSTANT Count = {0, 1, 3}
INVARIANT PredictedVerdict
