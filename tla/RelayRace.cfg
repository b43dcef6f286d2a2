SPECIFICATION Spec
CONSTANTS
  Strangers = {"lan"}
  Faulty = {"receiver"}
INVARIANTS SplitNeedsSilence ReadIsDelivered
CHECK_DEADLOCK FALSE
