SPECIFICATION Spec
CONSTANTS
  Groups = {"workers"}
  MaxSpend = 2
  MaxMonth = 2
  MaxFailures = 1
INVARIANTS
  RecordedAlertsWereSent
  
PROPERTIES
  StopIsKept
  
