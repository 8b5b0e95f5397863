SPECIFICATION Spec
CONSTANT Count = {0, 1, 3}
INVARIANTS
  ParsedAsReported
  
  
  
  LinksLeadSomewhere
