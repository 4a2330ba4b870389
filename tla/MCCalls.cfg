SPECIFICATION Spec

  
  
PROPERTIES
  CallsEnd
CHECK_DEADLOCK FALSE
