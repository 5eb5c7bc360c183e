SPECIFICATION Spec
CONSTANTS
  o1 = o1
  o2 = o2
  x1 = x1
  Orders = {o1, o2}
  Foreign = {x1}
  None = None
PROPERTIES
  UnheardIsVisible
