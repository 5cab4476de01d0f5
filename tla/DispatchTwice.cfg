SPECIFICATION Spec
CONSTANTS
  App = App
  outer = outer
  inner = inner
  route = route
  q1 = q1
  Groups = {outer, inner}
  Routes = {route}
  Up <- Nested
  Mws = {m1, m2}
  StdMws = {m1}
  Requests = {q1}
  Toggled = {outer, inner, route}
  RouteOf <- OneRequest
  MaxNext = 2
CHECK_DEADLOCK FALSE
INVARIANTS
  DisabledIs404
  HandlerOnce
PROPERTIES
  CommittedIsFinal
