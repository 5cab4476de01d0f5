SPECIFICATION Spec
CONSTANTS
  App = App
  outer = outer
  inner = inner
  route = route
  q1 = q1
  Groups = {outer, inner}
  Routes = {route}
  Up <- Nested
  Mws = {}
  StdMws = {}
  Requests = {q1}
  Toggled = {outer, inner, route}
  RouteOf <- OneRequest
  MaxNext = 1
CHECK_DEADLOCK FALSE
INVARIANTS
  ServedOnlyIfOpen
