SPECIFICATION Spec
CONSTANTS
  App = App
  outer = outer
  inner = inner
  route = route
  q1 = q1
  Groups = {outer, inner}
  Routes = {route}
  Up <- Nested
  Mws = {m1, m2, m3}
  StdMws = {m1}
  Requests = {q1}
  Toggled = {}
  RouteOf <- OneRequest
  MaxNext = 1
CHECK_DEADLOCK FALSE
INVARIANTS
  HandlerGuarded
  GuardsHold
  ErrorAnswered
