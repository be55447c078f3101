SPECIFICATION Spec
CONSTANTS
  Requests = {r1, r2}
  NoToken = NoToken
  Timeout = 1
  Margin = 2
  Fallback = 1
  Lifetime = 3
  Skew = 1
  MaxNow = 4
  MaxResets = 2
SYMMETRY MCSymmetry
INVARIANT NeverGuest
INVARIANT SurvivesOneReset
PROPERTY ClosedStaysClosed
PROPERTY ExchangesMoveOn
