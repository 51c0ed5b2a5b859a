SPECIFICATION Spec
CONSTANTS
  None = None
  x1 = x1  x2 = x2  q1 = q1  q2 = q2
  f1 = f1  f2 = f2  f3 = f3 
  food = food  rent = rent  high = high  low = low
  Txs = {x1, x2}
  Requests = {q1, q2}
  Files = {f1, f2, f3}
  Labels <- MCLabels
  LowLabels <- MCLowLabels
  Rules <- MCRules
  MaxCalls <- MCMaxCalls
  MaxCrashes = 1
  MaxFaults = 0
SYMMETRY ServiceSymmetry
CHECK_DEADLOCK FALSE
INVARIANT SavedTogether
