SPECIFICATION Spec
CONSTANTS
  p1 = p1
  w = w
  q = q
  page = page
  m = m
  Product = {p1}
  ProductWatch = {w}
  QueryWatch = {q}
  ProductOf <- MCProductOf
  Price = {1, 2, 3}
  Reader = {page}
  Pass = {m}
  MinHours = 1
  MaxItems = 1
INVARIANTS NewsPending NoRepeat
PROPERTY MailPause
