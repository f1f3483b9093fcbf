SPECIFICATION CleaningSpec
CONSTANTS
  c1 = c1 c2 = c2 t1 = t1 t2 = t2 t3 = t3
  Nothing = Nothing
  Clients = {c1, c2}
  Times = {1}
  ContentKeys = {1}
  Tokens = {t1, t2}
  Offered = {"put", "delete", "probe", "clean"}
  Punctual = FALSE
PROPERTIES LeftoversGo
