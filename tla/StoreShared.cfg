SPECIFICATION Spec
CONSTANTS
  c1 = c1 c2 = c2 t1 = t1 t2 = t2 t3 = t3
  Nothing = Nothing
  Clients = {c1, c2}
  Times = {1, 2}
  ContentKeys = {1}
  Tokens = {t1, t2, t3}
  Offered = {"put", "delete", "list", "get", "probe", "clean"}
  Punctual = TRUE
SYMMETRY Symmetric
INVARIANTS TypeOK WholeItems Deduplicates ListsAll UploadsKeepFolder
PROPERTIES ImplementsItemStore
