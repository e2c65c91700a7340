SPECIFICATION MCSpec
CONSTANTS
  h1 = h1
  h2 = h2
  c1 = c1
  c2 = c2
  Handles = {h1, h2}
  Calls = {c1, c2}
  HandleOf <- CallsOf
  Nil = Nil
  Torn = Torn
  Keys = {k1, k2}
  Secrets = {secret}
  NoSecret = NoSecret
  Subs = {a}
  Kinds = {"read", "add", "remove", "put", "orphan"}
  MaxEdits = 2
  MaxRevision = 2
INVARIANTS
  StoredIsValid RevisionIdentifies LockDiscipline PromisedKept
PROPERTIES ImplementsEditLog CloseReturns
