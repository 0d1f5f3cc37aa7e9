SPECIFICATION Spec
CONSTANTS
  Requests = {r1, r2}
  Ids = {i1, i2, i3}
  Keys = {k1, k2}
  Contents = {c1, c2}
  Files = {f1, f2}
  MaxSheets = 2
  None = None
  Thread = Thread
  Awaited = {k1}
INVARIANTS JobsHaveFiles FilesHaveOwners OneJobPerAwaitedKey OneContentPerKey
PROPERTIES EveryCreateEnds
