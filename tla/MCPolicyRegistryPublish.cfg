SPECIFICATION PRSpec
CONSTANTS
  Run = {e1}
  Rule = {w}
  Setting = {on}
  Rev = {v1, v2}
  Registry <- Bodies
  PublishKey = key
  MaxTries = 3
  MaxLate = 1
  NoKey = noKey
  Absent = absent
  NoPayload = noPayload
  NoFile = noFile
  Torn = torn
  Baseline = baseline
  NotLoaded = notLoaded
INVARIANT
  PublishTakesEffect
