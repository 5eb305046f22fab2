SPECIFICATION Spec

CONSTANTS
  t1 = t1
  t2 = t2
  home = home
  other = other
  skuA = skuA
  skuB = skuB
  key1 = key1
  key2 = key2
  key3 = key3
  idA = idA
  idB = idB
  idC = idC
  idD = idD
  idE = idE
  NoKey = NoKey
  NoEvent = NoEvent
  Threads = {t1, t2}
  Events <- LegacyEvents
  Tenants <- MCTenants
  Skus <- MCSkus
  Keys <- MCKeys
  Idents <- MCIdents
  HomeTenant = home
  Cutoff <- MCCutoff
  MaxFaults = 0

SYMMETRY ThreadSymmetry

INVARIANT LegacyEffectOnce
