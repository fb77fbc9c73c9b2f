SPECIFICATION Spec
CONSTANTS
  v0 = v0
  v1 = v1
  m1 = m1
  m2 = m2
  a = a
  b = b
  i1 = i1
  i2 = i2
  k2 = k2
  j1 = j1
  j2 = j2
  c1 = c1
  c2 = c2
  tif = tif
  sync = sync
  NoVersion = NoVersion
  Nobody = Nobody
  InputVersions = {v0, v1}
  ModelVersions = {m1, m2}
  Published = v0
  VarlocOf <- TwoVarlocs
  Listed = {a}
  Layers <- OneLayer
  Tifs = {tif}
  BundleFiles = {"model.pt", "config.yaml"}
  Publishers = {i1, k2}
  Targets <- WhatIsPublished
  Forced = {}
  Tidy = TRUE
  Jobs = {}
  Sync = sync
  Posts = {c1, c2}
  VarlocAsked <- AllForA
  TTL = 2
  ReadTime = 1
INVARIANTS
  JobsNamePublished
  NamingInv
PROPERTIES
  FreshEnough
  PointerSpec
