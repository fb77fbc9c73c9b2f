SPECIFICATION Spec
CONSTANTS
  v0 = v0
  v1 = v1
  m1 = m1
  m2 = m2
  a = a
  b = b
  i1 = i1
  i2 = i2
  k2 = k2
  j1 = j1
  j2 = j2
  c1 = c1
  c2 = c2
  tif = tif
  sync = sync
  NoVersion = NoVersion
  Nobody = Nobody
  InputVersions = {v0, v1}
  ModelVersions = {m1, m2}
  Published = v0
  VarlocOf <- TwoVarlocs
  Listed = {}
  Layers <- OneLayer
  Tifs = {tif}
  BundleFiles = {"model.pt", "config.yaml"}
  Publishers = {i1, i2, j1, j2}
  Targets <- WhatIsPublished
  Forced = {}
  Tidy = FALSE
  Jobs = {j1, j2}
  Sync = sync
  Posts = {}
  VarlocAsked <- AllForA
  TTL = 1
  ReadTime = 0
SYMMETRY Symmetry
INVARIANTS
  TypeOK
  MarksSurvive
  ReleaseInv
