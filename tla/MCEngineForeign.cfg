SPECIFICATION Spec
CONSTANTS
  e1 = e1
  e2 = e2
  small = small
  wide = wide
  device = device
  plain = plain
  Engines = {e1, e2}
  Primitives = {p1, p2}
  Amplitudes = {}
  Noisy = {}
  Inputs = {small, wide, const}
  Constant = const
  Nothing = nothing
  Stamps = {device, plain}
  Fits <- MCFits
  Bindings = {unbound, v1}
  Unbound = unbound
  Channels = {}
  Off = off
  MaxList = 1
  MaxGenerations <- MCMaxGenerations
INVARIANTS RunsOwnSettings
