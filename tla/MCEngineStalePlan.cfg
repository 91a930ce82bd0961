SPECIFICATION Spec
CONSTANTS
  e1 = e1
  e2 = e2
  small = small
  wide = wide
  device = device
  plain = plain
  Engines = {e1}
  Primitives = {p1, p2}
  Amplitudes = {p2}
  Noisy = {e1}
  Inputs = {small, wide, const}
  Constant = const
  Nothing = nothing
  Stamps = {device}
  Fits <- MCFits
  Bindings = {unbound, v1}
  Unbound = unbound
  Channels = {ch1, ch2}
  Off = off
  MaxList = 2
  MaxGenerations <- MCMaxGenerations
INVARIANTS PlansFresh
