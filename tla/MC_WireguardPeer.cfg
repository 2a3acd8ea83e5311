\* Two peers edited through AddAllowedIP / DelAllowedIP over three prefixes.
CONSTANTS
  PeerNames = {t, o}
  Attrs = {x1, x2}
  IPNets = {a, b, c}
SPECIFICATION Spec
INVARIANT EqualMeansSamePeer
