SPECIFICATION Spec
CONSTANTS
  Devices = {car, bike}
  Networks = {primary, gps, misc}
  Gps = gps
  Excluded = {misc}
  Versions = {v1}
  NoVersion = none
  Threshold = 3
SYMMETRY Symmetry
INVARIANTS
  TypeOK
  DecodeFindsDecoder
  BlacklistExact
  DecodersConfirmed
PROPERTIES
  WholeFilesKept
