SPECIFICATION Spec
CONSTANTS
  Devices = {car}
  Networks = {primary, gps}
  Gps = gps
  Excluded = {}
  Versions = {v1}
  NoVersion = none
  Threshold = 3
PROPERTY
  FailedDownloadsCounted
