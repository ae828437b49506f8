SPECIFICATION Spec
CONSTANTS
  Keys = {k1, k2}
  Values = {v1, v2}
  Names = {n1, n2}
  NoName = none
PROPERTY PutIsStored
