\* The same system, against what the header of setup.js promises.
CONSTANTS
  Tag = {t1, t2}
  Sidecar = Sidecar
  EnvRoot = EnvRoot
  Roots = {Sidecar, EnvRoot}
  Generator = "vs2022"
  System = System
  Nothing = Nothing
  MaxRepeats = 4
SPECIFICATION Spec
INVARIANT OpenSSLAsAsked
