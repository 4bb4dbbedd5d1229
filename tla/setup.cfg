\* Two versions of libsrt and two OpenSSL trees, so that runs may disagree.
CONSTANTS
  Tag = {t1, t2}
  Sidecar = Sidecar
  EnvRoot = EnvRoot
  Roots = {Sidecar, EnvRoot}
  Generator = "vs2022"
  System = System
  Nothing = Nothing
  MaxRepeats = 4
SPECIFICATION FairSpec
INVARIANTS DoneIsRight ScriptPatchedOnce FailsOnlyPastMending
PROPERTY RerunRecovers
