\* One push and one run by hand, so that two runs overlap.
CONSTANTS
  Artifact <- MCArtifact
  Runner <- MCRunner
  WithLibs = {"win32-x64"}
  MaxPushes = 1
  MaxByHand = 1
SPECIFICATION Spec
INVARIANTS PublishedWorks GreenIsCurrent
PROPERTY NeverBack
