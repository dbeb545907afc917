SPECIFICATION Spec
CONSTANTS
  Ids = {1, 2, 3}
  Methods <- MCMethods
  Events = {"changed"}
  Tokens = {"cap", "v1", "hub.example"}
  HostPatterns = {"hub.example", "*.example"}
  NoManifest = NoManifest
  NoPackage = NoPackage
  Manifests <- MCManifests
INVARIANTS
  SingleOwnerAlone
  MergesUnlessHostIsNoToken
  OwnersAgree
  OwnerIsReachable
