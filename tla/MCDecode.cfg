SPECIFICATION MCSpec
CONSTANTS
  None = None
  Factory <- MCFactory
  BuiltIn <- MCBuiltIn
  Id <- MCId
  Priority <- MCPriority
  Purposes <- MCPurposes
  Extensions <- MCExtensions
  Probe <- MCProbe
  WIC = "wic"
  DXTex = "dxtex"
  Content <- MCContent
  Extension = {"jpg", "dds", "tga", "hdr"}
  Purpose = {"Thumbnail", "FullResolution"}
  StreamLimit = 100
  MaxMip = 2
  Picture <- MCPicture
CHECK_DEADLOCK FALSE
INVARIANTS RegistryConsistent IntactIsDecoded CandidatesInOrder MipLevelHonoured ThumbnailsFit MipsLoseNoPixels ImagesUpright
