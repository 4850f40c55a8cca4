-------------------------------- MODULE MCDecode --------------------------------
(***************************************************************************)
(* Small instances of ImageDecodeDispatcher and ImageGeometry for TLC.     *)
(***************************************************************************)
EXTENDS ImageDecodeDispatcher, ImageGeometry

Sides == 1..8 \cup {13, 17}
MCPicture == [size : [w : Sides, h : Sides], levels : {1, 3, 5}, orientation : 1..8,
              target : [w : {0, 1, 3, 5}, h : {0, 1, 4, 8}]]

\* A behaviour is a decode, or asks for one picture and does nothing.
Show ==
  /\ RegistryInit
  /\ request = [extension |-> "dds", purpose |-> "Thumbnail", mipLevel |-> 0]
  /\ phase = "done" /\ result = "none" /\ winner = None
  /\ bytes = None /\ file = None /\ replaced = FALSE
  /\ header = NoHeader /\ candidates = <<>> /\ tried = 0 /\ whole = FALSE

MCInit ==
  \/ DispatchInit /\ pictures = {}
  \/ Show /\ PictureInit

MCNext == pictures = {} /\ DispatchNext /\ UNCHANGED pictures

MCSpec == MCInit /\ [][MCNext]_<<dispatchVars, pictures>>

\* Two factories of a host with one id, and one that has taken the id of WIC.
MCFactory  == {"wic", "dxtex", "first", "second", "usurper"}
MCBuiltIn  == <<"wic", "dxtex">>
MCId       == [f \in MCFactory |-> CASE f \in {"first", "second"} -> "host"
                                     [] f \in {"wic", "usurper"}  -> "builtin.wic"
                                     [] f = "dxtex"               -> "builtin.dxtex"]
MCPriority == [f \in MCFactory |-> CASE f = "first"   -> 5
                                     [] f = "second"  -> -1
                                     [] OTHER         -> 0]
MCPurposes == [f \in MCFactory |-> IF f = "first" THEN {"Thumbnail"}
                                   ELSE {"Thumbnail", "FullResolution"}]

Spelled(dot, name, upper) == [dot |-> dot, name |-> name, upper |-> upper]
MCExtensions ==
  [f \in MCFactory |->
     CASE f = "wic"     -> <<Spelled(TRUE, "jpg", FALSE), Spelled(TRUE, "ico", FALSE)>>
       [] f = "dxtex"   -> <<Spelled(TRUE, "dds", FALSE), Spelled(TRUE, "tga", FALSE)>>
       [] f = "first"   -> <<Spelled(TRUE, "dds", FALSE), Spelled(FALSE, "dds", TRUE)>>
       [] f = "second"  -> <<Spelled(TRUE, "dds", TRUE), Spelled(FALSE, "", FALSE)>>
       [] f = "usurper" -> <<Spelled(TRUE, "jpg", FALSE)>>]

MCProbe(f, head, extension) ==
  f \in {"wic", "dxtex"} => BuiltInProbe(f, head, extension)

Holding(format, signature, intact, mips) ==
  [format |-> format, signature |-> signature, size |-> 100, intact |-> intact,
   mips |-> mips]
MCContent ==
  { Holding("JPEG", "JPEG", TRUE, 1), Holding("JPEG", "JPEG", FALSE, 1),
    Holding("ICO", "none", TRUE, 1), Holding("TGA", "none", TRUE, 1),
    Holding("HDR", "RADIANCE", TRUE, 1), Holding("EXR", "EXR", TRUE, 1),
    Holding("DDS", "DDS", TRUE, 2), Holding("DDS", "DDS", FALSE, 2),
    \* more than StreamLimit
    [Holding("JPEG", "JPEG", TRUE, 1) EXCEPT !.size = 101],
    \* cut off within its signature
    [Holding("PNG", "PNG", FALSE, 1) EXCEPT !.size = 7] }
================================================================================
