-------------------------- MODULE ImageFormatDetector --------------------------
(***************************************************************************)
(* What the start of a file and its name say about its format.             *)
(*                                                                         *)
(* A header is abstracted to the signature it begins with, "none" for one  *)
(* the detector does not know, and its length in bytes; a name to the text *)
(* after its last dot, in lower case.                                      *)
(***************************************************************************)
EXTENDS Integers

\* The bytes of a signature that have to be there.
SignatureLength ==
  [ PNG |-> 8, JPEG |-> 3, BMP |-> 2, GIF |-> 4, TIFF |-> 4, DDS |-> 4,
    KTX2 |-> 12, WEBP |-> 12, EXR |-> 4, RADIANCE |-> 10, RGBE |-> 6,
    ZIP |-> 4, SEVEN_Z |-> 6 ]

Signature == DOMAIN SignatureLength

kProbeSize == 64

\* ReadHeader, or the start of the bytes in memory: what a file of `size` bytes
\* that begins with `signature` shows.
HeaderOf(signature, size) ==
  [signature |-> signature, size |-> IF size < kProbeSize THEN size ELSE kProbeSize]

NoHeader == HeaderOf("none", 0)

DetectByMagic(header) ==
  LET shown == /\ header.signature \in Signature
               /\ header.size >= SignatureLength[header.signature]
  IN  CASE ~shown -> "Unknown"
        [] shown /\ header.signature \in {"RADIANCE", "RGBE"} -> "HDR"
        [] OTHER -> header.signature

DetectByExtension(extension) ==
  CASE extension = "dds"  -> "DDS"
    [] extension = "ktx2" -> "KTX2"
    [] extension = "tga"  -> "TGA"
    [] extension = "hdr"  -> "HDR"
    [] extension = "exr"  -> "EXR"
    [] OTHER              -> "Unknown"

\* ProbeFile, and the probe of a request's header in ImageDecodeDispatcher: the
\* extension decides only when the signature does not.
DetectedFormat(header, extension) ==
  IF DetectByMagic(header) = "Unknown"
  THEN DetectByExtension(extension)
  ELSE DetectByMagic(header)
================================================================================
