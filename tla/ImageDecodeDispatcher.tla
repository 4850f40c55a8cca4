------------------------- MODULE ImageDecodeDispatcher -------------------------
(***************************************************************************)
(* One decode: the header is probed, the candidates are looked up in the   *)
(* registry, and they are tried in order; meanwhile the host registers and *)
(* removes factories and the file is replaced.                             *)
(*                                                                         *)
(* The content of a file or of bytes in memory is a record                 *)
(*   [format, signature, size, intact, mips].                              *)
(* WIC and DirectXTex are external: they decode what is intact and of a    *)
(* format of theirs, and what is damaged perhaps.  Without USE_OPENEXR     *)
(* there is no EXR loader.                                                 *)
(***************************************************************************)
EXTENDS DecoderRegistry, ImageFormatDetector

CONSTANTS
  WIC, DXTex,  \* the built-in factories
  Content,     \* what files and bytes in memory may hold
  Extension,   \* the extensions of names, in lower case
  Purpose,     \* Thumbnail, Preview, FullResolution
  StreamLimit, \* UINT32_MAX: the most bytes in memory that WIC is given
  MaxMip       \* bound: the highest mip level asked for

\* What begins like a DDS is one, damaged or not.
ASSUME DispatcherConstants ==
  /\ ToSet(BuiltIn) = {WIC, DXTex} /\ WIC # DXTex /\ None \notin {WIC, DXTex}
  /\ None \notin Content /\ MaxMip \in Nat /\ StreamLimit \in Nat
  /\ \A content \in Content :
       /\ content.size \in Nat /\ content.mips \in Nat /\ content.mips # None
       /\ DetectByMagic(HeaderOf(content.signature, content.size)) = "DDS" =>
            content.format = "DDS"

\* What is intact shows the signature of its format, if that has one.
ASSUME IntactContents ==
  \A content \in Content :
    LET shown == DetectByMagic(HeaderOf(content.signature, content.size))
    IN  content.intact =>
          /\ shown \in {"DDS", "HDR", "EXR"} => content.format = shown
          /\ content.format \in {"DDS", "HDR"} => shown = content.format

VARIABLES
  phase,       \* how far the decode is
  request,     \* [extension, purpose, mipLevel]
  bytes,       \* input.bytes: a content, or None
  file,        \* what the file at the path holds, or None
  header,      \* probe.header
  candidates,  \* `factories`
  tried,       \* how many of them were tried
  result,      \* lastHr
  winner,      \* the factory whose decoder succeeded, or None
  replaced,    \* history: the file was replaced
  whole        \* history: the built-in factories were registered at the lookup

decodeVars == <<phase, request, bytes, header, candidates, tried, result, winner, whole>>
fileVars   == <<file, replaced>>
dispatchVars == <<registryVars, decodeVars, fileVars>>

DispatchInit ==
  /\ RegistryInit
  /\ phase = "idle"
  /\ request \in [extension : Extension, purpose : Purpose, mipLevel : 0..MaxMip]
  /\ bytes \in Content \cup {None}
  /\ file \in Content \cup {None}
  /\ header = NoHeader /\ candidates = <<>> /\ tried = 0
  /\ result = "none" /\ winner = None /\ replaced = FALSE /\ whole = TRUE

-----------------------------------------------------------------------------
(***************************************************************************)
(* The built-in factories and their decoders.                              *)
(***************************************************************************)
WicFormats == {"PNG", "JPEG", "BMP", "GIF", "TIFF", "WEBP", "ICO"}

BuiltInProbe(f, head, extension) ==
  f = WIC => DetectByMagic(head) \notin {"DDS", "EXR", "HDR"}

\* Both serve every purpose.
ASSUME BuiltInFactories ==
  \A f \in {WIC, DXTex} :
    /\ Purpose \subseteq Purposes[f]
    /\ \A content \in Content, extension \in Extension :
         LET head == HeaderOf(content.signature, content.size)
         IN  Probe(f, head, extension) <=> BuiltInProbe(f, head, extension)

\* What is decoded: the bytes, or the file as it is now.
Source == IF bytes # None THEN bytes ELSE file

Is(content, formats) == content # None /\ content.format \in formats

\* An external decoder on content that should be of one of its formats.
Loaded(content, formats) ==
  CASE ~Is(content, formats) -> {"E_DECODER"}
    [] Is(content, formats) /\ content.intact -> {"S_OK"}
    [] OTHER -> {"S_OK", "E_DECODER"}

\* GetMetadataFromDDS: the number of mips, or None.
DdsMips(content) ==
  CASE ~Is(content, {"DDS"}) -> {None}
    [] Is(content, {"DDS"}) /\ content.intact -> {content.mips}
    [] OTHER -> {content.mips, None}

\* A faulty form of LoaderExtension: the name alone decides.
NameExtension(head, extension) == extension

\* DirectXTexLoaderExtension.
LoaderExtension(head, extension) ==
  CASE DetectByMagic(head) = "DDS" -> "dds"
    [] DetectByMagic(head) = "HDR" -> "hdr"
    [] DetectByMagic(head) = "EXR" -> "exr"
    [] OTHER -> extension

\* LoadWithDirectXTex: the DDS loader once the metadata is read, ...
DdsResults(content, mips) ==
  CASE mips = None -> {"E_DECODER"}
    [] mips # None /\ request.mipLevel >= mips -> {"E_INVALIDARG"}
    [] OTHER -> Loaded(content, {"DDS"})

\* ... and the loader it chooses.
DxtexResults(head, content) ==
  LET loader == LoaderExtension(head, request.extension)
  IN  CASE loader = "dds" -> UNION {DdsResults(content, mips) : mips \in DdsMips(content)}
        [] loader # "dds" /\ request.mipLevel # 0 -> {"E_INVALIDARG"}
        [] loader = "hdr" /\ request.mipLevel = 0 -> Loaded(content, {"HDR"})
        [] loader = "tga" /\ request.mipLevel = 0 -> Loaded(content, {"TGA"})
        [] OTHER -> {"E_NOTIMPL"}

\* CreateDecoder: WIC is given a stream over the bytes, or opens the path when there are
\* none and when there are more than a stream can have.
FromMemory == bytes # None /\ bytes.size <= StreamLimit

WicSource == IF FromMemory THEN bytes ELSE file

\* WICThumbnailDecoder and WICFullImageDecoder, whatever the name.
WicResults == Loaded(WicSource, WicFormats)

\* What trying f may come to: a host's decoder does as it likes, and its Create
\* may return none, which leaves the last result.
Results(f) ==
  CASE f = WIC   -> WicResults
    [] f = DXTex -> DxtexResults(header, Source)
    [] OTHER     -> {"S_OK", "E_HOST", result}

-----------------------------------------------------------------------------
(***************************************************************************)
(* ImageDecodeDispatcher::Decode.                                          *)
(***************************************************************************)

\* A faulty form of ProbedContent: the header is read from the file at the path.
FileContent == file

ProbedContent == Source

ProbeHeader ==
  /\ phase = "idle"
  /\ builtIns = Len(BuiltIn)
  /\ phase' = "probed"
  /\ header' = IF ProbedContent = None THEN NoHeader
               ELSE HeaderOf(ProbedContent.signature, ProbedContent.size)
  /\ UNCHANGED <<registryVars, fileVars, request, bytes, candidates, tried, result,
                 winner, whole>>

\* A faulty form of MipRefused: only what is no DDS is refused up front.
NotDds(mips) == DetectedFormat(header, request.extension) # "DDS"

\* Mips exist only in a DDS; when its metadata can be read, the level is checked.
MipRefused(mips) ==
  \/ DetectedFormat(header, request.extension) # "DDS"
  \/ mips # None /\ request.mipLevel >= mips

CheckMipLevel ==
  /\ phase = "probed"
  /\ \E mips \in DdsMips(Source) :
       IF request.mipLevel # 0 /\ MipRefused(mips)
       THEN phase' = "done" /\ result' = "E_INVALIDARG"
       ELSE phase' = "checked" /\ result' = "E_FAIL"
  /\ UNCHANGED <<registryVars, fileVars, request, bytes, header, candidates, tried,
                 winner, whole>>

LookUpCandidates ==
  /\ phase = "checked"
  /\ phase' = "trying"
  /\ candidates' \in CandidateFactories(request.extension, request.purpose, header)
  /\ whole' = (ToSet(BuiltIn) \subseteq Registered)
  /\ UNCHANGED <<registryVars, fileVars, request, bytes, header, tried, result, winner>>

\* A candidate is tried though it was removed from the registry meanwhile: the
\* decode shares its ownership.
TryNext ==
  LET f == candidates[tried + 1]
  IN  /\ phase = "trying" /\ tried < Len(candidates)
      /\ tried' = tried + 1
      /\ result' \in Results(f)
      /\ winner' = IF result' = "S_OK" THEN f ELSE None
      /\ phase' = IF result' = "S_OK" THEN "done" ELSE "trying"
      /\ UNCHANGED <<registryVars, fileVars, request, bytes, header, candidates, whole>>

Exhausted ==
  /\ phase = "trying" /\ tried = Len(candidates)
  /\ phase' = "done"
  /\ UNCHANGED <<registryVars, fileVars, request, bytes, header, candidates, tried,
                 result, winner, whole>>

\* Someone replaces the file, once: between any two steps of a decode.
ReplaceFile(content) ==
  /\ phase # "done"
  /\ ~replaced
  /\ file' = content /\ file' # file
  /\ replaced' = TRUE
  /\ UNCHANGED <<registryVars, decodeVars>>

\* What becomes of the tables after the lookup does not matter to this decode, and
\* what happens to them before it may as well happen here.
HostStep ==
  /\ phase \in {"idle", "checked"}
  /\ \/ \E f \in Factory \ ToSet(BuiltIn) : RegisterFactory(f)
     \/ \E id \in DOMAIN factoriesById : UnregisterFactory(id)
     \/ RegisterBuiltIn
  /\ UNCHANGED <<decodeVars, fileVars>>

DispatchNext ==
  \/ ProbeHeader
  \/ CheckMipLevel
  \/ LookUpCandidates
  \/ TryNext
  \/ Exhausted
  \/ \E content \in Content \cup {None} : ReplaceFile(content)
  \/ HostStep

DispatchSpec == DispatchInit /\ [][DispatchNext]_dispatchVars

-----------------------------------------------------------------------------
(***************************************************************************)
(* Properties.                                                             *)
(***************************************************************************)

\* What the built-in decoders can decode: TGA has no signature, so its name has to
\* say what it is.
Decodable(content) ==
  /\ content # None /\ content.intact
  /\ \/ content.format = "DDS" /\ request.mipLevel < content.mips
     \/ request.mipLevel = 0 /\ \/ content.format \in WicFormats \cup {"HDR"}
                                \/ content.format = "TGA" /\ request.extension = "tga"

\* What is decoded stays: nobody replaces the file, unless there are bytes.
SourceStays == bytes = None => ~replaced

\* WIC is given the bytes when there are any.
WicHasSource == bytes # None => FromMemory

\* An intact image is decoded whatever its file is called, from the file as from
\* bytes whatever the file holds and becomes, and whatever factories the host adds,
\* which may claim its extension, come first and fail.  Not covered: a file replaced
\* meanwhile, and bytes of a format of WIC's that are too many for its stream.
IntactIsDecoded ==
  /\ phase = "done" /\ whole /\ SourceStays
  /\ Decodable(Source) /\ (Source.format \in WicFormats => WicHasSource)
  => result = "S_OK"

\* Candidates that claim the extension come first, higher priorities before lower
\* ones within the two groups, and none is tried twice.
CandidatesInOrder ==
  LET claims(i) == Claims(candidates[i], request.extension)
  IN  \A i, j \in DOMAIN candidates : i < j =>
        /\ candidates[i] # candidates[j]
        /\ claims(j) => claims(i)
        /\ claims(i) = claims(j) =>
             Priority[candidates[i]] >= Priority[candidates[j]]

Recognised(content) ==
  DetectByMagic(HeaderOf(content.signature, content.size)) # "Unknown"

\* A mip level the image does not have is refused as the request's error, also when
\* a host's decoder would answer otherwise, and a mip level other than 0 is served
\* by a built-in decoder only from a DDS that has it.  Not covered: a file replaced
\* meanwhile, and a source the detector does not know under the name of a DDS, which
\* WIC may know.
MipLevelHonoured ==
  (phase = "done" /\ SourceStays /\ request.mipLevel # 0 /\ Source # None) =>
    /\ \/ Source.format # "DDS" /\ Recognised(Source)
       \/ Source.format = "DDS" /\ Source.intact /\ request.mipLevel >= Source.mips
       => result = "E_INVALIDARG"
    /\ winner \in ToSet(BuiltIn) =>
         \/ Source.format = "DDS" /\ request.mipLevel < Source.mips
         \/ ~Recognised(Source) /\ request.extension = "dds" /\ winner = WIC
================================================================================
