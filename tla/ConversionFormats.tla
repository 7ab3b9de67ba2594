--------------------------- MODULE ConversionFormats ---------------------------
(***************************************************************************)
(* What the installed tools say they can convert, and what the worker      *)
(* makes of it.  `tools` maps each wrapper to its report, a sequence: the  *)
(* formats of ffmpeg, the lines of unoconv --show, the list shipped for    *)
(* imagemagick.                                                            *)
(***************************************************************************)
EXTENDS Naturals, Sequences, FiniteSets

CONSTANTS Failed,      \* the report of a tool that fails
          Extensions   \* file extensions

Categories == <<"document", "graphics", "presentation", "spreadsheet">>

\* A line of unoconv names a category, or it is taken apart into a format; any
\* other line is ignored.
IsHeader(line) == line \in {Categories[i] : i \in 1 .. 4}
IsFormat(line) == line \in Extensions

--------------------------------------------------------------------------------
(***************************************************************************)
(* detectSupportedFormats of Unoconv.                                      *)
(***************************************************************************)
\* docType when line i is looked at, "" before the first header.
DocType(lines, i) ==
  LET before == {j \in 1 .. i - 1 : IsHeader(lines[j])}
  IN IF before = {} THEN "" ELSE lines[CHOOSE j \in before : \A k \in before : k <= j]

\* A format without category: push is called on undefined in the callback of
\* the process, where no promise catches it, and the worker ends.
UnoconvCrashes(lines) ==
  \E i \in DOMAIN lines : IsFormat(lines[i]) /\ DocType(lines, i) = ""

Detected(lines, category) ==
  {i \in DOMAIN lines : IsFormat(lines[i]) /\ DocType(lines, i) = category}

\* hasSufficientFormatsDetected
SomeDetected(lines) == \E i \in 1 .. 4 : Detected(lines, Categories[i]) # {}

Formats(report) == {report[i] : i \in DOMAIN report} \cap Extensions

--------------------------------------------------------------------------------
(***************************************************************************)
(* getSupportedConversionFormats and canConvert of the wrappers.           *)
(***************************************************************************)
\* The promise of the tool is fulfilled; imagemagick runs no tool for it.
Answers(tools, wrapper) ==
  /\ tools[wrapper] # Failed
  /\ wrapper = "unoconv" => SomeDetected(tools[wrapper])

Crashes(tools, wrapper) ==
  wrapper = "unoconv" /\ tools[wrapper] # Failed /\ UnoconvCrashes(tools[wrapper])

Supported(tools, wrapper) == Formats(tools[wrapper])

CanConvert(tools, wrapper, source, target) == {source, target} \subseteq Supported(tools, wrapper)

\* supportsConversion awaits ffmpeg, unoconv and imagemagick in this order,
\* configured or not, before it looks at any of the answers.
SupportsConversion(tools, source, target) ==
  CASE Answers(tools, "ffmpeg") /\ Crashes(tools, "unoconv") -> "crash"
    [] ~Answers(tools, "ffmpeg") \/ (~Crashes(tools, "unoconv") /\ ~Answers(tools, "unoconv")) ->
         "error"
    [] OTHER -> IF \E w \in {"ffmpeg", "unoconv", "imagemagick"} :
                     CanConvert(tools, w, source, target)
                THEN "supported" ELSE "unsupported"

\* GET /formats of the worker asks the wrappers of converterMap all at once; and
\* `new Set(...totalFormats)` takes its first argument only.
OfferedFormats(tools, wrappers) ==
  IF \E i \in DOMAIN wrappers : Crashes(tools, wrappers[i]) \/ ~Answers(tools, wrappers[i])
    THEN {}
    ELSE Supported(tools, wrappers[1])
================================================================================
