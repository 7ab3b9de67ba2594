-------------------------- MODULE MCConversionService --------------------------
(* ConversionService on three requests, with the wrappers a run assigns. *)
EXTENDS WorkerApi, TLC

CONSTANTS c1, c2, c3

\* One request per wrapper.
MCMixed == c1 :> "unoconv" @@ c2 :> "ffmpeg" @@ c3 :> "imagemagick"

\* Two requests that can fail and be retried, and one that cannot.
MCTimed == c1 :> "unoconv" @@ c2 :> "ffmpeg" @@ c3 :> "unoconv"
================================================================================
