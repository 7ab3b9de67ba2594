--------------------------- MODULE WorkerConfiguration ---------------------------
(***************************************************************************)
(* The configuration of the conversion worker, read once when its module   *)
(* is loaded, and the choice of the wrapper for a request, which reads the *)
(* rules from the environment each time.                                   *)
(***************************************************************************)
EXTENDS Environment, FiniteSets

Wrappers == {"ffmpeg", "imagemagick", "unoconv"}

\* The lists of wrappers ignore case and blanks around a name.
Spelled == "imageMagick" :> "imagemagick" @@ " unoconv" :> "unoconv"

TrimmedLowerCase(token) == IF token \in DOMAIN Spelled THEN Spelled[token] ELSE token

\* transformStringToWrapperCollection throws for an unknown name.
AllKnown(list) == \A i \in DOMAIN list : TrimmedLowerCase(list[i]) \in Wrappers

WrapperCollection(list) == [i \in DOMAIN list |-> TrimmedLowerCase(list[i])]

\* createConversionPrecedenceOrderConfig
PrecedenceOrder(env) ==
  [document |-> WrapperCollection(Value(env, "CONVERTER_DOCUMENT_PRIORITY")),
   media    |-> WrapperCollection(Value(env, "CONVERTER_MEDIA_PRIORITY"))]

PrecedenceDefined(env) ==
  \A name \in {"CONVERTER_DOCUMENT_PRIORITY", "CONVERTER_MEDIA_PRIORITY"} :
    ~Falsy(Value(env, name)) /\ AllKnown(Value(env, name))

\* getWrapperPathConfigKeyFromEnum
PathKey == [wrapper \in Wrappers |-> CASE wrapper = "ffmpeg"      -> "FFMPEG_PATH"
                                       [] wrapper = "imagemagick" -> "IMAGE_MAGICK_PATH"
                                       [] wrapper = "unoconv"     -> "UNOCONV_PATH"]

\* transformEnumToIWrapper
HasPath(env, wrapper) == ~Falsy(Value(env, PathKey[wrapper]))

\* The wrappers of both lists in the order of a Set, without those that have no
\* path.
Listed(env) == PrecedenceOrder(env).document \o PrecedenceOrder(env).media

AvailableWrappers(env) ==
  LET new(i) == \A j \in 1 .. i - 1 : Listed(env)[j] # Listed(env)[i]
      kept   == {i \in DOMAIN Listed(env) : new(i) /\ HasPath(env, Listed(env)[i])}
      nth(n) == CHOOSE i \in kept : Cardinality({j \in kept : j < i}) = n - 1
  IN [n \in 1 .. Cardinality(kept) |-> Listed(env)[nth(n)]]

\* createMaximaConfiguration: ?? replaces an unset variable, but no empty one.
ValueOrDefault(env, name) ==
  LET value == Value(env, name)
  IN IF value = Unset THEN Value(env, name \o "_DEFAULT") ELSE value

MaximaDefined(env) ==
  \A name \in {"MAX_CONVERSION_TIME", "MAX_CONVERSION_TRIES"} :
    ~Falsy(ValueOrDefault(env, name))

\* getPortConfigValue
PortDefined(env) ==
  ~Falsy(Value(env, "WEBSERVICE_PORT")) \/ ~Falsy(Value(env, "WEBSERVICE_PORT_DEFAULT"))

\* createConfiguration: otherwise the process ends before it listens.  A wrapper
\* without path is only left out, as long as there is another one.
Boots(env) ==
  /\ MaximaDefined(env)
  /\ PrecedenceDefined(env)
  /\ AvailableWrappers(env) # <<>>
  /\ PortDefined(env)

\* initializeConversionWrapperMap
ConverterMap(env) == {AvailableWrappers(env)[i] : i \in DOMAIN AvailableWrappers(env)}

--------------------------------------------------------------------------------
\* isMediaFile: the MIME type of the extension is audio, video or image.
MediaFormats == {"png", "mp4"}

\* getRuleStringFromTemplate
MonoRule(env, request)  == Rule(env, Mono(Upper[request.to]))
MultiRule(env, request) == Rule(env, Multi(Upper[request.from], Upper[request.to]))

\* transformStringToWrapperEnumValue: only the exact name is a wrapper.
NoWrapper == "none"
EnumValue(value) == IF value \in {<<w>> : w \in Wrappers} THEN value[1] ELSE NoWrapper

\* determineConverter; "none" when it throws.
DetermineConverter(env, request) ==
  CASE MultiRule(env, request) # Unset -> EnumValue(MultiRule(env, request))
    [] MultiRule(env, request) = Unset /\ MonoRule(env, request) # Unset ->
         EnumValue(MonoRule(env, request))
    [] OTHER -> IF request.from \in MediaFormats THEN PrecedenceOrder(env).media[1]
                                                ELSE PrecedenceOrder(env).document[1]
================================================================================
