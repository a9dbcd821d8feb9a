--------------------------- MODULE OpenAPIDocument ---------------------------
(***************************************************************************)
(* Generate of the OpenAPI generator: the options that configure it, the   *)
(* walk of OpenAPIComponents over the schema graph, and the document that  *)
(* is put together and validated at the end.                               *)
(*                                                                         *)
(* A text is "" or something else; only that, and whether a method is in   *)
(* upper or lower case, makes a difference.                                *)
(***************************************************************************)
EXTENDS OpenAPIComponents, SchemaGraph

CONSTANTS
  Texts,      \* arguments of the options, "" among them
  MaxOptions  \* bound: options given besides WithRootComponent

(* The walk starts from what buildSchemaGraph has made.                    *)
ASSUME RootsAssumption == Roots \subseteq Graphs

VARIABLES
  config,     \* generatorConfig
  given,      \* the number of options given
  document    \* the document, an error, or Nil

docVars == <<vars, config, given, document>>

-----------------------------------------------------------------------------
(* The options.  An empty text leaves what is there, except in the         *)
(* description and the summary.                                            *)

DefaultGeneratorConfig ==
  [openAPIVersion |-> "3.0.3", title |-> "Options Schema", version |-> "1.0.0",
   description |-> "", path |-> "/config", method |-> "post", operationID |-> "post:/config",
   summary |-> "", contentType |-> "application/json", responses |-> [s \in {"204"} |-> "OK"]]

ToLower(text) == IF text = "PUT" THEN "put" ELSE text

Keep(old, text) == IF text = "" THEN old ELSE text

WithOpenAPIVersion(text) ==
  config' = [config EXCEPT !.openAPIVersion = Keep(config.openAPIVersion, text)]

WithInfoOverwrites(title, version, description) ==
  config' = [config EXCEPT !.title = title, !.version = version, !.description = description]
WithInfo(title, version, description) ==
  config' = [config EXCEPT !.title = Keep(config.title, title),
                           !.version = Keep(config.version, version),
                           !.description = description]

WithOperation(path, method, operationID, summary) ==
  config' = [config EXCEPT !.path = Keep(config.path, path),
                           !.method = Keep(config.method, ToLower(method)),
                           !.operationID = Keep(config.operationID, operationID),
                           !.summary = summary]

WithContentType(text) ==
  config' = [config EXCEPT !.contentType = Keep(config.contentType, text)]

WithResponse(status, text) ==
  LET had == IF status \in DOMAIN config.responses THEN config.responses[status] ELSE ""
  IN  /\ status # ""
      /\ config' = [config EXCEPT !.responses =
                      [s \in DOMAIN config.responses \cup {status} |->
                         IF s = status THEN Keep(had, text) ELSE config.responses[s]]]

(* WithInfo and WithOperation without their inner options keep the         *)
(* description and the summary.                                            *)
Configure ==
  /\ pc = "begin" /\ given < MaxOptions
  /\ given' = given + 1
  /\ \/ \E text \in Texts : WithOpenAPIVersion(text)
     \/ \E title, version, description \in Texts :
          \/ WithInfo(title, version, description)
          \/ WithInfo(title, version, config.description)
     \/ \E path, id, summary \in Texts, method \in Texts \cup {"PUT"} :
          \/ WithOperation(path, method, id, summary)
          \/ WithOperation(path, method, id, config.summary)
     \/ \E text \in Texts : WithContentType(text)
     \/ \E status, text \in Texts : WithResponse(status, text)
  /\ UNCHANGED <<vars, document>>

-----------------------------------------------------------------------------
(* The document.                                                           *)

BuildInfo ==
  [title |-> config.title, version |-> config.version, description |-> config.description]

(* The schema of the request body: where it starts is enough.              *)
Content ==
  CASE rootName = Nil -> [body |-> "written out", ref |-> Nil]
    [] rootName # Nil /\ rootRef # Nil -> [body |-> "reference", ref |-> rootRef]
    [] OTHER -> [body |-> "empty object", ref |-> Nil]

MethodName == IF config.method = "" THEN "post" ELSE config.method
OperationID ==
  IF config.operationID # "" THEN config.operationID ELSE "method:path"

BuildPaths ==
  [path |-> config.path, method |-> MethodName, operationID |-> OperationID,
   summary |-> config.summary, contentType |-> config.contentType, content |-> Content,
   responses |-> config.responses]

(* validateDocument; the rest of what it asks for is there by the types.   *)
Valid(doc) ==
  /\ doc.openapi # "" /\ doc.info.title # "" /\ doc.info.version # ""

Failed == [error |-> TRUE]
Assembled ==
  LET doc == [error |-> FALSE, openapi |-> config.openAPIVersion, info |-> BuildInfo,
              paths |-> BuildPaths, components |-> components]
  IN  IF Valid(doc) THEN doc ELSE Failed

Assemble ==
  /\ pc = "done" /\ document = Nil
  /\ document' = Assembled
  /\ UNCHANGED <<vars, config, given>>

DocInit == Init /\ config = DefaultGeneratorConfig /\ given = 0 /\ document = Nil

DocNext ==
  \/ Configure
  \/ Next /\ UNCHANGED <<config, given, document>>
  \/ Assemble

DocSpec == DocInit /\ [][DocNext]_docVars

-----------------------------------------------------------------------------
(* No options, in whatever order, make Generate fail: the document it puts *)
(* together is one that validateDocument accepts, with a path, a method    *)
(* and an operation id (config.go, document.go:57-135 and 236-288).        *)
EveryConfigurationIsValid ==
  document # Nil =>
    /\ ~document.error
    /\ document.paths.path # "" /\ document.paths.operationID # ""
    /\ document.paths.contentType # ""
    /\ document.paths.method = ToLower(document.paths.method)
    /\ DOMAIN document.paths.responses # {}

(* The schema published for a configuration follows from its type, unless  *)
(* there are maps or interfaces in it: nil pointers, empty slices and zero *)
(* structs give what a full configuration of the type gives, although the  *)
(* generator looks into values (graph.go:187-350).                         *)
SchemaIsOfTheType ==
  \A m, n \in Made :
    m.type = n.type /\ m.type \in OneShape /\ root = m.graph => root = n.graph
=============================================================================
