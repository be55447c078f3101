---------------------------- MODULE PluginService ----------------------------
(***************************************************************************)
(* The plugin implements GracefulService: its clients are the requests to  *)
(* the webhook, its jobs the optional tasks, and the resource is the       *)
(* renderer.                                                               *)
(***************************************************************************)
EXTENDS PluginLifecycle

ServiceStage ==
  CASE runner = "listening" -> "open"
    [] runner = "draining" -> "draining"
    [] runner \in {"none", "binding"} ->
         IF delivery \in {"cancelling", "idling"} THEN "closing" ELSE "down"

RendererThere == plugin \in {"loaded", "up", "stopping"}
Seen == {r \in Requests : handler[r] # "idle"}

Service == INSTANCE GracefulService WITH
  Clients  <- Requests,
  Kinds    <- Branches,
  stage    <- ServiceStage,
  ready    <- RendererThere,
  seen     <- Seen,
  served   <- Handling \ abandoned,
  lost     <- Handling \cap abandoned,
  jobs     <- Running,
  borrowed <- drawing

(***************************************************************************)
(* Server, delivery and plugin come down in order, whatever fails or times *)
(* out: no request is admitted once the server stops, no task starts and   *)
(* none begins to draw once the delivery closes, not even for a handler    *)
(* that outlives the drain, and the renderer goes last.                    *)
(***************************************************************************)
StopsInOrder == Service!Spec
=============================================================================
