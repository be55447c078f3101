--------------------------- MODULE WebhookPayload ---------------------------
(***************************************************************************)
(* parse_payload (core/webhook/parsers): what a request body asks for.     *)
(* A body is described by what the parser tells apart:                     *)
(*   size    "empty", "within" or "over" the 64 KiB that are read          *)
(*   media   "json", "text" or "none" of them                              *)
(*   utf8    whether it decodes                                            *)
(*   doc     what json.loads makes of it: "object", "kuma" (an object with *)
(*           heartbeat, monitor and msg) or "none" (no JSON, or no object) *)
(*   parts   heartbeat and monitor are objects or null                     *)
(*   message whether some message field has text                           *)
(*   source  the source header or field                                    *)
(*   history, analysis    send_history and send_analysis                   *)
(***************************************************************************)
HistorySources == {"beszel", "generic", "shoutrrr"}

Sources == HistorySources \cup {"uptime_kuma", "watchtower"}

(* Faulty variant: any value that Python takes for true. *)
Truthy(value) == value \in {"true", "TRUE", "one", "yes"}

(* JSON true, or the text "true" in any case: not 1, "1" or "yes". *)
StrictTrue(value) == value \in {"true", "TRUE"}

(* A blank source is generic, an unknown one shoutrrr. *)
Source(value) ==
  CASE value = "blank"     -> "generic"
    [] value \in Sources   -> value
    [] OTHER               -> "shoutrrr"

Readable(body) == body.media # "none" /\ body.utf8

Meaningful(body) ==
  body.media = "json" =>
    /\ body.doc = "kuma" => body.parts /\ body.message
    /\ body.doc = "object" => body.message

(* The HTTP status of the error parse_payload raises, 0 if it raises none. *)
Refusal(body) ==
  CASE body.size = "empty"                              -> 400
    [] body.size = "over"                               -> 413
    [] body.size = "within" /\ ~Readable(body)          -> 415
    [] body.size = "within" /\ Readable(body)
                            /\ ~Meaningful(body)        -> 400
    [] OTHER                                            -> 0

(* The notification: where it comes from and what it asks for besides text. *)
Notification(body) ==
  IF body.media = "json" /\ body.doc = "object"
    THEN [source        |-> Source(body.source),
          send_history  |-> StrictTrue(body.history),
          send_analysis |-> StrictTrue(body.analysis)]
    ELSE [source        |-> IF body.media = "json" /\ body.doc = "kuma"
                              THEN "uptime_kuma" ELSE "shoutrrr",
          send_history  |-> FALSE,
          send_analysis |-> FALSE]

(* The optional branches deliver() starts for a notification. *)
Requested(notification) ==
  {b \in {"history", "analysis"} :
     /\ notification.source \in HistorySources
     /\ notification[IF b = "history" THEN "send_history" ELSE "send_analysis"]}
=============================================================================
