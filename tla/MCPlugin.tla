------------------------------ MODULE MCPlugin ------------------------------
(***************************************************************************)
(* Values for checking PluginLifecycle: bodies that take each way through  *)
(* the parser and ask for one optional task each, which the two requests   *)
(* combine, and settings that differ from good ones in one field, at the   *)
(* edges of each range; the webhook listens only where it matters.         *)
(***************************************************************************)
EXTENDS PluginService, TLC

Body(m, d, h, a, s) ==
  [size |-> "within", media |-> m, utf8 |-> TRUE, doc |-> d, parts |-> TRUE,
   message |-> TRUE, source |-> s, history |-> h, analysis |-> a]

Asking == Body("json", "object", "true", "one", "blank")

MCBodies ==
  {Asking,
   [Asking EXCEPT !.size = "over"],
   [Asking EXCEPT !.source = "uptime_kuma"],
   Body("json", "object", "yes", "TRUE", "unknown")}

(* The two settings with which the webhook listens. *)
Good ==
  [f \in NumberFields |-> Absent] @@
  [base_url |-> "url", history_default_range |-> "absent", mode |-> "known",
   timezone |-> "blank", astrbot_timezone |-> "known", enabled |-> TRUE,
   path |-> "hook", token |-> Token("ascii", 0), targets |-> 2]

Sparse ==
  [Good EXCEPT !.path = "blank", !.token = Blank, !.targets = 1,
               !.port = Integer(65535)]

(* A number at an edge of its range; one that can be accepted comes without *)
(* the webhook.                                                            *)
Edges(f) ==
  {Boolean(1), Other} \cup
  {Integer(n) : n \in {Limits[f].min - 1, Limits[f].min, Limits[f].max,
                       Limits[f].max + 1, 0, -1}}

MCFiles ==
  {Good, Sparse, [Sparse EXCEPT !.targets = 0],
   [Good EXCEPT !.token = Token("non_ascii", 0)],
   [Good EXCEPT !.base_url = "blank"], [Good EXCEPT !.mode = "junk"],
   [Good EXCEPT !.timezone = "absent", !.astrbot_timezone = "junk"]}
  \cup {[Good EXCEPT !.path = p] : p \in {"healthz", "/healthz", "/{pattern}"}}
  \cup {[Good EXCEPT !.port = v] : v \in {Boolean(1), Other, Integer(0), Integer(65536)}}
  \cup UNION {{[Good EXCEPT ![f] = v, !.enabled = FALSE] : v \in Edges(f)} :
                f \in NumberFields \ {"port"}}
=============================================================================
