-------------------------- MODULE MCSystemQueries --------------------------
EXTENDS SystemQueries, TLC

Sel(id, name, partial) ==
  [id |-> id, name |-> name, partial |-> partial, empty |-> FALSE]

None == [id |-> {}, name |-> {}, partial |-> {}, empty |-> TRUE]

Asked(kind, selector) ==
  [kind |-> kind, selector |-> selector, allowed |-> TRUE, known_range |-> TRUE]

MCQueries == {1, 2}

(* A query that fills the cache, next to one that reads past it and one    *)
(* that uses it; one that pages through samples, or reads the parts of the *)
(* health, next to one that is refused.                                    *)
MCAsks ==
  {<<Asked("list", None), Asked("overview", None)>>,
   <<Asked("list", None), Asked("status", Sel({}, {2}, {1, 2}))>>,
   <<[Asked("status", None) EXCEPT !.allowed = FALSE],
     Asked("history", Sel({1}, {}, {1, 2}))>>,
   <<[Asked("history", Sel({1}, {}, {})) EXCEPT !.known_range = FALSE],
     Asked("health", None)>>,
   <<Asked("status", None), Asked("history", Sel({}, {}, {1, 2}))>>}
=============================================================================
