---------------------------- MODULE MCDesignRuns ----------------------------
(***************************************************************************)
(* An instance of DesignRuns for TLC: the four stages, with resources of   *)
(* each kind (a text style goes the way of a variable) and an alias.       *)
(***************************************************************************)
EXTENDS DesignRuns

MCKind == [system |-> "page", tokens |-> "listed", color |-> "variable", action |-> "variable",
           button |-> "component", mini |-> "page", home |-> "screen",
           admin |-> "page", audit |-> "darkScreen"]

MCWithin == [k \in DOMAIN MCKind |->
               CASE k \in {"color", "action"} -> "tokens"
                 [] k = "button"              -> "system"
                 [] k = "home"                -> "mini"
                 [] k = "audit"               -> "admin"
                 [] OTHER                     -> None]

MCAlias == [k \in DOMAIN MCKind |-> IF k = "action" THEN "color" ELSE None]

MCSteps == [foundations |-> <<"system", "tokens", "color", "action">>,
            components  |-> <<"system", "button">>,
            miniApp     |-> <<"mini", "home">>,
            adminWeb    |-> <<"admin", "audit">>]

MCStages == DOMAIN MCSteps

MCPrereqs == [foundations |-> {}, components |-> {"foundations"},
              miniApp |-> {"foundations", "components"}, adminWeb |-> {"foundations", "components"}]
=============================================================================
