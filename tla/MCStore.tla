-------------------------------- MODULE MCStore --------------------------------
\* The orchestrator, twice, and dcm, whose segments refer to one another: a
\* logical cloud belongs to a project, a DIG refers to a logical cloud.
EXTENDS ResourceStore

CONSTANTS project, compositeApp, version, dig, cloud, orchestrator, replica, dcm, base, clouds, p, q, a, v, d, l

MCParentOf ==
    [r \in Resources |-> CASE r = project -> NoResource [] r = version -> compositeApp
                           [] r = dig -> version [] OTHER -> project]
MCReferencesOf == [r \in Resources |-> IF r = dig THEN {cloud} ELSE {}]
MCFileOf       == [s \in Services |-> IF s = dcm THEN clouds ELSE base]
MCResourcesOf  == [g \in Segments |-> IF g = clouds THEN {cloud} ELSE Resources \ {cloud}]
MCNameOf       == [g \in Segments |-> g]

App == {<<project, p>>, <<compositeApp, a>>, <<version, v>>}
MCKeys == {{<<project, p>>}, {<<project, q>>}, App, App \cup {<<dig, d>>},
           {<<project, p>>, <<cloud, l>>}}

================================================================================
