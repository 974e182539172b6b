------------------------- MODULE MC_EndpointConnect -------------------------
(* Model-checking instance of EndpointConnect: an admin and a plain user,  *)
(* an auto-registered cf endpoint that shares the console UAA, a second    *)
(* endpoint of another loaded type, and one of a type with no plugin.      *)
EXTENDS EndpointConnect

CONSTANTS admin, alice, cfAuto, k8s, other

MCUsers == {admin, alice}
MCAdmins == {admin}
MCEndpoints == {cfAuto, k8s, other}
MCCNSIType == [e \in MCEndpoints |->
                 IF e = cfAuto THEN "cf" ELSE IF e = k8s THEN "k8s" ELSE "metrics"]
MCPluginTypes == {"cf", "k8s"}
MCAutoRegURL == {cfAuto}
MCSameUAA == {cfAuto}

\* The result and the user view of a finished request never influence a
\* later step, so states that differ only in them are identified; the view
\* is checked by an action property, on every step that produces one.
MCView == <<store, [r \in DOMAIN req |-> [req[r] EXCEPT !.result = "none",
                                                      !.view = NoView,
                                                      !.shared = FALSE]],
            nextTok>>
=============================================================================
