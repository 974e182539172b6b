----------------------------- MODULE MC_SSOFlow -----------------------------
(* Instance of SSOFlow: a user's browser and another user's browser, one   *)
(* endpoint, and front-end states on the console host and on a foreign     *)
(* host.                                                                   *)
EXTENDS SSOFlow, TLC

CONSTANTS b1, b2, alice, mallory, e1, home, away, console, elsewhere

MCBrowsers == {b1, b2}
MCOwner == (b1 :> alice) @@ (b2 :> mallory)
(* SSO_OPTIONS " x, logout": a space and another option around it. *)
MCSSOOptions == <<" ", "x", ",", " ", "L">>
MCStateHost == (home :> console) @@ (away :> elsewhere)
=============================================================================
