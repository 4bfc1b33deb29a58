---------------------------- MODULE MCConfigFile ----------------------------
(* Instances of ConfigFile: files of an installation.                      *)
EXTENDS ConfigFile

\* configs/config.yaml as installed, and edited so that an endpoint exists
\* and the API has a token.
Shipped(endpoint, api, auth) ==
  <<Line(0, "bandwidth", ""), Line(1, "default_rx_mbps", "100"),
    Line(0, "webhook", ""), Line(1, "enabled", "false"), Line(1, "endpoints", "")>>
  \o (IF endpoint THEN <<Line(2, "url", "u0"), Line(2, "enabled", "true")>> ELSE <<>>)
  \o <<Line(0, "api", ""), Line(1, "enabled", api), Line(1, "auth_token", auth),
       Line(0, "timezone", "Asia/Kolkata")>>

Complete == {Shipped(TRUE, "true", "")}

\* What the theorems assume holds of what is shipped, with or without them.
ASSUME ShippedIsPlain ==
  \A endpoint \in BOOLEAN, api \in {"true", "false"} : Plain(Shipped(endpoint, api, ""))

\* Written by hand: what is missing has its default.
ByHand == {<<Line(0, "bandwidth", ""), Line(1, "default_rx_mbps", "100"),
             Line(0, "webhook", ""), Line(1, "endpoints", ""),
             Line(2, "url", "u0"), Line(2, "enabled", "true"),
             Line(0, "timezone", "UTC")>>}
=============================================================================
