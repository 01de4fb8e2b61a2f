--------------------------- MODULE TokenRegistry ---------------------------
(***************************************************************************)
(* What the relay promises about push tokens (relay/README.md, "One active *)
(* device per token"): each token has at most one holder, the device whose *)
(* endpoints deliver to it, and a device holds at most one token.          *)
(***************************************************************************)
CONSTANTS Device, Token

VARIABLE holds   \* <<device, token>>: the device its endpoints deliver to

\* Registering a token, or moving a device to it: the token's former holder
\* loses it and d gives up the token it held.
Take(d, t) == holds' = {h \in holds : h[1] # d /\ h[2] # t} \cup {<<d, t>>}

\* Deletion, purge, or a rejection by APNs/FCM.
Lose == holds' \subseteq holds

Init == holds = {}

Next == Lose \/ \E d \in Device, t \in Token : Take(d, t)

Spec == Init /\ [][Next]_holds
=============================================================================
