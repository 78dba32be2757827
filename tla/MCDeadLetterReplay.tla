------------------------- MODULE MCDeadLetterReplay -------------------------
(* Small instances of DeadLetterReplay for TLC. *)
EXTENDS DeadLetterReplay, TLC

CONSTANTS email, whatsapp, shopify, w1

\* The cases are independent of each other, so each message meets its own: email two
\* workers and a replay, WhatsApp media, Shopify replays of replays.
MCMediaOf == [i \in Ingresses |-> IF i = whatsapp THEN Media ELSE {}]
MCWorkersOf == [i \in Ingresses |-> IF i = email THEN Workers ELSE {w1}]
MCReplayBound ==
    [i \in Ingresses |-> IF i = shopify THEN 2 ELSE IF i = email THEN 1 ELSE 0]
=============================================================================
