-------------------------- MODULE ReconnectPromise --------------------------
(***************************************************************************)
(* What the Reconnector promises about DNS, whatever the IPC handlers do   *)
(* around it (reconnect.go:103-106, 212-216, 311-314):                     *)
(*   - it starts a cycle only on a loss and never once it has given up;    *)
(*   - before its first attempt it has cut DNS off;                        *)
(*   - only a cycle that connected the tunnel opens DNS again;             *)
(*   - giving up leaves DNS cut off.                                       *)
(* DNS may be cut off at any other moment too (a proxy can die).           *)
(***************************************************************************)
VARIABLES
    phase,      \* "off", "watching", "cutting", "blocked" or "restoring"
    dns,        \* "open": a proxy answers; "blocked": none does
    gaveUp,     \* the circuit breaker has tripped and not been reset
    connected   \* the state of the tunnel, which others set as well

vars == <<phase, dns, gaveUp, connected>>

Init == phase = "watching" /\ dns = "open" /\ gaveUp = FALSE /\ connected = TRUE

Switch(on) == phase' = (IF on THEN "watching" ELSE "off") /\ UNCHANGED <<dns, gaveUp>>

TurnOn == phase = "off" /\ Switch(TRUE)

TurnOff == phase = "watching" /\ Switch(FALSE)

Lose ==
    /\ phase = "watching" /\ ~gaveUp
    /\ phase' = "cutting"
    /\ UNCHANGED <<dns, gaveUp>>

Cut ==
    /\ phase = "cutting"
    /\ phase' \in {"cutting", "blocked"}
    /\ dns' = "blocked"
    /\ UNCHANGED gaveUp

Recover ==
    /\ phase = "blocked"
    /\ phase' = "restoring"
    /\ connected' = TRUE
    /\ UNCHANGED <<dns, gaveUp>>

Restore ==
    /\ phase = "restoring"
    /\ phase' \in {"restoring", "watching"}
    /\ dns' \in {"open", "blocked"}
    /\ UNCHANGED gaveUp

GiveUp ==
    /\ phase = "blocked"
    /\ phase' = "watching"
    /\ gaveUp' = TRUE
    /\ UNCHANGED dns

Abandon ==
    /\ phase \in {"cutting", "blocked"}
    /\ phase' = "watching"
    /\ UNCHANGED <<dns, gaveUp>>

Reset == gaveUp' = FALSE /\ UNCHANGED <<phase, dns>>

Die == dns' = "blocked" /\ UNCHANGED <<phase, gaveUp>>

Next ==
    /\ connected' \in BOOLEAN
    /\ \/ TurnOn \/ TurnOff \/ Lose \/ Cut \/ Recover \/ Restore
       \/ GiveUp \/ Abandon \/ Reset \/ Die
       \/ UNCHANGED <<phase, dns, gaveUp>>

Spec == Init /\ [][Next]_vars
=============================================================================
