--------------------------- MODULE LoginLifecycle ---------------------------
(***************************************************************************)
(* What internal/telegram/auth promises to its callers: one login state    *)
(* and at most one login attempt in progress, which alone moves the state  *)
(* anywhere but back to logged_out.  No channels, goroutines, generations  *)
(* or requests: AuthFlow is shown to implement this.                       *)
(***************************************************************************)

VARIABLES
    state,  \* what Status reports
    live    \* the kind of the attempt in progress: "none", "code" or "qr"

lifecycleVars == <<state, live>>

LifecycleInit == state = "logged_out" /\ live = "none"

\* A code login begins; the state stays until Telegram is asked for the code.
BeginCode == live = "none" /\ live' = "code" /\ UNCHANGED state

\* A QR login begins, preempting whatever is in progress.
BeginQR == live' = "qr" /\ state' = "logged_out"

AskCode ==
    /\ live = "code"
    /\ state \in {"logged_out", "logged_in"}
    /\ state' = "wait_code"
    /\ UNCHANGED live

AskPassword ==
    /\ live = "code"
    /\ state = "wait_code"
    /\ state' = "wait_password"
    /\ UNCHANGED live

Succeed ==
    /\ live # "none"
    /\ state' = "logged_in"
    /\ live' = "none"

\* The attempt fails or its request is abandoned, or the user logs out.
EndLoggedOut == state' = "logged_out" /\ live' = "none"

LifecycleNext ==
    \/ BeginCode \/ BeginQR \/ AskCode \/ AskPassword \/ Succeed \/ EndLoggedOut

LifecycleSpec == LifecycleInit /\ [][LifecycleNext]_lifecycleVars

=============================================================================
