-------------------------- MODULE RequestLifecycle --------------------------
(***************************************************************************)
(* What the client promises an application about one request at a time,    *)
(* without clocks, frames or buffers: a request is queued, its bytes are   *)
(* sent, its answer is awaited, and it ends exactly once with an outcome   *)
(* that never claims more than the client can know.                        *)
(***************************************************************************)
VARIABLES
  phase,      \* "idle", "queued", "sending" or "sent"
  changing,   \* the active request may change the PLC
  retired,    \* the transport may not carry another request before it is reset
  outcome     \* how the request ended in this step, or "none"

vars == <<phase, changing, retired, outcome>>

Outcomes == {"ok", "rejected", "failed", "unknown"}

TypeOK ==
  /\ phase \in {"idle", "queued", "sending", "sent"}
  /\ changing \in BOOLEAN
  /\ retired \in BOOLEAN
  /\ outcome \in Outcomes \cup {"none"}

Init ==
  /\ phase = "idle"
  /\ changing = FALSE
  /\ retired = FALSE
  /\ outcome = "none"

\* The application resets the transport and configures the client.
Open ==
  /\ phase = "idle"
  /\ retired' = FALSE
  /\ outcome' = "none"
  /\ UNCHANGED <<phase, changing>>

Admit ==
  /\ phase = "idle" /\ ~retired
  /\ phase' = "queued"
  /\ changing' \in BOOLEAN
  /\ outcome' = "none"
  /\ UNCHANGED retired

BeginSending ==
  /\ phase = "queued"
  /\ phase' = "sending"
  /\ outcome' = "none"
  /\ UNCHANGED <<changing, retired>>

\* A deadline reached while the line is being driven retires the transport only.
Overrun ==
  /\ phase = "sending"
  /\ retired' = TRUE
  /\ outcome' = "none"
  /\ UNCHANGED <<phase, changing>>

\* A request whose sending overran its deadline never reaches the wait for an answer.
EndSending ==
  /\ phase = "sending" /\ ~retired
  /\ phase' = "sent"
  /\ outcome' = "none"
  /\ UNCHANGED <<changing, retired>>

End(result) ==
  /\ phase' = "idle"
  /\ changing' = FALSE
  /\ outcome' = result

\* Nothing was sent: the failure is definite and the transport is as good as before.
Withdraw ==
  /\ phase = "queued"
  /\ End("failed")
  /\ UNCHANGED retired

\* Sent, but not confirmed: a request that may have changed the PLC says so.
GiveUp ==
  /\ phase \in {"sending", "sent"}
  /\ End(IF changing THEN "unknown" ELSE "failed")
  /\ retired' \in {retired, TRUE}

\* An answer, or the end of a transmission that has none.
Conclude ==
  /\ phase \in {"sending", "sent"} /\ ~retired
  /\ \/ End("ok")
     \/ phase = "sent" /\ End("rejected")
  /\ UNCHANGED retired

\* Nothing visible happens, except that the last outcome is no longer news.
Idle ==
  /\ outcome' = "none"
  /\ UNCHANGED <<phase, changing, retired>>

Next ==
  \/ Open \/ Admit \/ BeginSending \/ Overrun \/ EndSending
  \/ Withdraw \/ GiveUp \/ Conclude \/ Idle

Spec == Init /\ [][Next]_vars
=============================================================================
