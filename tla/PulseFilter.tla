---------------------------- MODULE PulseFilter ----------------------------
(***************************************************************************)
(* The decision coinPulseTask (src/src/coin.cpp) takes on each pulse it    *)
(* receives, as operators: a pulse is judged from the facts the code       *)
(* compares (is the window open, is the acceptor still booting, is the     *)
(* pulse too short, does it follow the last accepted one too closely).     *)
(* How a module represents time decides how it computes those facts.       *)
(***************************************************************************)
EXTENDS Naturals

\* PulseSource of globals.h: the acceptor pin, the boot button, a slave's
\* COIN_INSERTED message.
Sources == {"slot", "button", "net"}

\* What becomes of a pulse.
Verdicts == {"captured", "outside", "suppressed", "narrow", "close", "accepted"}

\* The cascade of early `continue`s of coinPulseTask, in the code's order.
\* prevSet: an accepted pulse is remembered (prevAcceptedTimestampMicros > 0).
Verdict(bootTest, accepting, booting, src, narrow, prevSet, close) ==
    IF bootTest                                     THEN "captured"
    ELSE IF ~accepting                              THEN "outside"
    ELSE IF booting                                 THEN "suppressed"
    ELSE IF src \in {"slot", "button"} /\ narrow   THEN "narrow"
    ELSE IF src = "slot" /\ prevSet /\ close       THEN "close"
    ELSE "accepted"

Fraudulent == {"narrow", "close"}

\* fraudCountThisSession after a verdict.  The code only ever compares it
\* with the limit, so the model stops counting there.
NextFraud(v, fraud, limit) ==
    CASE v = "outside"                         -> 0
      [] v \in Fraudulent /\ fraud < limit     -> fraud + 1
      [] OTHER                                 -> fraud

\* Whether an accepted pulse is remembered after a verdict.
NextPrevSet(v, prevSet) ==
    CASE v \in {"outside", "close"} -> FALSE
      [] v = "accepted"             -> TRUE
      [] OTHER                      -> prevSet

\* abortSessionForFraud is called: on the master, when the limit is reached.
AbortsSession(v, fraud, limit) ==
    v \in Fraudulent /\ NextFraud(v, fraud, limit) >= limit
=============================================================================
