------------------------------ MODULE CoinSlot ------------------------------
(***************************************************************************)
(* What the coin window of an EllaFi kiosk promises its clients, without   *)
(* tasks, queues and sockets: one client at a time holds the window, every *)
(* coin inserted goes on the tab of the client that holds it, and a closed *)
(* window is settled for exactly that client and that tab before the next  *)
(* window is closed.  CoinSession implements this.                         *)
(***************************************************************************)
EXTENDS Naturals

CONSTANTS Clients, NoClient

VARIABLES
    holder,     \* the client that holds the window
    tab,        \* coins counted in the window
    settling,   \* the client whose closed window is being settled
    bill        \* the coins it is settled for

slotVars == <<holder, tab, settling, bill>>

SlotInit == holder = NoClient /\ tab = 0 /\ settling = NoClient /\ bill = 0

Claim(c) ==
    /\ holder = NoClient
    /\ holder' = c
    /\ UNCHANGED <<tab, settling, bill>>

\* The claim could not be served after all.
Release ==
    /\ holder # NoClient /\ tab = 0
    /\ holder' = NoClient
    /\ UNCHANGED <<tab, settling, bill>>

Insert ==
    /\ holder # NoClient
    /\ tab' = tab + 1
    /\ UNCHANGED <<holder, settling, bill>>

\* The window closes; an aborted one is settled for nothing.
Close(aborted) ==
    /\ holder # NoClient /\ settling = NoClient
    /\ holder' = NoClient /\ settling' = holder
    /\ tab' = 0
    /\ bill' = IF aborted THEN 0 ELSE tab

Settle ==
    /\ settling # NoClient
    /\ settling' = NoClient /\ bill' = 0
    /\ UNCHANGED <<holder, tab>>

SlotNext ==
    \/ \E c \in Clients : Claim(c)
    \/ Release \/ Insert \/ Settle
    \/ \E aborted \in BOOLEAN : Close(aborted)

SlotSpec == SlotInit /\ [][SlotNext]_slotVars
=============================================================================
