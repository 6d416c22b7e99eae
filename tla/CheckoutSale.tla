----------------------------- MODULE CheckoutSale -----------------------------
(***************************************************************************)
(* What the checkout throttle promises, without queue, rate tracker,       *)
(* workers or locks: clients join, are sold one unit each, and leave.      *)
(* ThrottleDriver is shown to implement it.  The guard of a sale is that   *)
(* of TryThrottleStateTransition: the stock count is not negative.         *)
(***************************************************************************)
EXTENDS Integers

CONSTANTS
    Clients,    \* client ids
    Stock       \* inventoryStockTotal

VARIABLES
    state,              \* throttle state of each client
    hitCheckoutStep,    \* HitCheckoutStep of each client
    inventory,          \* GlobalInventoryCounter
    ctxDone             \* the sale is closed

saleVars == <<state, hitCheckoutStep, inventory, ctxDone>>

States == {"initial", "queued", "inCheckout", "exited"}

Init ==
    /\ state = [c \in Clients |-> "initial"]
    /\ hitCheckoutStep = [c \in Clients |-> FALSE]
    /\ inventory = Stock
    /\ ctxDone = FALSE

Join(c) ==
    /\ state[c] = "initial"
    /\ state' = [state EXCEPT ![c] = "queued"]
    /\ UNCHANGED <<hitCheckoutStep, inventory, ctxDone>>

Sell(c) ==
    /\ state[c] = "queued" /\ ~hitCheckoutStep[c]
    /\ inventory >= 0
    /\ state' = [state EXCEPT ![c] = "inCheckout"]
    /\ hitCheckoutStep' = [hitCheckoutStep EXCEPT ![c] = TRUE]
    /\ inventory' = inventory - 1
    /\ UNCHANGED ctxDone

\* A client leaves from any state; leaving twice changes nothing.
Leave(c) ==
    /\ state' = [state EXCEPT ![c] = "exited"]
    /\ UNCHANGED <<hitCheckoutStep, inventory, ctxDone>>

Close ==
    /\ ~ctxDone
    /\ ctxDone' = TRUE
    /\ UNCHANGED <<state, hitCheckoutStep, inventory>>

Next == Close \/ \E c \in Clients : Join(c) \/ Sell(c) \/ Leave(c)

Spec == Init /\ [][Next]_saleVars
=============================================================================
