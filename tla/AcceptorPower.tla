--------------------------- MODULE AcceptorPower ----------------------------
(***************************************************************************)
(* Who switches the coin acceptor's power, and what the LED shows.         *)
(* coinSessionTask, loop() and setup() tell LedTask what happened by a     *)
(* task notification, a single value that a later one overwrites; LedTask  *)
(* sets the power pin.  handleProgram and the boot test set the pin        *)
(* themselves.                                                             *)
(*                                                                         *)
(* coinSessionTask can notify at any time.  loop() has a lower priority    *)
(* than LedTask on the same core, so it runs only while LedTask waits: for *)
(* a notification, or for the LED strip inside LED_STRIP.show().           *)
(***************************************************************************)
EXTENDS Naturals

CONSTANT MaxOutages   \* bound: changes of the service from ready to not ready

ASSUME PowerAssumption == MaxOutages \in Nat

VARIABLES
    ready,      \* isServiceReady, module ServiceHealth
    wasReady,   \* loop(): the state it last told LedTask about
    claim,      \* the coin window: "none", "claimed", "open"
    note,       \* LedTask's pending notification
    led,        \* LedTask: booting, blinking, error, and show: inside LED_STRIP.show()
    power,      \* COINSLOT_POWER_PIN is HIGH
    program,    \* COINSLOT_PROGRAM_MODE
    test,       \* the boot test: "none", "off", "on"
    boot,       \* setup(): "web" served, "tasks" created, "done"
    early,      \* history: the open window was opened before setup() had ended
    outages     \* times the service was lost, or missing when setup() ended

powerVars == <<ready, wasReady, claim, note, led, power, program, test, boot, early, outages>>

\* setup() has LedTask running, has told it the node's role, which only sets a
\* colour, and perhaps of a step it had to repeat (RETRY_ON_FAIL), and has just
\* started the web server (setupWeb).
PowerInit ==
    /\ ready = FALSE /\ wasReady = TRUE
    /\ claim = "none" /\ note = "none"
    /\ \E failed \in BOOLEAN :
         led = [booting |-> ~failed, blinking |-> FALSE, error |-> failed, show |-> FALSE]
    /\ power = FALSE /\ program = FALSE /\ test = "none"
    /\ boot = "web" /\ early = FALSE /\ outages = 0

ServiceChanges ==
    /\ ready => outages < MaxOutages
    /\ ready' = ~ready
    /\ outages' = IF ready THEN outages + 1 ELSE outages
    /\ UNCHANGED <<wasReady, claim, note, led, power, program, test, boot, early>>

\* xTaskNotify with eSetValueWithOverwrite (ledReady, ledError, ...).
Notify(n) == note' = n

\* setupTasks: coinSessionTask begins to take what has been claimed meanwhile.
SetupTasks ==
    /\ boot = "web"
    /\ boot' = "tasks"
    /\ UNCHANGED <<ready, wasReady, claim, note, led, power, program, test, early, outages>>

\* setup() and loop() run only while LedTask waits.
LoopTaskRuns == note = "none" \/ led.show

\* setup() ends with ledReady, whatever has been claimed and opened by then, and
\* whether or not there is a service.
LedReady ==
    /\ boot = "tasks" /\ LoopTaskRuns
    /\ boot' = "done" /\ Notify("READY")
    /\ early' = (claim = "open")
    /\ outages' = IF ready THEN outages ELSE outages + 1
    /\ UNCHANGED <<ready, wasReady, claim, led, power, program, test>>

\* Fault: the end of an outage is not passed on.
LoopNotifiesLatched ==
    /\ boot = "done" /\ LoopTaskRuns
    /\ ready # wasReady
    /\ ~ready /\ Notify("ERROR")
    /\ wasReady' = ready
    /\ UNCHANGED <<ready, claim, led, power, program, test, boot, early, outages>>

\* loop(): a change of the service is passed on.
LoopNotifies ==
    /\ boot = "done" /\ LoopTaskRuns
    /\ ready # wasReady
    /\ Notify(IF ready THEN "READY" ELSE "ERROR")
    /\ wasReady' = ready
    /\ UNCHANGED <<ready, claim, led, power, program, test, boot, early, outages>>
-----------------------------------------------------------------------------
(* The coin window, module CoinSession.                                    *)

Claim ==
    /\ ready /\ claim = "none" /\ test = "none"
    /\ claim' = "claimed"
    /\ UNCHANGED <<ready, wasReady, note, led, power, program, test, boot, early, outages>>

\* coinSessionTask, which setupTasks creates, takes the START.
OpenWindow ==
    /\ claim = "claimed" /\ boot # "web"
    /\ claim' = "open" /\ Notify("START")
    /\ UNCHANGED <<ready, wasReady, led, power, program, test, boot, early, outages>>

\* Fault: the window closes without a word to LedTask.
CloseSilently ==
    /\ claim = "open"
    /\ claim' = "none" /\ early' = FALSE
    /\ UNCHANGED <<ready, wasReady, note, led, power, program, test, boot, outages>>

CloseWindow ==
    /\ claim = "open"
    /\ claim' = "none" /\ early' = FALSE /\ Notify("STOP")
    /\ UNCHANGED <<ready, wasReady, led, power, program, test, boot, outages>>
-----------------------------------------------------------------------------
(* ledTask.                                                                *)

\* Fault: START blinks but does not switch the acceptor on.
LedAppliesNoStart(n) ==
    /\ led' = [booting  |-> FALSE,
               blinking |-> n = "START",
               error    |-> n = "ERROR" \/ (n = "STOP" /\ led.error),
               show     |-> n \in {"READY", "STOP"}]
    /\ power' = (power /\ n \in {"START", "ERROR"})

\* Fault: READY leaves the power pin alone.
LedAppliesKeepOnReady(n) ==
    /\ led' = [booting  |-> (n = "STOP" /\ led.booting),
               blinking |-> n = "START",
               error    |-> n = "ERROR" \/ (n = "STOP" /\ led.error),
               show     |-> n \in {"READY", "STOP"}]
    /\ power' = CASE program \/ n \in {"ERROR", "READY"} -> power
                  [] OTHER -> n = "START"

\* What a notification does: READY and STOP switch the acceptor off, START on,
\* ERROR leaves it; in program mode the pin is left alone.  STOP keeps the error.
LedApplies(n) ==
    /\ led' = [booting  |-> (n = "STOP" /\ led.booting),
               blinking |-> n = "START",
               error    |-> n = "ERROR" \/ (n = "STOP" /\ led.error),
               show     |-> n \in {"READY", "STOP"}]
    /\ power' = IF program \/ n = "ERROR" THEN power ELSE n = "START"

LedTask ==
    /\ note # "none" /\ ~led.show
    /\ LedApplies(note)
    /\ note' = "none"
    /\ UNCHANGED <<ready, wasReady, claim, program, test, boot, early, outages>>

\* The wait timed out: the next phase of a blink is shown.
LedToggles ==
    /\ note = "none" /\ ~led.show
    /\ led.booting \/ led.blinking \/ led.error
    /\ led' = [led EXCEPT !.show = TRUE]
    /\ UNCHANGED <<ready, wasReady, claim, note, power, program, test, boot, early, outages>>

LedShown ==
    /\ led.show
    /\ led' = [led EXCEPT !.show = FALSE]
    /\ UNCHANGED <<ready, wasReady, claim, note, power, program, test, boot, early, outages>>
-----------------------------------------------------------------------------
(* Maintenance.                                                            *)

\* handleProgram: the acceptor stays powered until the node restarts.
Program ==
    /\ program' = TRUE /\ power' = TRUE
    /\ UNCHANGED <<ready, wasReady, claim, note, led, test, boot, early, outages>>

\* coinBootTestStart and the power-off that begins a cycle of coinBootTestTask.
TestOff ==
    /\ \/ test = "none" /\ claim = "none"
       \/ test = "on"
    /\ test' = "off" /\ power' = FALSE
    /\ UNCHANGED <<ready, wasReady, claim, note, led, program, boot, early, outages>>

\* The acceptor is switched on again after BOOTTEST_OFF_MILLIS, far longer than
\* LedTask needs for a notification.
TestOn ==
    /\ test = "off" /\ note = "none" /\ ~led.show
    /\ test' = "on" /\ power' = TRUE
    /\ UNCHANGED <<ready, wasReady, claim, note, led, program, boot, early, outages>>

TestEnd ==
    /\ test = "on"
    /\ test' = "none" /\ power' = FALSE
    /\ UNCHANGED <<ready, wasReady, claim, note, led, program, boot, early, outages>>

PowerNext ==
    \/ ServiceChanges \/ SetupTasks \/ LedReady \/ LoopNotifies
    \/ Claim \/ OpenWindow \/ CloseWindow
    \/ LedTask \/ LedToggles \/ LedShown
    \/ Program \/ TestOff \/ TestOn \/ TestEnd

\* LedTask, setup() and loop() keep running; a claimed window opens and closes, and a boot
\* test ends.
PowerSpec ==
    /\ PowerInit /\ [][PowerNext]_powerVars
    /\ WF_powerVars(SetupTasks) /\ WF_powerVars(LedReady)
    /\ WF_powerVars(LedTask) /\ WF_powerVars(LedShown) /\ WF_powerVars(LoopNotifies)
    /\ WF_powerVars(OpenWindow) /\ WF_powerVars(CloseWindow)
    /\ WF_powerVars(TestOn) /\ SF_powerVars(TestEnd)
-----------------------------------------------------------------------------
\* LedTask has seen everything and nobody else drives the pin.
Quiet == note = "none" /\ ~led.show /\ ~program /\ test = "none"

\* Until the first outage, from power-up on: with no window open the acceptor is off, so that no
\* coin is taken for nobody, however windows and boot tests follow each other.
\* (After one, ERROR may have overwritten the STOP of a window.)
OffWhenIdle == outages = 0 /\ Quiet /\ claim # "open" => ~power

\* Until the first outage, in a window opened after setup() had ended: the acceptor
\* is on, so that the coins it asks for count.  (After an outage, READY may switch
\* it off in a window, and so does the READY that ends setup() in a window a client
\* was quick enough to open before it.)
OnInWindow == outages = 0 /\ ~early /\ Quiet /\ claim = "open" => power

\* The acceptor does not stay powered for nobody once the node is back in service.
OffAfterOutage ==
    <>[](ready /\ claim = "none" /\ ~program /\ test = "none") => <>[]~power

\* No window is claimed or open during setup(), or while a change of the service is
\* on its way from loop() to LedTask.
Undisturbed ==
    claim # "none" => boot = "done" /\ ready /\ wasReady /\ note \notin {"READY", "ERROR"}

\* If windows keep clear of the changes, the LED's error blink ends up following the
\* service, over any number of outages, missing services at power-up included.
\* (A START or a STOP that overwrites the change, or a START after it, can leave the
\* LED wrong until the next one: STOP keeps a red that READY should have cleared,
\* START clears the red of an outage that goes on.)
LedFollows ==
    []Undisturbed => /\ <>[]ready => <>[]~led.error
                     /\ <>[]~ready => <>[]led.error
=============================================================================
