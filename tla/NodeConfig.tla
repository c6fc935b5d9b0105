----------------------------- MODULE NodeConfig -----------------------------
(***************************************************************************)
(* The configuration of a node and how the node gets into service with it  *)
(* (src/src/files.cpp, src/src/reprovision.cpp, setup() in main.cpp, the   *)
(* settings page and /update-fs in web.cpp).  A node whose /config.json    *)
(* cannot be loaded waits at the serial port; one that finds no WiFi waits *)
(* in recovery, where holding a button opens an access point with a form;  *)
(* one in service takes changes from the settings page.  Both forms go     *)
(* through mergeAndSaveConfig and end in a restart, and a filesystem       *)
(* update writes back the copy of the file it made half a second before.   *)
(*                                                                         *)
(* Of the settings the model keeps one text (for the six required strings, *)
(* which are treated alike), network_key with its JSON type, and           *)
(* active_env with an environment that overrides the text.  A file that is *)
(* open for writing and not closed has its old content after a power cut:  *)
(* LittleFS changes a file when it is closed.                              *)
(***************************************************************************)
EXTENDS Naturals

CONSTANTS
    Values,    \* texts an operator may type
    Digits,    \* those that are digits
    EnvText,   \* the text of environment "dev"
    KeyMax,    \* network keys are numbers up to this; 0 is not a key
    Absent,    \* no /config.json
    Garbled,   \* one that is not JSON
    NoFlash,
    Slots,     \* files a filesystem update has room to preserve
    Others,    \* files it preserves besides /config.json
    MaxActs    \* bound: what operators, the power and the WiFi do

NonTexts == {"number", "other"}   \* "other": a boolean, an object, a fraction
Texts == Values \cup NonTexts \cup {"null", "blank"}
Key(kind, n) == [kind |-> kind, n |-> n]
Keys  == {Key(k, 0) : k \in {"junk", "blank", "null"}}
           \cup {Key(k, n) : k \in {"num", "digits"}, n \in 0..KeyMax}
Envs  == {"base", "dev", "typo"}

Config == [text : Texts, key : Keys, env : Envs]

ASSUME ConfigAssumption ==
    /\ Values \cap (NonTexts \cup {"null", "blank", "mask", "omitted"}) = {}
    /\ Digits \subseteq Values /\ EnvText \in Values
    /\ KeyMax \in Nat /\ Slots \in Nat /\ Others \in Nat /\ MaxActs \in Nat
    /\ Absent \notin Config /\ Garbled \notin Config /\ Absent # Garbled
    /\ NoFlash \notin [saved : Config \cup {Absent, Garbled}, risky : BOOLEAN]

VARIABLES
    mode,    \* "boot", "provisioning", "connecting", "recovery", "softap", "running"
    doomed,  \* a restart is near, and the task that sleeps until then: "no", "http", "loop"
    file,    \* /config.json
    others,  \* how many of the other preserved files exist
    flash,   \* a scheduled filesystem update
    wifi,    \* the network can be reached with the stored credentials
    entered, \* history: what the operator has typed, field by field
    cause,   \* history: why the file may differ from that, or "none"
    acts

vars == <<mode, doomed, file, others, flash, wifi, entered, cause, acts>>

Act == acts < MaxActs /\ acts' = acts + 1

Empty == [text |-> "null", key |-> Key("null", 0), env |-> "base"]

Init ==
    /\ mode = "boot" /\ doomed = "no"
    /\ file = Absent /\ others = 0 /\ flash = NoFlash
    /\ wifi \in BOOLEAN
    /\ entered = Empty /\ cause = "new"
    /\ acts = 0
-----------------------------------------------------------------------------
(* Loading, merging and saving.                                            *)

\* cfg(): the active environment's text hides the one of the file.
TextOf(c) == IF c.env = "dev" THEN EnvText ELSE c.text

\* loadConfig: network_key must be a JSON number, and a text that is none is empty.
Loadable(c) ==
    /\ c \in Config
    /\ c.env # "typo" /\ TextOf(c) \in Values
    /\ c.key.kind = "num" /\ c.key.n # 0

\* A form: a field is left out, still shows the mask, or has been typed.
Posts == [text : Texts \cup {"mask", "omitted"},
          key  : {Key(k, 0) : k \in {"junk", "blank", "mask", "omitted"}}
                   \cup {Key(k, n) : k \in {"num", "digits"}, n \in 0..KeyMax},
          env  : Envs \cup {"omitted"}]

\* What a merge starts from; a file that cannot be read counts as empty.
Base == IF file \in Config THEN file ELSE Empty

\* Fault: the mask is a value like any other.
MergedWithMask(c, p) ==
    [text |-> IF p.text = "omitted" THEN c.text
              ELSE IF p.text \in Digits /\ c.text = "number" THEN "number" ELSE p.text,
     key  |-> IF p.key.kind \in {"mask", "omitted"} THEN c.key
              ELSE IF p.key.kind = "digits" /\ c.key.kind = "num" THEN Key("num", p.key.n)
              ELSE p.key,
     env  |-> IF p.env = "omitted" THEN c.env ELSE p.env]

\* mergeAndSaveConfig: what is left out or masked stays, and digits typed into a
\* form stay a number where there was one.
Merged(c, p) ==
    [text |-> IF p.text \in {"mask", "omitted"} THEN c.text
              ELSE IF p.text \in Digits /\ c.text = "number" THEN "number" ELSE p.text,
     key  |-> IF p.key.kind \in {"mask", "omitted"} THEN c.key
              ELSE IF p.key.kind = "digits" /\ c.key.kind = "num" THEN Key("num", p.key.n)
              ELSE p.key,
     env  |-> IF p.env = "omitted" THEN c.env ELSE p.env]

\* Fault: an active_env that names no environment passes.
ValidAnyEnv(c) ==
    /\ TextOf(c) \notin {"null", "blank"}
    /\ c.key.kind \notin {"null", "blank"}

\* Its check of the result: the environment exists and no required field of the
\* effective configuration is missing.  Of which type it is, is not looked at.
Valid(c) ==
    /\ c.env # "typo"
    /\ TextOf(c) \notin {"null", "blank"}
    /\ c.key.kind \notin {"null", "blank"}

\* What the operator wants: the fields typed, and the rest as it was; a text that is
\* left blank is to survive, says mergeAndSaveConfig.  (A blank active_env counts as
\* typed: it is the way back from an environment to the base.)
Wanted(p) ==
    [text |-> IF p.text \in {"mask", "omitted", "blank"} THEN entered.text ELSE p.text,
     key  |-> IF p.key.kind \in {"num", "digits"} THEN Key("num", p.key.n) ELSE entered.key,
     env  |-> IF p.env = "omitted" THEN entered.env ELSE p.env]

\* A key that is not a number, or 0, passes the check although no boot will load it.
UnusableKey(p) == p.key.kind = "junk" \/ (p.key.kind \in {"num", "digits"} /\ p.key.n = 0)

\* So does a text that is none, and one typed over a number may become one.
UnusableText(p) ==
    \/ TextOf(Merged(Base, p)) \in NonTexts
    \/ p.text \in Digits /\ Base.text = "number"

\* A filesystem update that is already scheduled has an older copy.
Raced(f) == IF f = NoFlash THEN f ELSE [f EXCEPT !.risky = TRUE]

\* mergeAndSaveConfig says yes, and the handler restarts the node after a moment.
\* Whether the text fitted into the filesystem is not looked at.
Save(p, fits) ==
    /\ Valid(Merged(Base, p))
    /\ file' = IF fits THEN Merged(Base, p) ELSE file
    /\ entered' = Wanted(p)
    /\ cause' = CASE ~fits -> "full"
                  [] fits /\ UnusableKey(p) -> "key"
                  [] fits /\ ~UnusableKey(p) /\ UnusableText(p) -> "type"
                  [] OTHER -> IF p.text = "blank" /\ cause = "none" THEN "blank" ELSE cause
    /\ flash' = Raced(flash)
    /\ doomed' = "http"
    /\ UNCHANGED <<mode, others, wifi>>

\* handleAdminConfig.  A form that is refused changes nothing.
AdminConfig(p, fits) == mode = "running" /\ doomed # "http" /\ Act /\ Save(p, fits)

\* handleProvisionSave; everything arrives as text.
ProvisionSave(p, fits) ==
    /\ mode = "softap" /\ doomed # "http" /\ p.key.kind # "num"
    /\ p.text \notin NonTexts \cup {"null"}
    /\ Act /\ Save(p, fits)
-----------------------------------------------------------------------------
(* Boot and WiFi.                                                          *)

\* esp_restart, from whichever task called it.
Reboot == mode' = "boot" /\ doomed' = "no"

Restart ==
    /\ doomed # "no" /\ Reboot
    /\ flash' = NoFlash
    /\ UNCHANGED <<file, others, wifi, entered, cause, acts>>

PowerCut ==
    /\ Act /\ Reboot
    /\ flash' = NoFlash
    /\ UNCHANGED <<file, others, wifi, entered, cause>>

\* setupFilesystem and setupConfig.
SetupConfig ==
    /\ mode = "boot"
    /\ mode' = IF Loadable(file) THEN "connecting" ELSE "provisioning"
    /\ IF Loadable(file) /\ cause # "none"
         THEN entered' = file /\ cause' = "none"
         ELSE UNCHANGED <<entered, cause>>
    /\ UNCHANGED <<doomed, file, others, flash, wifi, acts>>

\* runProvisioningMode: the line is written as it is.
Provision(c) ==
    /\ mode = "provisioning"
    /\ Act /\ Reboot
    /\ file' = c
    /\ cause' = "new"
    /\ UNCHANGED <<others, flash, wifi, entered>>

\* setupWifi: connected within 2.5 s, or not.
SetupWifi(connected) ==
    /\ mode = "connecting" /\ (connected => wifi)
    /\ mode' = IF connected THEN "running" ELSE "recovery"
    /\ UNCHANGED <<doomed, file, others, flash, wifi, entered, cause, acts>>

\* runWifiRecovery.
RecoveryConnects ==
    /\ mode = "recovery" /\ wifi
    /\ Reboot
    /\ UNCHANGED <<file, others, flash, wifi, entered, cause, acts>>

\* The button is held for 3 s.
HoldButton ==
    /\ mode = "recovery" /\ Act
    /\ mode' = "softap"
    /\ UNCHANGED <<doomed, file, others, flash, wifi, entered, cause>>

\* Fault: the access point stays open until somebody leaves it.
SoftApStays ==
    /\ mode = "softap" /\ Act
    /\ mode' = "recovery"
    /\ UNCHANGED <<doomed, file, others, flash, wifi, entered, cause>>

\* enterSoftApProvisioning returns, at the latest after 15 minutes.
SoftApCloses ==
    /\ mode = "softap"
    /\ mode' = "recovery"
    /\ UNCHANGED <<doomed, file, others, flash, wifi, entered, cause, acts>>

WifiChanges ==
    /\ Act
    /\ wifi' = ~wifi
    /\ UNCHANGED <<mode, doomed, file, others, flash, entered, cause>>
-----------------------------------------------------------------------------
(* A node in service.                                                      *)

\* checkSerialCommands: FACTORY_RESET.
FactoryReset ==
    /\ mode = "running" /\ doomed # "loop" /\ Act
    /\ file' = Absent /\ cause' = "reset"
    /\ flash' = Raced(flash)
    /\ doomed' = "loop"
    /\ UNCHANGED <<mode, others, wifi, entered>>

\* The first sale, error, refund or activity since the filesystem was made.
LogAppears ==
    /\ mode = "running" /\ others < Others
    /\ others' = others + 1
    /\ UNCHANGED <<mode, doomed, file, flash, wifi, entered, cause, acts>>

\* One file too many is written past the end of the array of copies.
Overflow == file # Absent /\ others + 1 > Slots

\* Fault: the file is not among those that are copied.
FsUploadForgets(copied) ==
    /\ mode = "running" /\ doomed # "http" /\ flash = NoFlash /\ Act
    /\ flash' = [saved |-> Absent, risky |-> ~copied \/ Overflow]
    /\ UNCHANGED <<mode, doomed, file, others, wifi, entered, cause>>

\* /update-fs: the files are copied, if there is memory, and the flash is scheduled.
FsUpload(copied) ==
    /\ mode = "running" /\ doomed # "http" /\ flash = NoFlash /\ Act
    /\ flash' = [saved |-> IF copied THEN file ELSE Absent, risky |-> ~copied \/ Overflow]
    /\ UNCHANGED <<mode, doomed, file, others, wifi, entered, cause>>

\* The timer of that update.  Update.begin fails and the old filesystem stays; or a
\* later step fails or the power is cut, and the next boot formats what is left; or
\* the copies are written back.  The overflow may end in any of these.
FsFlash(step) ==
    /\ flash # NoFlash
    /\ \/ step = "begin"  /\ UNCHANGED <<file, others, cause>>
       \/ step = "failed" /\ file' = Absent /\ others' = 0 /\ cause' = "flash"
       \/ /\ step = "restored"
          /\ file' \in IF flash.risky THEN {flash.saved, Absent} ELSE {flash.saved}
          /\ cause' = IF flash.risky THEN "flash" ELSE cause
          /\ UNCHANGED others
    /\ Reboot /\ flash' = NoFlash
    /\ UNCHANGED <<wifi, entered, acts>>

Saves == \E p \in Posts, fits \in BOOLEAN : AdminConfig(p, fits) \/ ProvisionSave(p, fits)

Flashes == \E step \in {"begin", "failed", "restored"} : FsFlash(step)

Next ==
    \/ Saves \/ Flashes
    \/ Restart \/ PowerCut \/ SetupConfig
    \/ \E c \in Config \cup {Garbled} : Provision(c)
    \/ \E connected \in BOOLEAN : SetupWifi(connected)
    \/ RecoveryConnects \/ HoldButton \/ SoftApCloses \/ WifiChanges
    \/ FactoryReset \/ LogAppears
    \/ \E copied \in BOOLEAN : FsUpload(copied)

Spec == Init /\ [][Next]_vars

\* The tasks and the timer go on, and of the boots that find the network again and
\* again one connects in time.
Fairness ==
    /\ WF_vars(Restart) /\ WF_vars(SetupConfig) /\ WF_vars(Flashes)
    /\ WF_vars(\E connected \in BOOLEAN : SetupWifi(connected)) /\ SF_vars(SetupWifi(TRUE))
    /\ WF_vars(RecoveryConnects) /\ WF_vars(SoftApCloses)

FairSpec == Spec /\ Fairness
-----------------------------------------------------------------------------
Files == Config \cup {Absent, Garbled}

TypeOK ==
    /\ mode \in {"boot", "provisioning", "connecting", "recovery", "softap", "running"}
    /\ doomed \in {"no", "http", "loop"}
    /\ file \in Files /\ others \in 0..Others
    /\ flash \in [saved : Files, risky : BOOLEAN] \cup {NoFlash}
    /\ wifi \in BOOLEAN
    /\ entered \in Config
    /\ cause \in {"none", "new", "reset", "key", "type", "blank", "full", "flash"}
    /\ acts \in 0..MaxActs

\* The file holds what the operator typed, field by field, through any sequence of
\* forms, restarts and filesystem updates: a mask that is sent back replaces no secret
\* and a number stays one.  The exceptions are events of their own: a factory reset,
\* a key no node can use, a text of a wrong type, a text left blank that an environment
\* covers (it is lost, although mergeAndSaveConfig says that it survives), a full
\* filesystem, and a filesystem update that fails, has more files to preserve than
\* room for, or overlaps with a change.
SettingsKept == cause = "none" => file = entered

\* A node that had a configuration is back at the serial port only after one of
\* those events, and not for a blank: of the forms that mergeAndSaveConfig accepts,
\* only one with an unusable key or a text of a wrong type gets it there.
StaysProvisioned == mode = "provisioning" => cause \notin {"none", "blank"}

\* A node with a configuration it can load, and a network that is there to stay, gets
\* into service for good, also out of recovery and an access point nobody uses.
ComesBack == <>[](wifi /\ Loadable(file)) => <>[](mode = "running")
=============================================================================
