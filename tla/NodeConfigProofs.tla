-------------------------- MODULE NodeConfigProofs --------------------------
(***************************************************************************)
(* Proofs about NodeConfig, for any texts, keys, numbers of files and      *)
(* bounds.                                                                 *)
(***************************************************************************)
EXTENDS NodeConfig, TLAPS

\* What the operator typed can be loaded, and a filesystem update that nothing went
\* wrong with has a copy of it.  With a blank in it the file can be loaded, too, and
\* the node is about to do so.
Intact ==
    /\ cause = "none" => Loadable(entered)
    /\ cause = "blank" => /\ Loadable(file)
                          /\ doomed = "http" \/ mode = "boot"
                          /\ flash # NoFlash => flash.risky
    /\ flash # NoFlash => mode = "running"
    /\ flash # NoFlash /\ ~flash.risky /\ cause = "none" => flash.saved = entered

\* The inductive invariant.
IInv == TypeOK /\ SettingsKept /\ StaysProvisioned /\ Intact
-----------------------------------------------------------------------------
\* The merge of a form with a configuration is a configuration.
LEMMA MergedType == ASSUME NEW c \in Config, NEW p \in Posts PROVE Merged(c, p) \in Config
<1> DEFINE mt == IF p.text \in {"mask", "omitted"} THEN c.text
                 ELSE IF p.text \in Digits /\ c.text = "number" THEN "number" ELSE p.text
           mk == IF p.key.kind \in {"mask", "omitted"} THEN c.key
                 ELSE IF p.key.kind = "digits" /\ c.key.kind = "num" THEN Key("num", p.key.n)
                 ELSE p.key
           me == IF p.env = "omitted" THEN c.env ELSE p.env
<1>1. mt \in Texts
  BY DEF Config, Posts, Texts, NonTexts
<1>2. mk \in Keys
  BY DEF Config, Posts, Keys, Key
<1>3. me \in Envs
  BY DEF Config, Posts
<1>4. Merged(c, p) = [text |-> mt, key |-> mk, env |-> me]
  BY DEF Merged
<1> HIDE DEF mt, mk, me
<1> QED BY <1>1, <1>2, <1>3, <1>4 DEF Config

\* So is what the operator wants.
LEMMA WantedType == ASSUME entered \in Config, NEW p \in Posts PROVE Wanted(p) \in Config
<1> DEFINE mt == IF p.text \in {"mask", "omitted", "blank"} THEN entered.text ELSE p.text
           mk == IF p.key.kind \in {"num", "digits"} THEN Key("num", p.key.n) ELSE entered.key
           me == IF p.env = "omitted" THEN entered.env ELSE p.env
<1>1. mt \in Texts
  BY DEF Config, Posts, Texts, NonTexts
<1>2. mk \in Keys
  BY DEF Config, Posts, Keys, Key
<1>3. me \in Envs
  BY DEF Config, Posts
<1>4. Wanted(p) = [text |-> mt, key |-> mk, env |-> me]
  BY DEF Wanted
<1> HIDE DEF mt, mk, me
<1> QED BY <1>1, <1>2, <1>3, <1>4 DEF Config

\* From a configuration that can be loaded, a form that passes the check of
\* mergeAndSaveConfig gives one that can be loaded, if its key is usable and its text a
\* text.
LEMMA MergeLoads ==
  ASSUME NEW c \in Config, NEW p \in Posts, Loadable(c),
         Valid(Merged(c, p)), ~UnusableKey(p), TextOf(Merged(c, p)) \notin NonTexts
  PROVE  Loadable(Merged(c, p)) /\ p.key.kind \in {"mask", "omitted", "num", "digits"}
<1>1. p.key.kind \in {"mask", "omitted", "num", "digits"}
  BY DEF Posts, Key, UnusableKey, Valid, Merged
<1>2. c.key.kind = "num" /\ c.key.n # 0
  BY DEF Loadable
<1>3. Merged(c, p) \in Config
  BY MergedType
<1>4. Merged(c, p).key.kind = "num" /\ Merged(c, p).key.n # 0
  BY <1>1, <1>2 DEF Merged, UnusableKey, Key
<1>5. Merged(c, p).env # "typo" /\ TextOf(Merged(c, p)) \notin {"null", "blank"}
  BY DEF Valid
<1>6. TextOf(Merged(c, p)) \in Texts
  BY <1>3, ConfigAssumption DEF TextOf, Config, Texts
<1>7. TextOf(Merged(c, p)) \in Values
  BY <1>5, <1>6 DEF Texts
<1> QED BY <1>1, <1>3, <1>4, <1>5, <1>7 DEF Loadable

\* The merge of mergeAndSaveConfig against its reference: from a configuration that can
\* be loaded, such a form without a blank gives the fields typed and the rest as it was.
LEMMA MergeCorrect ==
  ASSUME NEW p \in Posts, entered \in Config, Loadable(entered),
         Valid(Merged(entered, p)), ~UnusableKey(p),
         TextOf(Merged(entered, p)) \notin NonTexts,
         ~(p.text \in Digits /\ entered.text = "number"),
         p.text # "blank"
  PROVE  Merged(entered, p) = Wanted(p) /\ Loadable(Wanted(p))
<1>1. Loadable(Merged(entered, p)) /\ p.key.kind \in {"mask", "omitted", "num", "digits"}
  BY MergeLoads
<1>2. p.key.kind = "num" => p.key = Key("num", p.key.n)
  BY DEF Posts, Key
<1>3. entered.key.kind = "num"
  BY DEF Loadable
<1>4. Merged(entered, p) = Wanted(p)
  BY <1>1, <1>2, <1>3 DEF Merged, Wanted
<1> QED BY <1>1, <1>4
-----------------------------------------------------------------------------
\* The initial states.
LEMMA InitInv == Init => IInv
<1> SUFFICES ASSUME Init PROVE IInv OBVIOUS
<1>1. Empty \in Config
  BY ConfigAssumption DEF Empty, Config, Texts, Keys, Key, Envs
<1>2. wifi \in BOOLEAN
  BY DEF Init
<1>3. TypeOK
  BY <1>1, <1>2, ConfigAssumption DEF Init, TypeOK, Files
<1>4. SettingsKept /\ StaysProvisioned /\ Intact
  BY DEF Init, SettingsKept, StaysProvisioned, Intact
<1> QED BY <1>3, <1>4 DEF IInv

\* A scheduled update that overlaps with a change is marked.
LEMMA RacedFlash ==
  ASSUME flash \in [saved : Files, risky : BOOLEAN] \cup {NoFlash}
  PROVE  /\ Raced(flash) \in [saved : Files, risky : BOOLEAN] \cup {NoFlash}
         /\ Raced(flash) # NoFlash => flash # NoFlash /\ Raced(flash).risky
  BY ConfigAssumption DEF Raced, Files

\* A form is saved (AdminConfig and ProvisionSave).
LEMMA SaveInv ==
  ASSUME IInv, NEW p \in Posts, NEW fits \in BOOLEAN, Act, Save(p, fits),
         mode \in {"running", "softap"}
  PROVE  IInv'
<1>1. Base \in Config
  BY ConfigAssumption DEF Base, Empty, Config, Texts, Keys, Key, Envs
<1>2. file' \in Files
  BY <1>1, MergedType DEF IInv, TypeOK, Save, Files
<1>3. entered' \in Config
  BY WantedType DEF IInv, TypeOK, Save
<1>4. flash' \in [saved : Files, risky : BOOLEAN] \cup {NoFlash}
  BY RacedFlash DEF IInv, TypeOK, Save
<1>5. acts' \in 0..MaxActs
  BY ConfigAssumption DEF IInv, TypeOK, Act
<1>6. /\ cause' \in {"none", "new", "reset", "key", "type", "blank", "full", "flash"}
      /\ doomed' \in {"no", "http", "loop"}
  BY DEF IInv, TypeOK, Save
<1>7. TypeOK'
  BY <1>2, <1>3, <1>4, <1>5, <1>6, Zenon DEF IInv, TypeOK, Save
<1>8. cause' = "none" => file' = entered' /\ Loadable(entered')
  <2> SUFFICES ASSUME cause' = "none" PROVE file' = entered' /\ Loadable(entered')
    OBVIOUS
  <2>1. fits /\ ~UnusableKey(p) /\ ~UnusableText(p) /\ p.text # "blank" /\ cause = "none"
    BY DEF Save
  <2>2. file = entered /\ Loadable(entered) /\ Base = entered
    BY <2>1 DEF IInv, SettingsKept, Intact, Base, Loadable
  <2>3. file' = Merged(entered, p) /\ entered' = Wanted(p) /\ Valid(Merged(entered, p))
    BY <2>1, <2>2 DEF Save
  <2>4. /\ TextOf(Merged(entered, p)) \notin NonTexts
        /\ ~(p.text \in Digits /\ entered.text = "number")
    BY <2>1, <2>2 DEF UnusableText
  <2> QED BY <2>1, <2>2, <2>3, <2>4, MergeCorrect DEF IInv, TypeOK
<1>11. cause' = "blank" => Loadable(file') /\ (flash' # NoFlash => flash'.risky)
  <2> SUFFICES ASSUME cause' = "blank" PROVE Loadable(file') /\ (flash' # NoFlash => flash'.risky)
    OBVIOUS
  <2>1. fits /\ ~UnusableKey(p) /\ ~UnusableText(p) /\ cause \in {"none", "blank"}
    BY DEF Save
  <2>2. Loadable(file) /\ Base = file /\ file \in Config
    BY <2>1 DEF IInv, SettingsKept, Intact, Base, Loadable
  <2>3. file' = Merged(file, p) /\ Valid(Merged(file, p))
    BY <2>1, <2>2 DEF Save
  <2>4. TextOf(Merged(file, p)) \notin NonTexts
    BY <2>1, <2>2 DEF UnusableText
  <2>5. flash' = Raced(flash)
    BY DEF Save
  <2> QED BY <2>1, <2>2, <2>3, <2>4, <2>5, MergeLoads, RacedFlash DEF IInv, TypeOK
<1>9. SettingsKept' /\ StaysProvisioned'
  BY <1>8 DEF SettingsKept, StaysProvisioned, Save
<1>10. Intact'
  BY <1>8, <1>11, RacedFlash DEF IInv, TypeOK, Intact, Save
<1> QED BY <1>7, <1>9, <1>10 DEF IInv
-----------------------------------------------------------------------------
(* The other actions.                                                      *)

LEMMA RestartInv == ASSUME IInv, Restart PROVE IInv'
<1>1. TypeOK'
  BY ConfigAssumption DEF IInv, TypeOK, Restart, Reboot
<1>2. SettingsKept' /\ StaysProvisioned' /\ Intact'
  BY DEF IInv, SettingsKept, StaysProvisioned, Intact, Restart, Reboot
<1> QED BY <1>1, <1>2 DEF IInv

LEMMA PowerCutInv == ASSUME IInv, PowerCut PROVE IInv'
<1>1. TypeOK'
  BY ConfigAssumption DEF IInv, TypeOK, PowerCut, Act, Reboot
<1>2. SettingsKept' /\ StaysProvisioned' /\ Intact'
  BY DEF IInv, SettingsKept, StaysProvisioned, Intact, PowerCut, Act, Reboot
<1> QED BY <1>1, <1>2 DEF IInv

LEMMA RecoveryConnectsInv == ASSUME IInv, RecoveryConnects PROVE IInv'
<1>1. TypeOK'
  BY ConfigAssumption DEF IInv, TypeOK, RecoveryConnects, Reboot
<1>2. SettingsKept' /\ StaysProvisioned' /\ Intact'
  BY DEF IInv, SettingsKept, StaysProvisioned, Intact, RecoveryConnects, Reboot
<1> QED BY <1>1, <1>2 DEF IInv

LEMMA HoldButtonInv == ASSUME IInv, HoldButton PROVE IInv'
<1>1. TypeOK'
  BY ConfigAssumption DEF IInv, TypeOK, HoldButton, Act
<1>2. SettingsKept' /\ StaysProvisioned' /\ Intact'
  BY DEF IInv, SettingsKept, StaysProvisioned, Intact, HoldButton, Act
<1> QED BY <1>1, <1>2 DEF IInv

LEMMA SoftApClosesInv == ASSUME IInv, SoftApCloses PROVE IInv'
<1>1. TypeOK'
  BY ConfigAssumption DEF IInv, TypeOK, SoftApCloses
<1>2. SettingsKept' /\ StaysProvisioned' /\ Intact'
  BY DEF IInv, SettingsKept, StaysProvisioned, Intact, SoftApCloses
<1> QED BY <1>1, <1>2 DEF IInv

LEMMA WifiChangesInv == ASSUME IInv, WifiChanges PROVE IInv'
<1>1. TypeOK'
  BY ConfigAssumption DEF IInv, TypeOK, WifiChanges, Act
<1>2. SettingsKept' /\ StaysProvisioned' /\ Intact'
  BY DEF IInv, SettingsKept, StaysProvisioned, Intact, WifiChanges, Act
<1> QED BY <1>1, <1>2 DEF IInv

LEMMA LogAppearsInv == ASSUME IInv, LogAppears PROVE IInv'
<1>1. TypeOK'
  BY ConfigAssumption DEF IInv, TypeOK, LogAppears
<1>2. SettingsKept' /\ StaysProvisioned' /\ Intact'
  BY DEF IInv, SettingsKept, StaysProvisioned, Intact, LogAppears
<1> QED BY <1>1, <1>2 DEF IInv

LEMMA SetupConfigInv == ASSUME IInv, SetupConfig PROVE IInv'
<1>1. TypeOK'
  BY DEF IInv, TypeOK, SetupConfig, Loadable
<1>2. SettingsKept' /\ StaysProvisioned' /\ Intact'
  BY DEF IInv, SettingsKept, StaysProvisioned, Intact, SetupConfig
<1> QED BY <1>1, <1>2 DEF IInv

LEMMA SetupWifiInv == ASSUME IInv, NEW connected \in BOOLEAN, SetupWifi(connected) PROVE IInv'
<1>1. TypeOK'
  BY DEF IInv, TypeOK, SetupWifi
<1>2. SettingsKept' /\ StaysProvisioned' /\ Intact'
  BY DEF IInv, SettingsKept, StaysProvisioned, Intact, SetupWifi
<1> QED BY <1>1, <1>2 DEF IInv

LEMMA ProvisionInv ==
  ASSUME IInv, NEW c \in Config \cup {Garbled}, Provision(c) PROVE IInv'
<1>1. TypeOK'
  BY ConfigAssumption DEF IInv, TypeOK, Files, Provision, Act, Reboot
<1>2. SettingsKept' /\ StaysProvisioned' /\ Intact'
  BY DEF IInv, SettingsKept, StaysProvisioned, Intact, Provision, Reboot
<1> QED BY <1>1, <1>2 DEF IInv

LEMMA FactoryResetInv == ASSUME IInv, FactoryReset PROVE IInv'
<1>1. TypeOK'
  BY ConfigAssumption, RacedFlash DEF IInv, TypeOK, Files, FactoryReset, Act
<1>2. SettingsKept' /\ StaysProvisioned' /\ Intact'
  BY DEF IInv, SettingsKept, StaysProvisioned, Intact, FactoryReset
<1> QED BY <1>1, <1>2 DEF IInv

LEMMA FsUploadInv == ASSUME IInv, NEW copied \in BOOLEAN, FsUpload(copied) PROVE IInv'
<1>1. flash' \in [saved : Files, risky : BOOLEAN]
  <2>1. (~copied \/ Overflow) \in BOOLEAN
    BY DEF Overflow
  <2>2. (IF copied THEN file ELSE Absent) \in Files
    BY DEF IInv, TypeOK, Files
  <2> QED BY <2>1, <2>2 DEF FsUpload
<1>2. TypeOK'
  BY <1>1, ConfigAssumption DEF IInv, TypeOK, FsUpload, Act
<1>3. ~flash'.risky => flash'.saved = file
  BY DEF FsUpload
<1>4. SettingsKept' /\ StaysProvisioned' /\ Intact'
  BY <1>3 DEF IInv, SettingsKept, StaysProvisioned, Intact, FsUpload
<1> QED BY <1>2, <1>4 DEF IInv

LEMMA FsFlashInv ==
  ASSUME IInv, NEW step \in {"begin", "failed", "restored"}, FsFlash(step) PROVE IInv'
<1>1. flash.saved \in Files
  BY DEF IInv, TypeOK, FsFlash
<1>2. TypeOK'
  BY <1>1, ConfigAssumption DEF IInv, TypeOK, Files, FsFlash, Reboot
<1>3. SettingsKept'
  BY DEF IInv, SettingsKept, Intact, FsFlash
<1>4. StaysProvisioned'
  BY DEF StaysProvisioned, FsFlash, Reboot
<1>5. Intact'
  <2>1. flash' = NoFlash /\ entered' = entered /\ mode' = "boot"
    BY DEF FsFlash, Reboot
  <2>2. cause' = "none" => Loadable(entered)
    BY DEF IInv, Intact, FsFlash
  <2>3. cause' = "blank" => Loadable(file')
    <3>1. cause' = "blank" => cause = "blank" /\ step = "begin" /\ file' = file
      BY DEF IInv, Intact, FsFlash
    <3> QED BY <3>1 DEF IInv, Intact
  <2> QED BY <2>1, <2>2, <2>3 DEF Intact
<1> QED BY <1>2, <1>3, <1>4, <1>5 DEF IInv
-----------------------------------------------------------------------------
\* Every step keeps the invariant.
LEMMA StepInv == IInv /\ [Next]_vars => IInv'
<1> SUFFICES ASSUME IInv, [Next]_vars PROVE IInv'
  OBVIOUS
<1>1. CASE Saves
  BY <1>1, SaveInv DEF Saves, AdminConfig, ProvisionSave
<1>2. CASE Flashes
  BY <1>2, FsFlashInv DEF Flashes
<1>3. CASE \E c \in Config \cup {Garbled} : Provision(c)
  BY <1>3, ProvisionInv
<1>4. CASE \E connected \in BOOLEAN : SetupWifi(connected)
  BY <1>4, SetupWifiInv
<1>5. CASE \E copied \in BOOLEAN : FsUpload(copied)
  BY <1>5, FsUploadInv
<1>6. CASE UNCHANGED vars
  BY <1>6, Zenon DEF IInv, TypeOK, SettingsKept, StaysProvisioned, Intact, vars
<1> QED
  BY <1>1, <1>2, <1>3, <1>4, <1>5, <1>6, RestartInv, PowerCutInv, SetupConfigInv,
     RecoveryConnectsInv, HoldButtonInv, SoftApClosesInv, WifiChangesInv, FactoryResetInv,
     LogAppearsInv DEF Next

\* The invariant holds in every reachable state.
LEMMA Invariance == Spec => []IInv
  BY InitInv, StepInv, PTL DEF Spec

\* Type correctness: in particular the mask of the forms never gets into the file.
THEOREM ConfigTypeOK == Spec => []TypeOK
<1>1. IInv => TypeOK
  BY DEF IInv
<1> QED BY <1>1, Invariance, PTL

\* The file holds what the operator typed, field by field (mergeAndSaveConfig, the copy
\* of setupFsOtaRoute), unless an event named by cause came between.
THEOREM SettingsAreKept == Spec => []SettingsKept
<1>1. IInv => SettingsKept
  BY DEF IInv
<1> QED BY <1>1, Invariance, PTL

\* No accepted form sends a node back to the serial port (mergeAndSaveConfig against
\* loadConfig), unless its key is not a number other than 0 or its text is not a text;
\* a blank never does.
THEOREM NodesStayProvisioned == Spec => []StaysProvisioned
<1>1. IInv => StaysProvisioned
  BY DEF IInv
<1> QED BY <1>1, Invariance, PTL
=============================================================================
